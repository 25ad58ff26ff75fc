----------------------------- MODULE VkmodelLoad -----------------------------
(***************************************************************************)
(* Loading a model file (src/src/vkmodel/vkmodel.c): vkmodel_load (GGUF),  *)
(* vkmodel_load_safetensors, vkmodel_load_openvino and vkmodel_destroy.    *)
(* A load takes its resources one by one, fills a descriptor per tensor,   *)
(* and streams each tensor's slice of the file to a buffer of its own in   *)
(* chunks; a failure on the way gives back what was taken so far, but for  *)
(* what FailureLeaves lists.                                               *)
(*                                                                         *)
(* A file is a record: its format, where its tensor descriptions end, its  *)
(* length, and per tensor the shape, element layout, offset and size it    *)
(* declares.  The byte at position p of a file is the number p.  Sizes and *)
(* offsets are uint64_t: they wrap at Word.  Of an OpenVINO topology it    *)
(* has the layers' ports, of every layer, in the order of the document,    *)
(* with the texts of their <dim> elements.                                 *)
(***************************************************************************)
EXTENDS Integers, FiniteSets, SequencesExt

CONSTANTS
  Files,      \* the files a caller may load
  Word,       \* 2^64
  Chunk,      \* VKMODEL_STREAM_CHUNK
  MaxDims,    \* VKMODEL_MAX_DIMS
  DimText,    \* sizeof(dim_text) - 1
  MaxTensors, \* VKMODEL_OV_MAX_LAYERS, which bounds the tensor count as well
  LoadFaults  \* subset of {"acquire", "fill", "pool", "buffer", "upload"}

Formats == {"gguf", "safetensors", "openvino"}

\* The text of a <dim>: the number it reads as, its length, and whether it is
\* all digits.
Text == [value : Nat, width : Nat, digits : BOOLEAN]
\* A <port> of a layer, in its <output> or not; closed: it has an end tag.
PortType == [layer : Nat \ {0}, out : BOOLEAN, closed : BOOLEAN, dims : Seq(Text)]
TensorType ==
  [dims : Seq(Nat), layer : Nat, blck : Nat \ {0}, bytes : Nat, offset : Nat, size : Nat]
FileType ==
  [fmt : Formats, kv : Nat, align : Nat \ {0}, meta : Nat, len : 0..(Word - 1),
   layers : Nat, ports : Seq(PortType), tensors : Seq(TensorType)]

\* The largest number that the XML parser reads: it stops before a digit that
\* might not fit.
Largest == 10 * ((Word - 10) \div 10) + 9

\* Only GGUF packs elements in blocks, only OpenVINO has ports; bytes = 0 stands
\* for an element type that the tables do not know.  A number of the topology
\* beyond Largest is malformed.
ASSUME LoadAssumption ==
  /\ Word \in Nat \ (0..9) /\ Chunk \in Nat \ {0} /\ MaxDims \in Nat \ {0}
  /\ DimText \in Nat /\ MaxTensors \in Nat \ {0}
  /\ Files \subseteq FileType
  /\ \A f \in Files :
       /\ f.fmt # "openvino" => f.ports = <<>>
       /\ \A port \in Range(f.ports) :
            port.layer \in 1..f.layers /\ (~port.closed => port.dims = <<>>)
       /\ \A t \in Range(f.tensors) :
            /\ f.fmt # "gguf" => t.blck = 1
            /\ f.fmt = "openvino" => /\ t.layer \in 1..f.layers
                                     /\ Range(t.dims) \cup {t.offset, t.size} \subseteq 0..Largest

NoFile ==
  [fmt |-> "none", kv |-> 0, align |-> 1, meta |-> 0, len |-> 0,
   layers |-> 0, ports |-> <<>>, tensors |-> <<>>]
Unread == -1

VARIABLES
  file,    \* the file being loaded
  phase,   \* "idle", "acquire", "metadata", "fill", "pool", "upload", "loaded", "failed", "crashed"
  live,    \* the resources of the load that exist: <<kind, tensor>>, or <<kind, 0>>
  rung,    \* how many of them have been acquired
  model,   \* m->tensors: [offset, size, content] of those that are filled
  up,      \* the tensor being uploaded
  pos,     \* file position of the reader
  done,    \* upload_off
  faulted  \* whether the environment made something fail

loadVars == <<file, phase, live, rung, model, up, pos, done, faulted>>

LoadInit ==
  /\ file = NoFile /\ phase = "idle" /\ live = {} /\ rung = 0
  /\ model = <<>> /\ up = 0 /\ pos = 0 /\ done = 0 /\ faulted = FALSE

-----------------------------------------------------------------------------
(* What a tensor description means.                                        *)

Product(dims) ==
  LET upTo[n \in 0..Len(dims)] == IF n = 0 THEN 1 ELSE dims[n] * upTo[n - 1]
  IN  upTo[Len(dims)]

\* vkmodel_align_up.
AlignUp(value, align) ==
  LET rem == value % align
  IN  IF rem = 0 THEN value ELSE value + (align - rem)

\* m->data_offset.
DataOffset(f) ==
  CASE f.fmt = "gguf" -> AlignUp(f.meta, f.align)
    [] f.fmt = "safetensors" -> f.meta
    [] OTHER -> 0

\* What scan_layers carries from one <dim> to the next, over ports and layers:
\* in_first_port, dim_text, and the out_dims of each layer; end says how it ends.
NoText == [value |-> 0, width |-> 0, digits |-> TRUE]
ScanStart(f) ==
  [end |-> "going", first |-> FALSE, text |-> NoText, dims |-> [l \in 1..f.layers |-> <<>>]]

Joined(text, piece) ==
  [value  |-> text.value * Product([i \in 1..piece.width |-> 10]) + piece.value,
   width  |-> text.width + piece.width,
   digits |-> text.digits /\ piece.digits]
Readable(text) == text.digits /\ text.value \in 1..Largest

\* Mutant: dim_text is not reset.
DimKeepsText(s, layer, text) ==
  IF Len(s.dims[layer]) >= MaxDims THEN [s EXCEPT !.text = text]
  ELSE IF Readable(text) THEN [s EXCEPT !.text = text, !.dims[layer] = Append(@, text.value)]
  ELSE [s EXCEPT !.end = "bad"]
\* </dim>: beyond MaxDims the text stays where it is, for the next dim to go on.
DimEnds(s, layer, text) ==
  IF Len(s.dims[layer]) >= MaxDims THEN [s EXCEPT !.text = text]
  ELSE IF Readable(text) THEN [s EXCEPT !.text = NoText, !.dims[layer] = Append(@, text.value)]
  ELSE [s EXCEPT !.end = "bad"]

ScanDim(s, layer, piece) ==
  LET text == Joined(s.text, piece)
  IN  IF s.end # "going" THEN s
      ELSE IF text.width > DimText THEN [s EXCEPT !.end = "long"]
      ELSE DimEnds(s, layer, text)

\* in_first_port is cleared by an end tag only: every port of an <output> sets it
\* again, and after one without an end tag it stays.
ScanPort(s, port) ==
  LET first == s.first \/ port.out
      read[k \in 0..Len(port.dims)] ==
        IF k = 0 THEN s ELSE ScanDim(read[k - 1], port.layer, port.dims[k])
      end == IF first THEN read[Len(port.dims)] ELSE s
  IN  [end EXCEPT !.first = first /\ ~port.closed]

Scan(f) ==
  LET upTo[k \in 0..Len(f.ports)] ==
        IF k = 0 THEN ScanStart(f) ELSE ScanPort(upTo[k - 1], f.ports[k])
  IN  upTo[Len(f.ports)]

\* The dims a tensor is given: those of its shape; in OpenVINO without one those
\* that scan_layers collected for its layer.
OwnShape(f, t) == t.dims # <<>> \/ f.fmt # "openvino"
DimsOf(f, t) == IF OwnShape(f, t) THEN t.dims ELSE Scan(f).dims[t.layer]

\* vkmodel_tensor_bytes of the wrapped element count (GGUF).
GgufBytes(t) ==
  LET nelems == Product(t.dims) % Word
      blocks == ((nelems + t.blck - 1) % Word) \div t.blck
  IN  (blocks * t.bytes) % Word

SizeOf(f, t) == IF f.fmt = "gguf" THEN GgufBytes(t) ELSE t.size

\* Mutant: only the wrapped end of the slice is compared.
WrapAllowed(t) == TRUE
EndFits(t) == t.offset <= Word - 1 - t.size
InsideBin(f, t) == (t.offset + t.size) % Word <= f.len

\* vkmodel_parse_tensors, vkmodel_st_fill and vkmodel_ov_fill_tensor on one tensor.
Accepted(f, t) ==
  LET dims == DimsOf(f, t)
  IN  /\ Len(dims) \in 1..MaxDims /\ 0 \notin Range(dims) /\ t.bytes > 0
      /\ CASE f.fmt = "gguf" -> GgufBytes(t) # 0
           [] f.fmt = "safetensors" -> /\ Product(dims) < Word
                                       /\ t.size > 0
                                       /\ t.size = (Product(dims) * t.bytes) % Word
           [] OTHER -> /\ Product(dims) * t.bytes < Word
                       /\ t.size = Product(dims) * t.bytes
                       /\ EndFits(t) /\ InsideBin(f, t)

-----------------------------------------------------------------------------
(* Acquiring and giving back.                                              *)

One(kinds) == kinds \X {0}

\* The count of an OpenVINO model's tensors passed its limit: it is left at 0, and
\* m->tensors at NULL.
TooMany(f) == f.fmt = "openvino" /\ Len(f.tensors) > MaxTensors

\* In the order in which a load takes them.
Ladder(f) ==
  LET tensors == IF f.tensors # <<>> /\ ~TooMany(f) THEN <<"tensors">> ELSE <<>>
      kv      == IF f.kv > 0 THEN <<"kv">> ELSE <<>>
  IN  CASE f.fmt = "gguf" -> <<"model", "file">> \o tensors \o kv
        [] f.fmt = "safetensors" -> <<"model", "file", "json", "root">> \o tensors \o kv
        [] OTHER -> <<"xmlfile", "xml", "bin", "layers", "model">> \o tensors

\* Closed or freed as soon as r is there: the .xml file, then its text.
Spent(r) == CASE r = "xml" -> {"xmlfile"} [] r = "layers" -> {"xml"} [] OTHER -> {}

\* Mutant: the scanned layers are forgotten when the model cannot be allocated.
FreedButLayers(r) == live \ One(IF r = "model" THEN {"layers"} ELSE {})
\* What the path for a missing r gives back: all, but for the tensor array of a
\* safetensors load that finds no memory for the metadata array.
FreedWithout(r) ==
  IF file.fmt = "safetensors" /\ r = "kv" THEN live \ One({"tensors"}) ELSE live

\* vkmodel_destroy of the model, by what it owns.
Owned == One({"model", "tensors", "kv", "strings", "pool", "cmd"})
           \cup ({"name", "buffer"} \X DOMAIN file.tensors)

\* A failure after the model exists: the file is closed, the scratch freed, and
\* the model destroyed.
Abandon ==
  /\ live' = live \ (Owned \cup One({"file", "bin", "json", "root", "layers", "chunk"}))
  /\ phase' = "failed"
  /\ UNCHANGED <<file, rung, model, up, pos, done>>

Fault(kind) == kind \in LoadFaults /\ faulted' = TRUE

Begin(f) ==
  /\ phase = "idle" /\ phase' = "acquire"
  /\ file' = f /\ rung' = 0 /\ model' = <<>> /\ up' = 1 /\ done' = 0 /\ pos' = 0
  /\ UNCHANGED <<live, faulted>>

Wanted == Ladder(file)[rung + 1]

Acquire ==
  /\ phase = "acquire" /\ (Wanted = "layers" => Scan(file).end = "going")
  /\ live' = (live \cup One({Wanted})) \ One(Spent(Wanted))
  /\ rung' = rung + 1
  /\ phase' = IF rung' = Len(Ladder(file)) THEN "metadata" ELSE "acquire"
  /\ UNCHANGED <<file, model, up, pos, done, faulted>>

\* scan_layers does not take the topology.  At a text that is no positive number
\* the name of the element is off the stack but not freed.
ScanRefuses ==
  /\ phase = "acquire" /\ Wanted = "layers" /\ Scan(file).end # "going"
  /\ phase' = "failed"
  /\ live' = (live \ FreedWithout(Wanted))
               \cup One(IF Scan(file).end = "bad" THEN {"dimName"} ELSE {})
  /\ UNCHANGED <<file, rung, model, up, pos, done, faulted>>

\* What may have been parsed of a tag when the scan meets its malformed end.
Dropped(r) == One(IF r = "layers" THEN {"tag"} ELSE {})

\* A file is missing, too short or malformed, or there is no memory.  In
\* vkmodel_load the counts are set before the arrays exist, and vkmodel_destroy
\* walks the missing array.
AcquireFails ==
  /\ phase = "acquire" /\ Fault("acquire")
  /\ \/ /\ file.fmt = "gguf" /\ Wanted \in {"tensors", "kv"}
        /\ phase' = "crashed" /\ UNCHANGED live
     \/ /\ ~(file.fmt = "gguf" /\ Wanted \in {"tensors", "kv"})
        /\ phase' = "failed"
        /\ \E dropped \in SUBSET Dropped(Wanted) :
             live' = (live \ FreedWithout(Wanted)) \cup dropped
  /\ UNCHANGED <<file, rung, model, up, pos, done>>

\* vkmodel_parse_header refuses the header before it has set the counts.
HeaderFails ==
  /\ file.fmt = "gguf" /\ phase \in {"acquire", "metadata"} /\ rung = 2
  /\ Fault("acquire") /\ Abandon

\* vkmodel_parse_metadata and the __metadata__ part of vkmodel_st_fill.
AlignmentOk == file.fmt = "gguf" => file.align >= 8 /\ file.align % 8 = 0
Metadata ==
  /\ phase = "metadata" /\ AlignmentOk
  /\ live' = live \cup One(IF file.kv > 0 THEN {"strings"} ELSE {})
  /\ phase' = "fill"
  /\ UNCHANGED <<file, rung, model, up, pos, done, faulted>>

MetadataFails ==
  /\ phase = "metadata"
  /\ \/ ~AlignmentOk /\ UNCHANGED faulted
     \/ file.kv > 0 /\ Fault("fill")
  /\ Abandon

-----------------------------------------------------------------------------
(* Filling the tensors and uploading them.                                 *)

NextTensor == file.tensors[Len(model) + 1]

FillTensor ==
  /\ phase = "fill" /\ Len(model) < Len(file.tensors) /\ Accepted(file, NextTensor)
  /\ ~TooMany(file)
  /\ LET size == SizeOf(file, NextTensor)
     IN  model' = Append(model, [offset |-> NextTensor.offset, size |-> size,
                                 content |-> [p \in 0..(size - 1) |-> Unread]])
  /\ live' = live \cup {<<"name", Len(model')>>}
  /\ UNCHANGED <<file, phase, rung, up, pos, done, faulted>>

FillFails ==
  /\ phase = "fill" /\ Len(model) < Len(file.tensors)
  /\ \/ ~Accepted(file, NextTensor) /\ UNCHANGED faulted
     \/ Fault("fill")
  /\ Abandon

\* The first tensor goes to an array that was not allocated.
FillOverruns ==
  /\ phase = "fill" /\ TooMany(file) /\ Accepted(file, NextTensor)
  /\ phase' = "crashed"
  /\ UNCHANGED <<file, live, rung, model, up, pos, done, faulted>>

\* The parsed description is freed.
FillDone ==
  /\ phase = "fill" /\ Len(model) = Len(file.tensors)
  /\ phase' = "pool" /\ live' = live \ One({"json", "root", "layers"})
  /\ UNCHANGED <<file, rung, model, up, pos, done, faulted>>

\* vkmodel_create_upload_state; without a command buffer it destroys the pool.
CreateUploadState ==
  /\ phase = "pool" /\ phase' = "upload"
  /\ live' = live \cup One({"pool", "cmd"})
  /\ UNCHANGED <<file, rung, model, up, pos, done, faulted>>

NoUploadState == phase = "pool" /\ Fault("pool") /\ Abandon

Uploading == phase = "upload" /\ up <= Len(model)
Streaming == Uploading /\ <<"chunk", 0>> \in live

\* Mutant: the reader goes on where the last tensor ended.
WhereItWas(i) == IF i = 1 THEN DataOffset(file) + model[i].offset ELSE pos
SeekTo(i) == (DataOffset(file) + model[i].offset) % Word

\* vkmodel_upload_tensor up to its loop: buffer, seek, chunk.
StartTensor ==
  /\ Uploading /\ ~Streaming
  /\ live' = live \cup {<<"buffer", up>>, <<"chunk", 0>>}
  /\ pos' = SeekTo(up) /\ done' = 0
  /\ UNCHANGED <<file, phase, rung, model, up, faulted>>

NoTensorBuffer == Uploading /\ ~Streaming /\ Fault("buffer") /\ Abandon

\* Mutant: the last slice is a whole chunk as well.
WholeChunk(t) == Chunk
SliceBytes(t) == Min({t.size - done, Chunk})
ReadFits(t) == pos + SliceBytes(t) <= file.len

UploadSlice ==
  LET t == model[up]
      n == SliceBytes(t)
  IN  /\ Streaming /\ done < t.size /\ ReadFits(t)
      /\ model' = [model EXCEPT ![up].content =
                     [p \in DOMAIN @ |-> IF p \in done..(done + n - 1) THEN pos + (p - done) ELSE @[p]]]
      /\ pos' = pos + n /\ done' = done + n
      /\ UNCHANGED <<file, phase, live, rung, up, faulted>>

\* The file ends, or vkr_upload fails.
UploadFails ==
  /\ Streaming /\ done < model[up].size
  /\ \/ ~ReadFits(model[up]) /\ UNCHANGED faulted
     \/ Fault("upload")
  /\ Abandon

TensorDone ==
  /\ Streaming /\ done >= model[up].size
  /\ live' = live \ One({"chunk"}) /\ up' = up + 1
  /\ UNCHANGED <<file, phase, rung, model, pos, done, faulted>>

LoadDone ==
  /\ phase = "upload" /\ up > Len(model)
  /\ phase' = "loaded" /\ live' = live \ One({"file", "bin"})
  /\ UNCHANGED <<file, rung, model, up, pos, done, faulted>>

\* vkmodel_destroy by the caller.
DestroyModel ==
  /\ phase = "loaded" /\ phase' = "idle"
  /\ live' = live \ Owned
  /\ file' = NoFile /\ model' = <<>> /\ rung' = 0 /\ up' = 0 /\ pos' = 0 /\ done' = 0
  /\ UNCHANGED faulted

LoadNext ==
  \/ \E f \in Files : Begin(f)
  \/ Acquire \/ ScanRefuses \/ AcquireFails \/ HeaderFails \/ Metadata \/ MetadataFails
  \/ FillTensor \/ FillFails \/ FillOverruns \/ FillDone
  \/ CreateUploadState \/ NoUploadState
  \/ StartTensor \/ NoTensorBuffer \/ UploadSlice \/ UploadFails \/ TensorDone
  \/ LoadDone \/ DestroyModel

LoadSpec == LoadInit /\ [][LoadNext]_loadVars

-----------------------------------------------------------------------------
(* Properties.                                                             *)

\* The variables have their types; an upload never passes the end of its tensor.
LoadTypeOK ==
  /\ file \in Files \cup {NoFile}
  /\ phase \in {"idle", "acquire", "metadata", "fill", "pool", "upload", "loaded", "failed", "crashed"}
  /\ live \subseteq Owned \cup One(Range(Ladder(file)) \cup {"chunk", "tag", "dimName"})
  /\ rung \in 0..Len(Ladder(file)) /\ faulted \in BOOLEAN /\ pos \in Nat
  /\ \A i \in DOMAIN model : model[i].offset \in Nat /\ model[i].size \in 1..(Word - 1)
  /\ up \in 0..(Len(model) + 1)
  /\ done \in 0..(IF Streaming THEN model[up].size ELSE Word - 1)

\* Where the data begins, for a file that is read as its format says.
DataStart(f) ==
  CASE f.fmt = "gguf" -> Min({p \in f.meta..(f.meta + f.align) : p % f.align = 0})
    [] f.fmt = "safetensors" -> f.meta
    [] OTHER -> 0

\* A loaded tensor's buffer is, byte for byte, the slice of the file at its own
\* offset behind the start of the data, however it was cut into chunks.  Nothing
\* checks the offset that a GGUF or safetensors file declares: one that wraps
\* finds the bytes of another place, and is left out.
BuffersExact ==
  phase = "loaded" =>
    /\ Len(model) = Len(file.tensors)
    /\ \A i \in DOMAIN model :
         LET first == DataStart(file) + file.tensors[i].offset
         IN  first < Word => model[i].content = [p \in 0..(model[i].size - 1) |-> first + p]

\* A load that fails leaves nothing behind and a destroyed model neither, wherever
\* it failed, but for three things: the tensor array of a safetensors load that
\* has no memory for the metadata array, and what scan_layers had parsed of a tag
\* or popped of its stack.  The process survives each failure but two: vkmodel_load
\* has no memory for an array, or an OpenVINO model has too many tensors.
FailureLeaves ==
  /\ phase = "idle" => live = {}
  /\ phase = "failed" =>
       live \subseteq One(CASE file.fmt = "safetensors" /\ rung < Len(Ladder(file)) -> {"tensors"}
                           [] file.fmt = "openvino" /\ rung = 3 -> {"tag", "dimName"}
                           [] OTHER -> {})
  /\ phase = "crashed" =>
       \/ file.fmt = "gguf" /\ rung < Len(Ladder(file)) /\ Wanted \in {"tensors", "kv"}
       \/ TooMany(file)

\* "On failure *pModel is set to NULL and all partial state is released"
\* (vkmodel.h, of vkmodel_load): it is not when an array cannot be allocated.
FailureReleasesAll ==
  file.fmt = "gguf" => phase # "crashed" /\ (phase = "failed" => live = {})

\* A topology whose output dims scan_layers collects as they are: no layer has two
\* output ports, or one of more dims than there is room for, and each dim is a
\* number.  Layers that hold no constant count as well.
Outputs(f, l) == {i \in DOMAIN f.ports : f.ports[i].out /\ f.ports[i].layer = l}
Plain(f) ==
  /\ \A l \in 1..f.layers : \A i, j \in Outputs(f, l) : i = j
  /\ \A port \in Range(f.ports) :
       port.out =>
         /\ port.closed /\ Len(port.dims) <= MaxDims
         /\ \A text \in Range(port.dims) : Readable(text) /\ text.width <= DimText

\* The dims that a topology declares for a layer.
Values(port) == [k \in DOMAIN port.dims |-> port.dims[k].value]
PortDims(f, l) ==
  IF Outputs(f, l) = {} THEN <<>> ELSE Values(f.ports[CHOOSE i \in Outputs(f, l) : TRUE])

\* The size a shape has, and whether a slice lies in the file: in plain integers.
\* A sound shape has dims that VkModelTensor has room for and elements that 64
\* bits count, rounded up to a block.
TrueDims(f, t) == IF OwnShape(f, t) THEN t.dims ELSE PortDims(f, t.layer)
TrueSize(f, t) == ((Product(TrueDims(f, t)) + t.blck - 1) \div t.blck) * t.bytes
Sound(f, t) ==
  LET size == IF f.fmt = "gguf" THEN TrueSize(f, t) ELSE t.size
  IN  /\ Len(TrueDims(f, t)) \in 1..MaxDims
      /\ Product(TrueDims(f, t)) + t.blck - 1 < Word
      /\ size > 0 /\ size = TrueSize(f, t)
      /\ DataStart(f) + t.offset + size <= f.len

\* A sound file loads unless the environment fails: one with an alignment that is
\* accepted, tensors that are all sound and, in OpenVINO, a plain topology and no
\* more tensors than the limit.
SoundFileLoads ==
  phase \in {"failed", "crashed"} /\ ~faulted =>
    \/ ~AlignmentOk \/ ~Plain(file) \/ TooMany(file)
    \/ \E t \in Range(file.tensors) : ~Sound(file, t)

\* "Tensor byte size must equal shape-product x element-size, and the referenced
\* slice must lie inside the .bin" (vkmodel.c): it does, with no wrap, for every
\* tensor of an accepted OpenVINO model that has a shape of its own; for the
\* others where the topology is plain.
OpenVinoSound ==
  file.fmt = "openvino" /\ phase \in {"pool", "upload", "loaded"} =>
    \A t \in Range(file.tensors) : OwnShape(file, t) \/ Plain(file) => Sound(file, t)
=============================================================================
