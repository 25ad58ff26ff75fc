--------------------------- MODULE ModelState_proofs ---------------------------
(***************************************************************************)
(* TLAPS proofs about VkmodelLoad, for any model files and any failures: a *)
(* load that fails has a reason and gives back what it took but for what   *)
(* FailureLeaves lists, one that succeeds has put into each buffer the     *)
(* bytes of its tensor, and in a plain topology each layer gets the dims   *)
(* its output port declares.  With those of Caches_proofs they give the    *)
(* type invariant of all that the program keeps for a model.               *)
(***************************************************************************)
EXTENDS MCModelState, Caches_proofs

-----------------------------------------------------------------------------
(* The order in which a load takes its resources.                          *)

Arrays == {"tensors", "kv"}
Kinds == {"xmlfile", "xml", "bin", "layers", "model", "file", "json", "root"} \cup Arrays

\* A ladder is its own rungs and then some arrays.
LEMMA Extended ==
  ASSUME NEW base \in Seq(Kinds), NEW more \in Seq(Arrays)
  PROVE  /\ base \o more \in Seq(Kinds)
         /\ Len(base \o more) = Len(base) + Len(more) /\ Len(more) \in Nat
         /\ \A i \in 1..Len(base) : (base \o more)[i] = base[i]
         /\ \A i \in (Len(base) + 1)..Len(base \o more) : (base \o more)[i] \in Arrays
<1>1. more \in Seq(Kinds) /\ Len(more) \in Nat /\ Len(base) \in Nat
  BY DEF Kinds
<1>2. /\ base \o more \in Seq(Kinds)
      /\ Len(base \o more) = Len(base) + Len(more)
      /\ \A i \in 1..(Len(base) + Len(more)) :
           (base \o more)[i] = IF i <= Len(base) THEN base[i] ELSE more[i - Len(base)]
  BY <1>1, ConcatProperties
<1>3. \A i \in (Len(base) + 1)..Len(base \o more) : (base \o more)[i] \in Arrays
  <2> SUFFICES ASSUME NEW i \in (Len(base) + 1)..Len(base \o more)
               PROVE  (base \o more)[i] \in Arrays
    OBVIOUS
  <2>1. i - Len(base) \in 1..Len(more)
    BY <1>1, <1>2
  <2>2. more[i - Len(base)] \in Arrays
    BY <2>1, ElementOfSeq
  <2> QED
    BY <1>1, <1>2, <2>2
<1> QED
  BY <1>1, <1>2, <1>3

TensorRung(f) == IF f.tensors # <<>> /\ ~TooMany(f) THEN <<"tensors">> ELSE <<>>
KvRung(f) == IF f.kv > 0 THEN <<"kv">> ELSE <<>>
Base(f) ==
  CASE f.fmt = "gguf" -> <<"model", "file">>
    [] f.fmt = "safetensors" -> <<"model", "file", "json", "root">>
    [] OTHER -> <<"xmlfile", "xml", "bin", "layers", "model">>

LEMMA BaseType ==
  ASSUME NEW f, f.fmt \in Formats
  PROVE  Base(f) \in Seq(Kinds)
<1>1. /\ <<"model", "file">> \in Seq(Kinds) /\ <<"model", "file", "json", "root">> \in Seq(Kinds)
      /\ <<"xmlfile", "xml", "bin", "layers", "model">> \in Seq(Kinds)
  BY DEF Kinds
<1> QED
  BY <1>1, Zenon DEF Base

LEMMA LadderIs ==
  ASSUME NEW f, f.fmt \in Formats
  PROVE  \E more \in Seq(Arrays) : Ladder(f) = Base(f) \o more
<1>1. TensorRung(f) \in Seq(Arrays) /\ KvRung(f) \in Seq(Arrays)
  <2>1. <<>> \in Seq(Arrays) /\ <<"tensors">> \in Seq(Arrays) /\ <<"kv">> \in Seq(Arrays)
    BY DEF Arrays
  <2> QED
    BY <2>1, Zenon DEF TensorRung, KvRung
<1>2. TensorRung(f) \o KvRung(f) \in Seq(Arrays)
  BY <1>1, ConcatProperties
<1>3. Base(f) \in Seq(Kinds) /\ TensorRung(f) \in Seq(Kinds) /\ KvRung(f) \in Seq(Kinds)
  BY <1>1, BaseType DEF Kinds
<1>4. (Base(f) \o TensorRung(f)) \o KvRung(f) = Base(f) \o (TensorRung(f) \o KvRung(f))
  BY <1>3, ConcatAssociative
<1>5. CASE f.fmt = "openvino"
  <2>1. Ladder(f) = Base(f) \o TensorRung(f)
    BY <1>5, Zenon DEF Ladder, Base, TensorRung
  <2> QED
    BY <1>1, <2>1
<1>6. CASE f.fmt # "openvino"
  <2>1. Ladder(f) = (Base(f) \o TensorRung(f)) \o KvRung(f)
    BY <1>6 DEF Ladder, Base, TensorRung, KvRung, Formats
  <2> QED
    BY <1>2, <1>4, <2>1
<1> QED
  BY <1>5, <1>6

\* What a rung may be, by where it is.
LEMMA Rungs ==
  ASSUME NEW f, f.fmt \in Formats
  PROVE  /\ Len(Ladder(f)) \in Nat \ {0}
         /\ \A i \in 1..Len(Ladder(f)) : Ladder(f)[i] \in Kinds
         /\ f.fmt # "openvino" =>
              \A i \in 1..Len(Ladder(f)) : Ladder(f)[i] \notin {"xmlfile", "xml", "layers"}
         /\ f.fmt = "openvino" => /\ Len(Ladder(f)) >= 5
                                  /\ Ladder(f)[1] = "xmlfile" /\ Ladder(f)[2] = "xml"
                                  /\ Ladder(f)[4] = "layers"
                                  /\ \A i \in 3..Len(Ladder(f)) : Ladder(f)[i] \notin {"xmlfile", "xml"}
                                  /\ \A i \in 1..Len(Ladder(f)) : Ladder(f)[i] = "layers" => i = 4
<1>1. PICK more \in Seq(Arrays) : Ladder(f) = Base(f) \o more
  BY LadderIs
<1>2. Base(f) \in Seq(Kinds)
  BY BaseType
<1>3. /\ Ladder(f) \in Seq(Kinds)
      /\ Len(Ladder(f)) = Len(Base(f)) + Len(more) /\ Len(more) \in Nat
      /\ \A i \in 1..Len(Base(f)) : Ladder(f)[i] = Base(f)[i]
      /\ \A i \in (Len(Base(f)) + 1)..Len(Ladder(f)) : Ladder(f)[i] \in Arrays
  BY <1>1, <1>2, Extended
<1>4. \A i \in 1..Len(Ladder(f)) : Ladder(f)[i] \in Kinds
  BY <1>3, ElementOfSeq
<1>5. CASE f.fmt = "gguf"
  <2>1. /\ Len(Base(f)) = 2 /\ Base(f)[1] = "model" /\ Base(f)[2] = "file"
    BY <1>5 DEF Base
  <2>2. \A i \in 1..Len(Ladder(f)) : i \in 3..Len(Ladder(f)) \/ i = 1 \/ i = 2
    BY <1>3, <2>1
  <2> QED
    BY <1>3, <1>4, <1>5, <2>1, <2>2 DEF Arrays
<1>6. CASE f.fmt = "safetensors"
  <2>1. /\ Len(Base(f)) = 4 /\ Base(f)[1] = "model" /\ Base(f)[2] = "file" /\ Base(f)[3] = "json"
        /\ Base(f)[4] = "root"
    BY <1>6 DEF Base
  <2>2. \A i \in 1..Len(Ladder(f)) : i \in 5..Len(Ladder(f)) \/ i = 1 \/ i = 2 \/ i = 3 \/ i = 4
    BY <1>3, <2>1
  <2> QED
    BY <1>3, <1>4, <1>6, <2>1, <2>2 DEF Arrays
<1>7. CASE f.fmt = "openvino"
  <2>1. /\ Len(Base(f)) = 5 /\ Base(f)[1] = "xmlfile" /\ Base(f)[2] = "xml" /\ Base(f)[3] = "bin"
        /\ Base(f)[4] = "layers" /\ Base(f)[5] = "model"
    BY <1>7 DEF Base
  <2>2. /\ \A i \in 3..Len(Ladder(f)) : i \in 6..Len(Ladder(f)) \/ i = 3 \/ i = 4 \/ i = 5
        /\ \A i \in 1..Len(Ladder(f)) : i \in 3..Len(Ladder(f)) \/ i = 1 \/ i = 2
    BY <1>3, <2>1
  <2> QED
    BY <1>3, <1>4, <1>7, <2>1, <2>2 DEF Arrays
<1> QED
  BY <1>5, <1>6, <1>7 DEF Formats

-----------------------------------------------------------------------------
(* The inductive invariant.                                                *)

\* The file, and the counters that follow its tensors.
Followed ==
  /\ IF phase = "idle" THEN file = NoFile ELSE file \in Files
  /\ \E S : model \in Seq(S)
  /\ Len(model) <= Len(file.tensors)
  /\ rung \in Nat /\ up \in Nat
  /\ phase \notin {"idle", "loaded"} => up > 0

\* What a load may hold in each of its phases.
Held ==
  /\ phase = "idle" => live = {}
  /\ phase = "acquire" =>
       /\ live \subseteq One(Kinds) /\ rung < Len(Ladder(file))
       /\ <<"xmlfile", 0>> \in live => file.fmt = "openvino" /\ rung = 1
       /\ <<"xml", 0>> \in live => file.fmt = "openvino" /\ rung \in {2, 3}
  /\ phase \in {"metadata", "fill"} =>
       live \subseteq Owned \cup One({"file", "bin", "json", "root", "layers"})
  /\ phase = "pool" => live \subseteq Owned \cup One({"file", "bin"})
  /\ phase = "upload" =>
       /\ live \subseteq Owned \cup One({"file", "bin", "chunk"})
       /\ <<"chunk", 0>> \in live => up <= Len(model)
  /\ phase = "loaded" => live \subseteq Owned
  /\ phase \in {"failed", "crashed"} => FailureLeaves

LoadInv == Followed /\ Held

LEMMA FileFacts ==
  ASSUME NEW f \in Files
  PROVE  /\ f.fmt \in Formats /\ f.tensors \in Seq(TensorType)
         /\ Len(f.tensors) \in Nat /\ DOMAIN f.tensors = 1..Len(f.tensors)
<1>1. f.fmt \in Formats /\ f.tensors \in Seq(TensorType)
  BY LoadAssumption DEF FileType
<1> QED
  BY <1>1, LenProperties

LEMMA LoadInitInv == LoadInit => LoadInv
<1> SUFFICES ASSUME LoadInit PROVE LoadInv
  OBVIOUS
<1>1. model \in Seq({}) /\ Len(model) = 0 /\ Len(file.tensors) = 0
  BY DEF LoadInit, NoFile
<1> QED
  BY <1>1 DEF LoadInit, LoadInv, Followed, Held

LEMMA BeginInv ==
  ASSUME LoadInv, NEW f \in Files, Begin(f)
  PROVE  LoadInv'
<1>1. Len(f.tensors) \in Nat /\ f.fmt \in Formats
  BY FileFacts
<1>2. Followed'
  <2>1. model' \in Seq({}) /\ Len(model') = 0
    BY DEF Begin
  <2> QED
    BY <1>1, <2>1 DEF Begin, Followed
<1>3. Held'
  BY <1>1, Rungs DEF LoadInv, Held, Begin
<1> QED
  BY <1>2, <1>3 DEF LoadInv

LEMMA AcquireInv ==
  ASSUME LoadInv, Acquire
  PROVE  LoadInv'
<1>1. /\ file \in Files /\ file.fmt \in Formats /\ rung \in Nat
      /\ live \subseteq One(Kinds) /\ rung < Len(Ladder(file)) /\ Len(Ladder(file)) \in Nat
  BY FileFacts, Rungs DEF LoadInv, Followed, Held, Acquire
<1>2. Followed'
  BY <1>1 DEF LoadInv, Followed, Acquire
<1>3. Wanted \in Kinds
  BY <1>1, Rungs DEF Wanted
<1>4. live' \subseteq One(Kinds)
  BY <1>1, <1>3 DEF Acquire, One
<1>5. <<"xmlfile", 0>> \in live' => file.fmt = "openvino" /\ rung' = 1
  <2> SUFFICES ASSUME <<"xmlfile", 0>> \in live' PROVE file.fmt = "openvino" /\ rung = 0
    BY <1>1 DEF Acquire
  <2>1. CASE <<"xmlfile", 0>> \in live
    <3>1. file.fmt = "openvino" /\ rung = 1
      BY <2>1 DEF LoadInv, Held, Acquire
    <3>2. Wanted = "xml"
      BY <1>1, <3>1, Rungs DEF Wanted
    <3> QED
      BY <3>2 DEF Acquire, Spent, One
  <2>2. CASE Wanted = "xmlfile"
    BY <1>1, <2>2, Rungs DEF Wanted
  <2> QED
    BY <2>1, <2>2 DEF Acquire, One
<1>6. <<"xml", 0>> \in live' => file.fmt = "openvino" /\ rung' \in {2, 3}
  <2> SUFFICES ASSUME <<"xml", 0>> \in live' PROVE file.fmt = "openvino" /\ rung \in {1, 2}
    BY <1>1 DEF Acquire
  <2>1. CASE <<"xml", 0>> \in live
    <3>1. file.fmt = "openvino" /\ rung \in {2, 3}
      BY <2>1 DEF LoadInv, Held, Acquire
    <3>2. rung = 3 => Wanted = "layers"
      BY <1>1, <3>1, Rungs DEF Wanted
    <3>3. Wanted # "layers"
      BY DEF Acquire, Spent, One
    <3> QED
      BY <3>1, <3>2, <3>3
  <2>2. CASE Wanted = "xml"
    BY <1>1, <2>2, Rungs DEF Wanted
  <2> QED
    BY <2>1, <2>2 DEF Acquire, One
<1>7. CASE rung' # Len(Ladder(file))
  <2>1. phase' = "acquire" /\ file' = file
    BY <1>7 DEF Acquire
  <2>2. rung' < Len(Ladder(file'))
    BY <1>1, <1>7, <2>1 DEF Acquire
  <2>3. Held'
    BY <1>4, <1>5, <1>6, <2>1, <2>2 DEF Held
  <2> QED
    BY <1>2, <2>3 DEF LoadInv
<1>8. CASE rung' = Len(Ladder(file))
  <2>1. file.fmt = "openvino" => rung' >= 5
    BY <1>1, <1>8, Rungs
  <2>2. <<"xmlfile", 0>> \notin live' /\ <<"xml", 0>> \notin live'
    BY <1>5, <1>6, <2>1
  <2>3. live' \subseteq One(Kinds \ {"xmlfile", "xml"})
    BY <1>4, <2>2 DEF One
  <2>4. live' \subseteq Owned' \cup One({"file", "bin", "json", "root", "layers"})
    BY <2>3 DEF One, Owned, Kinds, Arrays
  <2>5. phase' = "metadata"
    BY <1>8 DEF Acquire
  <2>6. Held'
    BY <2>4, <2>5 DEF Held
  <2> QED
    BY <1>2, <2>6 DEF LoadInv
<1> QED
  BY <1>7, <1>8

\* A failure behind the acquisition leaves nothing.
LEMMA AbandonInv ==
  ASSUME LoadInv, Abandon, phase \in {"metadata", "fill", "pool", "upload"}
  PROVE  LoadInv'
<1>1. live \subseteq Owned \cup One({"file", "bin", "json", "root", "layers", "chunk"})
  BY DEF LoadInv, Held, One
<1>2. live' = {} /\ phase' = "failed"
  BY <1>1 DEF Abandon, One
<1>3. FailureLeaves'
  BY <1>2 DEF FailureLeaves, One
<1> QED
  BY <1>2, <1>3 DEF LoadInv, Held, Followed, Abandon

\* Neither does one that the header of a GGUF file causes.
LEMMA HeaderInv ==
  ASSUME LoadInv, HeaderFails
  PROVE  LoadInv'
<1>1. Abandon /\ file.fmt = "gguf" /\ phase \in {"acquire", "metadata"}
  BY DEF HeaderFails
<1>2. CASE phase = "acquire"
  <2>1. live \subseteq One(Kinds) /\ <<"xmlfile", 0>> \notin live /\ <<"xml", 0>> \notin live
    BY <1>1, <1>2 DEF LoadInv, Held
  <2>2. live' = {} /\ phase' = "failed"
    BY <1>1, <2>1 DEF Abandon, One, Owned, Kinds, Arrays
  <2>3. FailureLeaves'
    BY <2>2 DEF FailureLeaves, One
  <2> QED
    BY <1>1, <1>2, <2>2, <2>3 DEF LoadInv, Held, Followed, Abandon
<1>3. CASE phase = "metadata"
  BY <1>1, <1>3, AbandonInv
<1> QED
  BY <1>1, <1>2, <1>3

\* A topology that the scan refuses, and a failure to take the next resource,
\* leave what FailureLeaves says.
LEMMA RefusalInv ==
  ASSUME LoadInv, ScanRefuses \/ AcquireFails
  PROVE  LoadInv'
<1>1. /\ phase = "acquire" /\ phase' \in {"failed", "crashed"}
      /\ UNCHANGED <<file, rung, model, up, pos, done>>
  BY DEF ScanRefuses, AcquireFails
<1>2. file \in Files /\ file.fmt \in Formats /\ rung \in Nat /\ rung < Len(Ladder(file))
  BY <1>1, FileFacts DEF LoadInv, Followed, Held
<1>3. Wanted = "layers" => file.fmt = "openvino" /\ rung = 3
  BY <1>2, Rungs DEF Wanted
<1>4. phase' = "failed" =>
        live' \subseteq (live \ FreedWithout(Wanted)) \cup One(IF Wanted = "layers" THEN {"tag", "dimName"} ELSE {})
  BY DEF ScanRefuses, AcquireFails, Dropped, One
<1>5. live \ FreedWithout(Wanted) \subseteq IF file.fmt = "safetensors" THEN One({"tensors"}) ELSE {}
  BY DEF FreedWithout
<1>6. phase' = "crashed" => file.fmt = "gguf" /\ Wanted \in {"tensors", "kv"}
  BY DEF ScanRefuses, AcquireFails
<1>7. FailureLeaves'
  <2>1. ASSUME phase' = "failed"
        PROVE  live' \subseteq One(CASE file.fmt = "safetensors" /\ rung < Len(Ladder(file)) -> {"tensors"}
                                     [] file.fmt = "openvino" /\ rung = 3 -> {"tag", "dimName"}
                                     [] OTHER -> {})
    <3>1. CASE Wanted = "layers"
      BY <1>3, <1>4, <1>5, <2>1, <3>1 DEF One
    <3>2. CASE Wanted # "layers" /\ file.fmt = "safetensors"
      BY <1>2, <1>4, <1>5, <2>1, <3>2 DEF One
    <3>3. CASE Wanted # "layers" /\ file.fmt # "safetensors"
      <4>1. live' = {}
        BY <1>4, <1>5, <2>1, <3>3 DEF One
      <4> QED BY <4>1
    <3> QED
      BY <3>1, <3>2, <3>3
  <2>2. Wanted' = Wanted /\ file' = file /\ rung' = rung /\ phase' # "idle"
    BY <1>1 DEF Wanted
  <2> QED
    BY <1>2, <1>6, <2>1, <2>2 DEF FailureLeaves
<1> QED
  BY <1>1, <1>7 DEF LoadInv, Held, Followed

\* A model with too many tensors crashes the load at the first.
LEMMA OverrunInv ==
  ASSUME LoadInv, FillOverruns
  PROVE  LoadInv'
<1>1. phase = "fill" /\ phase' = "crashed" /\ TooMany(file) /\ UNCHANGED <<file, rung, model, up>>
  BY DEF FillOverruns
<1>2. FailureLeaves'
  <2>1. TooMany(file)'
    BY <1>1 DEF TooMany
  <2> QED BY <1>1, <2>1 DEF FailureLeaves
<1> QED
  BY <1>1, <1>2 DEF LoadInv, Held, Followed

LEMMA FailuresInv ==
  ASSUME LoadInv,
         \/ ScanRefuses \/ AcquireFails \/ HeaderFails \/ FillOverruns
         \/ MetadataFails \/ FillFails \/ NoUploadState \/ NoTensorBuffer \/ UploadFails
  PROVE  LoadInv'
<1>1. CASE ScanRefuses \/ AcquireFails \/ HeaderFails \/ FillOverruns
  BY <1>1, RefusalInv, HeaderInv, OverrunInv
<1>2. CASE MetadataFails
  BY <1>2, AbandonInv DEF MetadataFails
<1>3. CASE FillFails
  BY <1>3, AbandonInv DEF FillFails
<1>4. CASE NoUploadState
  BY <1>4, AbandonInv DEF NoUploadState
<1>5. CASE NoTensorBuffer
  BY <1>5, AbandonInv DEF NoTensorBuffer, Uploading
<1>6. CASE UploadFails
  BY <1>6, AbandonInv DEF UploadFails, Streaming, Uploading
<1> QED
  BY <1>1, <1>2, <1>3, <1>4, <1>5, <1>6

LEMMA FillInv ==
  ASSUME LoadInv, Metadata \/ FillTensor \/ FillDone \/ CreateUploadState
  PROVE  LoadInv'
<1>1. CASE Metadata
  <2>1. live' \subseteq Owned' \cup One({"file", "bin", "json", "root", "layers"})
    BY <1>1 DEF LoadInv, Held, Metadata, Owned, One
  <2> QED
    BY <1>1, <2>1 DEF LoadInv, Held, Followed, Metadata
<1>2. CASE FillTensor
  <2>1. PICK S : model \in Seq(S)
    BY DEF LoadInv, Followed
  <2>2. PICK t : model' = Append(model, t)
    BY <1>2 DEF FillTensor
  <2>3. model \in Seq(S \cup {t})
    BY <2>1
  <2>4. model' \in Seq(S \cup {t}) /\ Len(model') = Len(model) + 1 /\ Len(model) \in Nat
    BY <2>2, <2>3, AppendProperties, LenProperties
  <2>5. file \in Files /\ DOMAIN file.tensors = 1..Len(file.tensors) /\ Len(file.tensors) \in Nat
    BY <1>2, FileFacts DEF LoadInv, Followed, FillTensor
  <2>6. Len(model') \in DOMAIN file.tensors
    BY <1>2, <2>4, <2>5 DEF FillTensor
  <2>7. live' \subseteq Owned' \cup One({"file", "bin", "json", "root", "layers"})
    BY <1>2, <2>6 DEF LoadInv, Held, FillTensor, Owned, One
  <2>8. Followed'
    <3>1. \E T : model' \in Seq(T)
      BY <2>4
    <3>2. phase = "fill" /\ phase' = "fill" /\ file' = file /\ rung' = rung /\ up' = up
      BY <1>2 DEF FillTensor
    <3>3. Len(model') <= Len(file.tensors)
      BY <2>5, <2>6
    <3>4. rung \in Nat /\ up \in Nat /\ up > 0
      BY <3>2 DEF LoadInv, Followed
    <3> QED
      BY <2>5, <3>1, <3>2, <3>3, <3>4 DEF Followed
  <2> QED
    BY <1>2, <2>7, <2>8 DEF LoadInv, Held, FillTensor
<1>3. CASE FillDone
  <2>1. live' \subseteq Owned' \cup One({"file", "bin"})
    BY <1>3 DEF LoadInv, Held, FillDone, Owned, One
  <2> QED
    BY <1>3, <2>1 DEF LoadInv, Held, Followed, FillDone
<1>4. CASE CreateUploadState
  <2>1. live' \subseteq Owned' \cup One({"file", "bin"})
    BY <1>4 DEF LoadInv, Held, CreateUploadState, Owned, One
  <2>2. <<"chunk", 0>> \notin live' /\ live' \subseteq Owned' \cup One({"file", "bin", "chunk"})
    BY <2>1 DEF Owned, One
  <2> QED
    BY <1>4, <2>2 DEF LoadInv, Held, Followed, CreateUploadState
<1> QED
  BY <1>1, <1>2, <1>3, <1>4

LEMMA UploadInv ==
  ASSUME LoadInv, StartTensor \/ UploadSlice \/ TensorDone \/ LoadDone
  PROVE  LoadInv'
<1>1. PICK S : model \in Seq(S)
  BY DEF LoadInv, Followed
<1>2. Len(model) \in Nat
  BY <1>1, LenProperties
<1>3. CASE StartTensor
  <2>1. file \in Files /\ DOMAIN file.tensors = 1..Len(file.tensors) /\ Len(file.tensors) \in Nat
    BY <1>3, FileFacts DEF LoadInv, Followed, StartTensor, Uploading
  <2>2. up \in DOMAIN file.tensors
    BY <1>2, <1>3, <2>1 DEF LoadInv, Followed, StartTensor, Uploading
  <2>3. live' \subseteq Owned' \cup One({"file", "bin", "chunk"})
    BY <1>3, <2>2 DEF LoadInv, Held, StartTensor, Uploading, Owned, One
  <2> QED
    BY <1>3, <2>3 DEF LoadInv, Held, Followed, StartTensor, Uploading
<1>4. CASE UploadSlice
  <2>1. PICK t : model' = [model EXCEPT ![up] = t]
    BY <1>4 DEF UploadSlice
  <2>2. model \in Seq(S \cup {t}) /\ up \in 1..Len(model)
    BY <1>1, <1>2, <1>4 DEF LoadInv, Followed, UploadSlice, Streaming, Uploading
  <2>3. model' \in Seq(S \cup {t}) /\ Len(model') = Len(model)
    BY <2>1, <2>2, ExceptSeq
  <2>4. /\ phase = "upload" /\ phase' = phase /\ file' = file /\ live' = live /\ rung' = rung /\ up' = up
        /\ Owned' = Owned
    BY <1>4 DEF UploadSlice, Streaming, Uploading, Owned
  <2>5. Followed'
    BY <2>3, <2>4 DEF LoadInv, Followed
  <2>6. Held'
    BY <2>3, <2>4 DEF LoadInv, Held
  <2> QED
    BY <2>5, <2>6 DEF LoadInv
<1>5. CASE TensorDone
  <2>1. <<"chunk", 0>> \notin live' /\ live' \subseteq Owned' \cup One({"file", "bin", "chunk"})
    BY <1>5 DEF LoadInv, Held, TensorDone, Streaming, Uploading, Owned, One
  <2> QED
    BY <1>5, <2>1 DEF LoadInv, Held, Followed, TensorDone, Streaming, Uploading
<1>6. CASE LoadDone
  <2>1. <<"chunk", 0>> \notin live
    BY <1>2, <1>6 DEF LoadInv, Held, Followed, LoadDone
  <2>2. live' \subseteq Owned'
    BY <1>6, <2>1 DEF LoadInv, Held, LoadDone, Owned, One
  <2> QED
    BY <1>6, <2>2 DEF LoadInv, Held, Followed, LoadDone
<1> QED
  BY <1>3, <1>4, <1>5, <1>6

LEMMA DestroyInv ==
  ASSUME LoadInv, DestroyModel
  PROVE  LoadInv'
<1>1. live' = {}
  BY DEF LoadInv, Held, DestroyModel
<1>2. model' \in Seq({}) /\ Len(model') = 0 /\ Len(file'.tensors) = 0
  BY DEF DestroyModel, NoFile
<1> QED
  BY <1>1, <1>2 DEF LoadInv, Held, Followed, DestroyModel

LEMMA LoadStep == LoadInv /\ [LoadNext]_loadVars => LoadInv'
<1> SUFFICES ASSUME LoadInv, [LoadNext]_loadVars PROVE LoadInv'
  OBVIOUS
<1>1. CASE UNCHANGED loadVars
  <2>1. UNCHANGED <<file, phase, live, rung, model, up>>
    BY <1>1 DEF loadVars
  <2>2. FailureLeaves' = FailureLeaves
    BY <2>1 DEF FailureLeaves, Wanted
  <2> QED BY <2>1, <2>2 DEF LoadInv, Held, Followed, Owned
<1> QED
  BY <1>1, BeginInv, AcquireInv, FailuresInv, FillInv, UploadInv, DestroyInv DEF LoadNext

-----------------------------------------------------------------------------
(* What a tensor description means: products, alignments and shapes.       *)

\* A product of natural numbers is one, and is 0 only for a factor 0.
LEMMA ProductIs ==
  ASSUME NEW dims \in Seq(Nat)
  PROVE  Product(dims) \in Nat /\ (Product(dims) = 0 <=> 0 \in Range(dims))
<1> DEFINE n == Len(dims)
           upTo[k \in 0..n] == IF k = 0 THEN 1 ELSE dims[k] * upTo[k - 1]
           G == [k \in 1..n |-> [m \in Nat |-> dims[k] * m]]
           S == {k \in 0..n : upTo[k] \in Nat /\ (upTo[k] = 0 <=> \E j \in 1..k : dims[j] = 0)}
<1>1. n \in Nat /\ DOMAIN dims = 1..n /\ \A k \in 1..n : dims[k] \in Nat
  OBVIOUS
<1>2. Product(dims) = upTo[n]
  BY DEF Product
<1> HIDE DEF n
<1>3. G \in NextValues(n, Nat)
  BY <1>1 DEF NextValues
<1>4. PICK f : Follows(f, n, Nat, 1, G)
  <2> HIDE DEF G, upTo
  <2> QED BY <1>1, <1>3, StepFunction
<1>5. \A k \in 1..n : f[k] = dims[k] * f[k - 1]
  <2> SUFFICES ASSUME NEW k \in 1..n PROVE f[k] = dims[k] * f[k - 1]
    OBVIOUS
  <2>1. f[k - 1] \in Nat
    <3> HIDE DEF G, upTo, S
    <3>1. k - 1 \in 0..n
      BY <1>1
    <3> QED BY <1>4, <3>1 DEF Follows
  <2>2. f[k] = G[k][f[k - 1]]
    <3> HIDE DEF G, upTo, S
    <3> QED BY <1>4 DEF Follows
  <2>3. G[k][f[k - 1]] = dims[k] * f[k - 1]
    <3> HIDE DEF upTo, S
    <3> QED BY <2>1
  <2> QED BY <2>2, <2>3
<1>6. upTo = [k \in 0..n |-> IF k = 0 THEN 1 ELSE dims[k] * upTo[k - 1]]
  <2>1. f = [k \in 0..n |-> IF k = 0 THEN 1 ELSE dims[k] * f[k - 1]]
    <3> HIDE DEF G
    <3> QED BY <1>1, <1>4, <1>5 DEF Follows
  <2> HIDE DEF G
  <2> QED BY <2>1
<1> HIDE DEF upTo, G
<1>7. 0 \in S
  BY <1>1, <1>6
<1>8. ASSUME NEW k \in 0..(n - 1), k \in S PROVE k + 1 \in S
  <2>1. upTo[k + 1] = dims[k + 1] * upTo[k] /\ k + 1 \in 1..n
    BY <1>1, <1>6
  <2>2. PICK a \in Nat, b \in Nat : a = dims[k + 1] /\ b = upTo[k]
    BY <1>1, <1>8, <2>1
  <2>3. a * b \in Nat /\ (a * b = 0 <=> a = 0 \/ b = 0)
    OBVIOUS
  <2>4. b = 0 <=> \E j \in 1..k : dims[j] = 0
    BY <1>8, <2>2
  <2>5. 1..(k + 1) = 1..k \cup {k + 1}
    BY <1>1
  <2>6. (\E j \in 1..(k + 1) : dims[j] = 0) <=> a = 0 \/ b = 0
    BY <2>2, <2>4, <2>5
  <2> QED BY <1>1, <2>1, <2>2, <2>3, <2>6
<1> HIDE DEF S
<1>9. n \in S
  <2>1. n \in Nat
    BY <1>1
  <2>2. 0..n \subseteq S
    BY <2>1, <1>7, <1>8, IntervalInduct
  <2> QED BY <2>1, <2>2
<1>10. upTo[n] \in Nat /\ (upTo[n] = 0 <=> \E j \in 1..n : dims[j] = 0)
  BY <1>9 DEF S
<1>11. 0 \in Range(dims) <=> \E j \in 1..n : dims[j] = 0
  BY <1>1 DEF Range
<1> QED BY <1>2, <1>10, <1>11

\* The multiples of a are the numbers whose remainder is 0.
LEMMA Multiples ==
  ASSUME NEW a \in Nat, a > 0, NEW k \in Nat
  PROVE  (a * k) % a = 0
<1>1. PICK q \in Int, r \in 0..(a - 1), v \in Nat : v = a * k /\ v = a * q + r /\ r = v % a
  <2>1. a * k \in Nat
    OBVIOUS
  <2>2. PICK v \in Nat : v = a * k
    BY <2>1
  <2>3. v = a * (v \div a) + (v % a) /\ v \div a \in Int /\ v % a \in 0..(a - 1)
    OBVIOUS
  <2> QED BY <2>2, <2>3
<1>2. a * (k - q) = r
  BY <1>1
<1>3. k - q < 1
  <2> SUFFICES ASSUME k - q >= 1 PROVE FALSE
    BY <1>1
  <2>1. a * (k - q) >= a
    BY <1>1
  <2> QED BY <1>1, <1>2, <2>1
<1>4. k - q > -1
  <2> SUFFICES ASSUME k - q <= -1 PROVE FALSE
    BY <1>1
  <2>1. a * (k - q) <= -a
    BY <1>1
  <2> QED BY <1>1, <1>2, <2>1
<1>5. k - q = 0
  BY <1>1, <1>3, <1>4
<1> QED BY <1>1, <1>2, <1>5

\* vkmodel_align_up finds the next multiple.
LEMMA AlignUpIs ==
  ASSUME NEW v \in Nat, NEW a \in Nat, a > 0
  PROVE  AlignUp(v, a) \in Nat /\ AlignUp(v, a) = Min({p \in v..(v + a) : p % a = 0})
<1> DEFINE S == {p \in v..(v + a) : p % a = 0}
           u == AlignUp(v, a)
<1>1. PICK q \in Nat, r \in 0..(a - 1) : v = a * q + r /\ r = v % a
  <2>1. v \div a \in Nat /\ v % a \in 0..(a - 1) /\ v = a * (v \div a) + (v % a)
    OBVIOUS
  <2> QED BY <2>1
<1>2. u = (IF r = 0 THEN v ELSE v + (a - r))
  BY <1>1 DEF AlignUp
<1>3. (r = 0 /\ u = a * q) \/ (r > 0 /\ u = a * (q + 1))
  <2>1. a * (q + 1) = a * q + a
    BY <1>1
  <2> QED BY <1>1, <1>2, <2>1
<1>4. u % a = 0
  <2>1. (a * q) % a = 0 /\ (a * (q + 1)) % a = 0
    BY <1>1, Multiples
  <2> QED BY <1>3, <2>1
<1>5. u \in v..(v + a) /\ u \in Nat
  BY <1>1, <1>2
<1> HIDE DEF u
<1>6. ASSUME NEW p \in S PROVE u <= p
  <2>1. PICK k \in Nat : p = a * k
    <3>1. p \in Nat /\ p % a = 0
      OBVIOUS
    <3>2. p = a * (p \div a) + (p % a) /\ p \div a \in Nat
      BY <3>1
    <3> QED BY <3>1, <3>2
  <2>2. p >= v
    OBVIOUS
  <2>3. CASE r = 0
    BY <1>2, <2>2, <2>3
  <2>4. CASE r > 0
    <3>1. a * k > a * q
      BY <1>1, <2>1, <2>2, <2>4
    <3>2. k >= q + 1
      <4> SUFFICES ASSUME k <= q PROVE FALSE
        BY <1>1, <2>1
      <4>1. a * k <= a * q
        BY <1>1, <2>1
      <4> QED BY <1>1, <2>1, <3>1, <4>1
    <3>3. a * k >= a * (q + 1)
      BY <1>1, <2>1, <3>2
    <3>4. u = a * (q + 1)
      BY <1>3, <2>4
    <3> QED BY <2>1, <3>3, <3>4
  <2> QED BY <1>1, <2>3, <2>4
<1>7. S \in SUBSET Int /\ u \in S
  BY <1>4, <1>5
<1>8. Min(S) = u
  <2> HIDE DEF S
  <2> QED BY <1>6, <1>7, MinIs
<1> QED BY <1>5, <1>8 DEF u

\* A number of one word is its own remainder.
LEMMA InWord ==
  ASSUME NEW v \in Nat, v < Word
  PROVE  v % Word = v
<1>1. Word \in Nat /\ Word > 0 /\ v < Word + Word
  BY LoadAssumption
<1> QED BY <1>1, SmallRemainder

-----------------------------------------------------------------------------
(* What scan_layers collects.                                              *)

ScanStates(f) ==
  [end : {"going", "long", "bad"}, first : BOOLEAN, text : Text, dims : [1..f.layers -> Seq(Nat)]]

\* The texts of two dims, one behind the other.
LEMMA JoinedType ==
  ASSUME NEW text \in Text, NEW piece \in Text
  PROVE  /\ Joined(text, piece) \in Text
         /\ text = NoText => Joined(text, piece) = piece
<1> DEFINE tens == [i \in 1..piece.width |-> 10]
           p == Product(tens)
<1>1. /\ text.value \in Nat /\ text.width \in Nat /\ text.digits \in BOOLEAN
      /\ piece.value \in Nat /\ piece.width \in Nat /\ piece.digits \in BOOLEAN
      /\ piece = [value |-> piece.value, width |-> piece.width, digits |-> piece.digits]
  BY DEF Text
<1>2. tens \in Seq(Nat)
  BY <1>1
<1>3. PICK q \in Nat : q = p
  <2> HIDE DEF tens
  <2> QED BY <1>2, ProductIs
<1>4. Joined(text, piece) = [value  |-> text.value * q + piece.value,
                             width  |-> text.width + piece.width,
                             digits |-> text.digits /\ piece.digits]
  BY <1>3 DEF Joined
<1> HIDE DEF p, tens
<1>5. text.value * q + piece.value \in Nat /\ text.width + piece.width \in Nat
  BY <1>1
<1>6. (text.digits /\ piece.digits) \in BOOLEAN
  OBVIOUS
<1>7. Joined(text, piece) \in Text
  BY <1>4, <1>5, <1>6 DEF Text
<1>8. text = NoText => Joined(text, piece) = piece
  <2> SUFFICES ASSUME text = NoText PROVE Joined(text, piece) = piece
    OBVIOUS
  <2>1. text.value * q + piece.value = piece.value /\ text.width + piece.width = piece.width
    <3>1. 0 * q = 0
      OBVIOUS
    <3> QED BY <1>1, <3>1 DEF NoText
  <2>2. (text.digits /\ piece.digits) = piece.digits
    BY <1>1 DEF NoText
  <2> QED BY <1>1, <1>4, <2>1, <2>2
<1> QED BY <1>7, <1>8

LEMMA ScanDimType ==
  ASSUME NEW f, NEW s \in ScanStates(f), NEW layer \in 1..f.layers, NEW piece \in Text
  PROVE  ScanDim(s, layer, piece) \in ScanStates(f)
<1>1. PICK text \in Text : text = Joined(s.text, piece)
  BY JoinedType DEF ScanStates
<1>2. NoText \in Text
  BY DEF NoText, Text
<1>3. /\ [s EXCEPT !.end = "long"] \in ScanStates(f) /\ [s EXCEPT !.end = "bad"] \in ScanStates(f)
      /\ [s EXCEPT !.text = text] \in ScanStates(f)
  BY DEF ScanStates
<1>4. Readable(text) => [s EXCEPT !.text = NoText, !.dims[layer] = Append(@, text.value)] \in ScanStates(f)
  <2> SUFFICES ASSUME Readable(text)
               PROVE  [s EXCEPT !.text = NoText, !.dims[layer] = Append(@, text.value)] \in ScanStates(f)
    OBVIOUS
  <2>1. s.dims \in [1..f.layers -> Seq(Nat)] /\ text.value \in Nat
    BY DEF ScanStates, Text
  <2>2. Append(s.dims[layer], text.value) \in Seq(Nat)
    <3>1. s.dims[layer] \in Seq(Nat)
      BY <2>1
    <3> QED BY <2>1, <3>1, AppendProperties
  <2>3. [s.dims EXCEPT ![layer] = Append(@, text.value)] \in [1..f.layers -> Seq(Nat)]
    BY <2>1, <2>2
  <2> QED BY <1>2, <2>3 DEF ScanStates
<1>5. DimEnds(s, layer, text) \in ScanStates(f)
  BY <1>3, <1>4 DEF DimEnds
<1> QED BY <1>1, <1>3, <1>5 DEF ScanDim

\* The states between the dims of a port, and after it.
DimByDim(g, f, s, port) ==
  /\ g \in [0..Len(port.dims) -> ScanStates(f)] /\ g[0] = s
  /\ \A k \in 1..Len(port.dims) : g[k] = ScanDim(g[k - 1], port.layer, port.dims[k])
  /\ ScanPort(s, port) = [(IF s.first \/ port.out THEN g[Len(port.dims)] ELSE s)
                            EXCEPT !.first = (s.first \/ port.out) /\ ~port.closed]

LEMMA PortSteps ==
  ASSUME NEW f, NEW s \in ScanStates(f), NEW port \in PortType, port.layer \in 1..f.layers
  PROVE  /\ \E g : DimByDim(g, f, s, port)
         /\ ScanPort(s, port) \in ScanStates(f)
<1> DEFINE n == Len(port.dims)
           D == ScanStates(f)
           G == [k \in 1..n |-> [x \in D |-> ScanDim(x, port.layer, port.dims[k])]]
           read[k \in 0..n] == IF k = 0 THEN s ELSE ScanDim(read[k - 1], port.layer, port.dims[k])
<1>1. n \in Nat /\ \A k \in 1..n : port.dims[k] \in Text
  <2>1. port.dims \in Seq(Text)
    BY DEF PortType
  <2> QED BY <2>1, ElementOfSeq
<1>2. ScanPort(s, port) = [(IF s.first \/ port.out THEN read[n] ELSE s)
                            EXCEPT !.first = (s.first \/ port.out) /\ ~port.closed]
  BY DEF ScanPort
<1> HIDE DEF n
<1>3. \A k \in 1..n : \A x \in D : ScanDim(x, port.layer, port.dims[k]) \in D
  BY <1>1, ScanDimType
<1> HIDE DEF D
<1>4. G \in NextValues(n, D)
  BY <1>3 DEF NextValues
<1>5. PICK g : Follows(g, n, D, s, G)
  <2>1. s \in D
    BY DEF D
  <2> HIDE DEF G, read
  <2> QED BY <1>1, <1>4, <2>1, StepFunction
<1>6. ASSUME NEW k \in 1..n PROVE g[k] = ScanDim(g[k - 1], port.layer, port.dims[k])
  <2>1. g[k - 1] \in D /\ g[k] = G[k][g[k - 1]]
    <3> HIDE DEF G, read
    <3>1. k - 1 \in 0..n
      BY <1>1
    <3> QED BY <1>5, <3>1 DEF Follows
  <2> QED BY <2>1
<1>7. g = [k \in 0..n |-> IF k = 0 THEN s ELSE ScanDim(g[k - 1], port.layer, port.dims[k])]
  <2> HIDE DEF G
  <2> QED BY <1>1, <1>5, <1>6 DEF Follows
<1>8. read = [k \in 0..n |-> IF k = 0 THEN s ELSE ScanDim(read[k - 1], port.layer, port.dims[k])]
  <2> HIDE DEF G
  <2> QED BY <1>7
<1> HIDE DEF read
<1>9. read[n] = g[n]
  <2> DEFINE S == {k \in 0..n : read[k] = g[k]}
  <2>1. 0 \in S
    <3> HIDE DEF G
    <3> QED BY <1>1, <1>5, <1>8 DEF Follows
  <2>2. ASSUME NEW k \in 0..(n - 1), k \in S PROVE k + 1 \in S
    <3>1. k + 1 \in 1..n /\ k + 1 \in 0..n /\ k + 1 # 0 /\ (k + 1) - 1 = k
      BY <1>1
    <3>2. read[k + 1] = ScanDim(read[(k + 1) - 1], port.layer, port.dims[k + 1])
      BY <1>8, <3>1
    <3>3. g[k + 1] = ScanDim(g[(k + 1) - 1], port.layer, port.dims[k + 1])
      BY <1>6, <3>1
    <3> QED BY <2>2, <3>1, <3>2, <3>3
  <2>3. 0..n \subseteq S
    <3> HIDE DEF S
    <3> QED BY <1>1, <2>1, <2>2, IntervalInduct
  <2> QED BY <1>1, <2>3
<1>10. DimByDim(g, f, s, port)
  <2>1. ScanPort(s, port) = [(IF s.first \/ port.out THEN g[n] ELSE s)
                              EXCEPT !.first = (s.first \/ port.out) /\ ~port.closed]
    BY <1>2, <1>9
  <2> HIDE DEF G
  <2> QED BY <1>5, <1>6, <2>1 DEF Follows, DimByDim, n, D
<1>11. ScanPort(s, port) \in ScanStates(f)
  <2>1. g[n] \in ScanStates(f)
    BY <1>1, <1>10 DEF DimByDim, n
  <2>2. PICK x \in ScanStates(f) : x = IF s.first \/ port.out THEN g[n] ELSE s
    BY <2>1
  <2>3. \A b \in BOOLEAN : [x EXCEPT !.first = b] \in ScanStates(f)
    BY DEF ScanStates
  <2>4. ((s.first \/ port.out) /\ ~port.closed) \in BOOLEAN
    OBVIOUS
  <2> QED BY <1>2, <1>9, <2>2, <2>3, <2>4
<1> QED BY <1>10, <1>11

LEMMA PortFacts ==
  ASSUME NEW f \in Files
  PROVE  /\ f.ports \in Seq(PortType) /\ Len(f.ports) \in Nat /\ DOMAIN f.ports = 1..Len(f.ports)
         /\ f.layers \in Nat
         /\ \A k \in 1..Len(f.ports) : /\ f.ports[k] \in PortType /\ f.ports[k] \in Range(f.ports)
                                       /\ f.ports[k].layer \in 1..f.layers
<1>1. f.ports \in Seq(PortType) /\ f.layers \in Nat
  BY LoadAssumption DEF FileType
<1>2. Len(f.ports) \in Nat /\ DOMAIN f.ports = 1..Len(f.ports)
  BY <1>1, LenProperties
<1>3. ASSUME NEW k \in 1..Len(f.ports)
      PROVE  f.ports[k] \in PortType /\ f.ports[k] \in Range(f.ports) /\ f.ports[k].layer \in 1..f.layers
  <2>1. f.ports[k] \in PortType /\ f.ports[k] \in Range(f.ports)
    BY <1>1, <1>2, ElementOfSeq DEF Range
  <2> QED BY <2>1, LoadAssumption
<1> QED BY <1>1, <1>2, <1>3

\* The states between the ports of a topology.
PortByPort(g, f) ==
  /\ g \in [0..Len(f.ports) -> ScanStates(f)] /\ g[0] = ScanStart(f)
  /\ \A k \in 1..Len(f.ports) : g[k] = ScanPort(g[k - 1], f.ports[k])

LEMMA ScanSteps ==
  ASSUME NEW f \in Files
  PROVE  /\ \E g : PortByPort(g, f) /\ Scan(f) = g[Len(f.ports)]
         /\ Scan(f) \in ScanStates(f)
<1> DEFINE n == Len(f.ports)
           D == ScanStates(f)
           c == ScanStart(f)
           G == [k \in 1..n |-> [x \in D |-> ScanPort(x, f.ports[k])]]
           upTo[k \in 0..n] == IF k = 0 THEN ScanStart(f) ELSE ScanPort(upTo[k - 1], f.ports[k])
<1>1. n \in Nat
  BY PortFacts
<1>2. Scan(f) = upTo[n]
  BY DEF Scan
<1>3. c \in D
  <2>1. NoText \in Text
    BY DEF NoText, Text
  <2>2. [l \in 1..f.layers |-> <<>>] \in [1..f.layers -> Seq(Nat)]
    OBVIOUS
  <2> QED BY <2>1, <2>2 DEF ScanStart, ScanStates
<1>4. \A k \in 1..n : \A x \in D : ScanPort(x, f.ports[k]) \in D
  BY PortFacts, PortSteps
<1> HIDE DEF n, D
<1>5. G \in NextValues(n, D)
  BY <1>4 DEF NextValues
<1>6. PICK g : Follows(g, n, D, c, G)
  <2> HIDE DEF G, upTo, c
  <2> QED BY <1>1, <1>3, <1>5, StepFunction
<1>7. ASSUME NEW k \in 1..n PROVE g[k] = ScanPort(g[k - 1], f.ports[k])
  <2>1. g[k - 1] \in D /\ g[k] = G[k][g[k - 1]]
    <3> HIDE DEF G, upTo, c
    <3>1. k - 1 \in 0..n
      BY <1>1
    <3> QED BY <1>6, <3>1 DEF Follows
  <2> HIDE DEF upTo, c
  <2> QED BY <2>1
<1>8. g = [k \in 0..n |-> IF k = 0 THEN ScanStart(f) ELSE ScanPort(g[k - 1], f.ports[k])]
  <2> HIDE DEF G, upTo
  <2> QED BY <1>1, <1>6, <1>7 DEF Follows
<1>9. upTo = [k \in 0..n |-> IF k = 0 THEN ScanStart(f) ELSE ScanPort(upTo[k - 1], f.ports[k])]
  <2> HIDE DEF G
  <2> QED BY <1>8
<1> HIDE DEF upTo
<1>10. PortByPort(g, f)
  <2> HIDE DEF G
  <2> QED BY <1>6, <1>7 DEF Follows, PortByPort, n, D
<1>11. upTo[n] = g[n]
  <2> DEFINE S == {k \in 0..n : upTo[k] = g[k]}
  <2>1. 0 \in S
    <3> HIDE DEF G
    <3> QED BY <1>1, <1>6, <1>9 DEF Follows
  <2>2. ASSUME NEW k \in 0..(n - 1), k \in S PROVE k + 1 \in S
    <3>1. k + 1 \in 1..n /\ k + 1 \in 0..n /\ k + 1 # 0 /\ (k + 1) - 1 = k
      BY <1>1
    <3>2. upTo[k + 1] = ScanPort(upTo[(k + 1) - 1], f.ports[k + 1])
      BY <1>9, <3>1
    <3>3. g[k + 1] = ScanPort(g[(k + 1) - 1], f.ports[k + 1])
      BY <1>7, <3>1
    <3> QED BY <2>2, <3>1, <3>2, <3>3
  <2>3. 0..n \subseteq S
    <3> HIDE DEF S
    <3> QED BY <1>1, <2>1, <2>2, IntervalInduct
  <2> QED BY <1>1, <2>3
<1>12. Scan(f) = g[Len(f.ports)]
  BY <1>2, <1>11 DEF n
<1>13. Scan(f) \in ScanStates(f)
  BY <1>12, PortFacts, <1>10 DEF PortByPort
<1> QED BY <1>10, <1>12, <1>13

\* A dim of a plain output is put behind those of its layer.
Gains(s, layer, value) == [s EXCEPT !.text = NoText, !.dims[layer] = Append(@, value)]

LEMMA PlainDim ==
  ASSUME NEW f \in Files, NEW s \in ScanStates(f), s.end = "going", s.text = NoText,
         NEW layer \in 1..f.layers, NEW text \in Text, Readable(text), text.width <= DimText,
         Len(s.dims[layer]) < MaxDims
  PROVE  ScanDim(s, layer, text) = Gains(s, layer, text.value)
<1>1. Joined(s.text, text) = text
  BY JoinedType DEF ScanStates
<1>2. Len(s.dims[layer]) \in Nat /\ MaxDims \in Nat /\ text.width \in Nat /\ DimText \in Nat
  BY LoadAssumption, LenProperties DEF ScanStates, Text
<1>3. ~(text.width > DimText) /\ ~(Len(s.dims[layer]) >= MaxDims)
  BY <1>2
<1> QED BY <1>1, <1>3 DEF ScanDim, DimEnds, Gains

\* A plain output port leaves its dims with its layer, and no text.
LEMMA PlainPort ==
  ASSUME NEW f \in Files, Plain(f), NEW i \in 1..Len(f.ports), f.ports[i].out,
         NEW s \in ScanStates(f), s.end = "going", s.text = NoText,
         s.dims[f.ports[i].layer] = <<>>
  PROVE  LET r == ScanPort(s, f.ports[i])
         IN  /\ r.end = "going" /\ ~r.first /\ r.text = NoText
             /\ r.dims[f.ports[i].layer] = Values(f.ports[i])
             /\ \A l \in 1..f.layers : l # f.ports[i].layer => r.dims[l] = s.dims[l]
<1> DEFINE port == f.ports[i]
           layer == port.layer
           n == Len(port.dims)
<1>1. port \in PortType /\ layer \in 1..f.layers /\ port \in Range(f.ports)
  BY PortFacts
<1>2. /\ port.closed /\ n <= MaxDims
      /\ \A text \in Range(port.dims) : Readable(text) /\ text.width <= DimText
  BY <1>1 DEF Plain
<1>3. port.dims \in Seq(Text) /\ n \in Nat /\ DOMAIN port.dims = 1..n
  <2>1. port.dims \in Seq(Text)
    BY <1>1 DEF PortType
  <2> QED BY <2>1, LenProperties
<1>4. \A k \in 1..n : /\ port.dims[k] \in Text /\ Readable(port.dims[k]) /\ port.dims[k].width <= DimText
                      /\ port.dims[k].value \in Nat
  <2> SUFFICES ASSUME NEW k \in 1..n
               PROVE  /\ port.dims[k] \in Text /\ Readable(port.dims[k]) /\ port.dims[k].width <= DimText
                      /\ port.dims[k].value \in Nat
    OBVIOUS
  <2>1. port.dims[k] \in Text
    BY <1>3, ElementOfSeq
  <2>2. port.dims[k] \in Range(port.dims)
    BY <1>3 DEF Range
  <2> QED BY <1>2, <2>1, <2>2 DEF Text
<1>5. PICK g : DimByDim(g, f, s, port)
  <2> HIDE DEF port, layer, n
  <2> QED BY <1>1, PortSteps DEF layer
<1> DEFINE S == {k \in 0..n : /\ g[k].end = "going" /\ g[k].text = NoText
                              /\ Len(g[k].dims[layer]) = k
                              /\ \A j \in 1..k : g[k].dims[layer][j] = port.dims[j].value
                              /\ \A l \in 1..f.layers : l # layer => g[k].dims[l] = s.dims[l]}
<1> HIDE DEF n, port
<1>6. /\ \A k \in 0..n : g[k] \in ScanStates(f)
      /\ \A k \in 1..n : g[k] = ScanDim(g[k - 1], layer, port.dims[k])
      /\ g[0] = s
      /\ ScanPort(s, port) = [(IF s.first \/ port.out THEN g[n] ELSE s)
                                EXCEPT !.first = (s.first \/ port.out) /\ ~port.closed]
  BY <1>5 DEF DimByDim, n, layer
<1>7. 0 \in S
  <2>1. s.dims[layer] = <<>> /\ 0 \in 0..n
    BY <1>3 DEF port
  <2> QED BY <1>6, <2>1
<1> HIDE DEF layer
<1>8. ASSUME NEW k \in 0..(n - 1), k \in S PROVE k + 1 \in S
  <2> DEFINE text == port.dims[k + 1]
             x == g[k]
             y == g[k + 1]
  <2>1. k + 1 \in 1..n /\ k + 1 \in 0..n /\ (k + 1) - 1 = k /\ k \in 0..n
    BY <1>3
  <2>2. /\ x \in ScanStates(f) /\ x.end = "going" /\ x.text = NoText /\ Len(x.dims[layer]) = k
        /\ \A j \in 1..k : x.dims[layer][j] = port.dims[j].value
        /\ \A l \in 1..f.layers : l # layer => x.dims[l] = s.dims[l]
    BY <1>6, <1>8, <2>1
  <2>3. text \in Text /\ Readable(text) /\ text.width <= DimText /\ text.value \in Nat
    BY <1>4, <2>1
  <2>4. y = ScanDim(x, layer, text) /\ y \in ScanStates(f)
    <3>1. y = ScanDim(g[(k + 1) - 1], layer, text)
      BY <1>6, <2>1
    <3> QED BY <1>6, <2>1, <3>1
  <2>5. k < MaxDims /\ layer \in 1..f.layers
    <3>1. n <= MaxDims /\ n \in Nat /\ MaxDims \in Nat
      BY <1>2, <1>3, LoadAssumption
    <3>2. k < MaxDims
      BY <2>1, <3>1
    <3> QED BY <1>1, <3>2 DEF layer, port
  <2> HIDE DEF x, y, text
  <2>6. y = Gains(x, layer, text.value)
    <3>1. Len(x.dims[layer]) < MaxDims
      BY <2>2, <2>5
    <3> QED BY <2>2, <2>3, <2>4, <2>5, <3>1, PlainDim
  <2>7. x.dims \in [1..f.layers -> Seq(Nat)] /\ x.dims[layer] \in Seq(Nat)
    BY <2>2, <2>5 DEF ScanStates
  <2>8. y.end = "going" /\ y.text = NoText /\ y.dims = [x.dims EXCEPT ![layer] = Append(@, text.value)]
    BY <2>2, <2>6 DEF ScanStates, Gains
  <2>9. y.dims[layer] = Append(x.dims[layer], text.value)
        /\ \A l \in 1..f.layers : l # layer => y.dims[l] = x.dims[l]
    BY <2>5, <2>7, <2>8
  <2>10. Len(y.dims[layer]) = k + 1 /\ y.dims[layer][k + 1] = text.value
         /\ \A j \in 1..k : y.dims[layer][j] = x.dims[layer][j]
    BY <2>2, <2>3, <2>7, <2>9, AppendProperties
  <2>11. \A j \in 1..(k + 1) : y.dims[layer][j] = port.dims[j].value
    <3>1. \A j \in 1..(k + 1) : j \in 1..k \/ j = k + 1
      BY <2>1
    <3> QED BY <2>2, <2>10, <3>1 DEF text
  <2>12. \A l \in 1..f.layers : l # layer => y.dims[l] = s.dims[l]
    BY <2>2, <2>9
  <2>13. /\ g[k + 1].end = "going" /\ g[k + 1].text = NoText /\ Len(g[k + 1].dims[layer]) = k + 1
         /\ \A j \in 1..(k + 1) : g[k + 1].dims[layer][j] = port.dims[j].value
         /\ \A l \in 1..f.layers : l # layer => g[k + 1].dims[l] = s.dims[l]
    BY <2>8, <2>10, <2>11, <2>12 DEF y
  <2> QED BY <2>1, <2>13
<1>9. n \in S
  <2>1. 0..n \subseteq S
    <3> HIDE DEF S
    <3> QED BY <1>3, <1>7, <1>8, IntervalInduct
  <2> QED BY <1>3, <2>1
<1> DEFINE z == g[n]
           r == ScanPort(s, port)
<1>10. /\ z \in ScanStates(f) /\ z.end = "going" /\ z.text = NoText /\ Len(z.dims[layer]) = n
       /\ \A j \in 1..n : z.dims[layer][j] = port.dims[j].value
       /\ \A l \in 1..f.layers : l # layer => z.dims[l] = s.dims[l]
  BY <1>3, <1>6, <1>9
<1>11. r = [z EXCEPT !.first = FALSE]
  BY <1>2, <1>6 DEF port
<1> HIDE DEF z, r, S
<1>12. r.end = "going" /\ ~r.first /\ r.text = NoText /\ r.dims = z.dims
  BY <1>10, <1>11 DEF ScanStates
<1>13. z.dims[layer] = Values(port)
  <2>1. z.dims[layer] \in Seq(Nat)
    BY <1>1, <1>10 DEF ScanStates, layer, port
  <2>2. DOMAIN z.dims[layer] = 1..n /\ z.dims[layer] = [j \in 1..n |-> z.dims[layer][j]]
    BY <1>10, <2>1, LenProperties
  <2>3. Values(port) = [j \in 1..n |-> port.dims[j].value]
    BY <1>3 DEF Values
  <2> QED BY <1>10, <2>2, <2>3
<1> QED BY <1>10, <1>12, <1>13 DEF r, port, layer

\* In a plain topology the scan collects for each layer the dims of its output port.
LEMMA PlainScan ==
  ASSUME NEW f \in Files, Plain(f)
  PROVE  Scan(f).end = "going" /\ \A l \in 1..f.layers : Scan(f).dims[l] = PortDims(f, l)
<1> DEFINE n == Len(f.ports)
<1>1. n \in Nat /\ DOMAIN f.ports = 1..n /\ \A l : Outputs(f, l) \subseteq 1..n
  BY PortFacts DEF Outputs
<1>2. PICK g : PortByPort(g, f) /\ Scan(f) = g[n]
  BY ScanSteps
<1> DEFINE Upto(k, l) == IF \E i \in Outputs(f, l) : i <= k THEN PortDims(f, l) ELSE <<>>
           S == {k \in 0..n : /\ g[k].end = "going" /\ ~g[k].first /\ g[k].text = NoText
                              /\ \A l \in 1..f.layers : g[k].dims[l] = Upto(k, l)}
<1> HIDE DEF n
<1>3. /\ g[0] = ScanStart(f) /\ \A k \in 0..n : g[k] \in ScanStates(f)
      /\ \A k \in 1..n : g[k] = ScanPort(g[k - 1], f.ports[k])
  BY <1>2 DEF PortByPort, n
<1>4. 0 \in S
  <2>1. \A l : Upto(0, l) = <<>>
    BY <1>1
  <2>2. /\ g[0].end = "going" /\ ~g[0].first /\ g[0].text = NoText
        /\ g[0].dims = [l \in 1..f.layers |-> <<>>]
    BY <1>3 DEF ScanStart
  <2>3. 0 \in 0..n
    BY <1>1
  <2> HIDE DEF Upto
  <2>4. \A l \in 1..f.layers : g[0].dims[l] = Upto(0, l)
    BY <2>1, <2>2
  <2> QED BY <2>2, <2>3, <2>4
<1>5. ASSUME NEW k \in 0..(n - 1), k \in S PROVE k + 1 \in S
  <2> DEFINE port == f.ports[k + 1]
             layer == port.layer
             x == g[k]
             y == g[k + 1]
  <2>1. k + 1 \in 1..n /\ k + 1 \in 0..n /\ (k + 1) - 1 = k /\ k \in 0..n /\ k \in Nat
    BY <1>1
  <2>2. /\ x \in ScanStates(f) /\ x.end = "going" /\ ~x.first /\ x.text = NoText
        /\ \A l \in 1..f.layers : x.dims[l] = Upto(k, l)
    BY <1>3, <1>5, <2>1
  <2>3. y = ScanPort(x, port)
    <3>1. y = ScanPort(g[(k + 1) - 1], port)
      BY <1>3, <2>1
    <3> QED BY <2>1, <3>1
  <2>4. port \in PortType /\ layer \in 1..f.layers /\ port \in Range(f.ports)
    BY <2>1, PortFacts DEF n
  <2>5. \A l : \A i \in Outputs(f, l) : i <= k + 1 <=> i <= k \/ i = k + 1
    <3>1. \A l : Outputs(f, l) \subseteq Nat
      BY <1>1
    <3> QED BY <2>1, <3>1
  <2>6. CASE port.out
    <3>1. \A l : k + 1 \in Outputs(f, l) <=> l = layer
      BY <1>1, <2>1, <2>6 DEF Outputs
    <3>2. Outputs(f, layer) = {k + 1}
      <4>1. \A i, j \in Outputs(f, layer) : i = j
        BY <2>4 DEF Plain
      <4> QED BY <3>1, <4>1
    <3>3. Upto(k, layer) = <<>> /\ Upto(k + 1, layer) = Values(port)
      <4>1. PortDims(f, layer) = Values(port)
        BY <3>2 DEF PortDims
      <4>2. ~(\E i \in Outputs(f, layer) : i <= k) /\ \E i \in Outputs(f, layer) : i <= k + 1
        BY <2>1, <3>2
      <4> QED BY <4>1, <4>2
    <3>4. \A l \in 1..f.layers : l # layer => Upto(k + 1, l) = Upto(k, l)
      BY <2>5, <3>1
    <3>5. x.dims[layer] = <<>>
      BY <2>2, <2>4, <3>3
    <3> HIDE DEF Upto, x, y
    <3>6. /\ y.end = "going" /\ ~y.first /\ y.text = NoText
          /\ y.dims[layer] = Values(port)
          /\ \A l \in 1..f.layers : l # layer => y.dims[l] = x.dims[l]
      BY <2>1, <2>2, <2>3, <2>6, <3>5, PlainPort DEF n
    <3>7. \A l \in 1..f.layers : y.dims[l] = Upto(k + 1, l)
      BY <2>2, <3>3, <3>4, <3>6
    <3> QED BY <2>1, <3>6, <3>7 DEF y
  <2>7. CASE ~port.out
    <3>1. \A l \in 1..f.layers : Upto(k + 1, l) = Upto(k, l)
      <4>1. \A l : k + 1 \notin Outputs(f, l)
        BY <2>7 DEF Outputs
      <4> QED BY <2>5, <4>1
    <3>2. y = [x EXCEPT !.first = FALSE]
      <4>1. PICK h : DimByDim(h, f, x, port)
        <5> HIDE DEF x, port
        <5> QED BY <2>2, <2>4, PortSteps DEF layer
      <4> HIDE DEF x, port
      <4> QED BY <2>2, <2>3, <2>7, <4>1 DEF DimByDim
    <3> HIDE DEF Upto, x, y
    <3>3. y.end = "going" /\ ~y.first /\ y.text = NoText /\ y.dims = x.dims
      BY <2>2, <3>2 DEF ScanStates
    <3> QED BY <2>1, <2>2, <3>1, <3>3 DEF y
  <2> QED BY <2>6, <2>7
<1>6. n \in S
  <2>1. 0..n \subseteq S
    <3> HIDE DEF S
    <3> QED BY <1>1, <1>4, <1>5, IntervalInduct
  <2> QED BY <1>1, <2>1
<1>7. \A l : Upto(n, l) = PortDims(f, l)
  <2>1. \A l : \A i \in Outputs(f, l) : i <= n
    BY <1>1
  <2> QED BY <2>1 DEF PortDims
<1> QED BY <1>2, <1>6, <1>7

\* The dims of a tensor.
LEMMA DimsType ==
  ASSUME NEW f \in Files, NEW t \in Range(f.tensors)
  PROVE  DimsOf(f, t) \in Seq(Nat)
<1>1. t.dims \in Seq(Nat) /\ (f.fmt = "openvino" => t.layer \in 1..f.layers)
  <2>1. f.tensors \in Seq(TensorType)
    BY LoadAssumption DEF FileType
  <2>2. t \in TensorType
    BY <2>1, ElementOfSeq, LenProperties DEF Range
  <2> QED BY <2>2, LoadAssumption DEF TensorType
<1>2. Scan(f) \in ScanStates(f)
  BY ScanSteps
<1> QED BY <1>1, <1>2 DEF DimsOf, OwnShape, ScanStates

LEMMA DimsPlain ==
  ASSUME NEW f \in Files, NEW t \in Range(f.tensors), OwnShape(f, t) \/ Plain(f)
  PROVE  DimsOf(f, t) = TrueDims(f, t) /\ DimsOf(f, t) \in Seq(Nat)
<1>1. ~OwnShape(f, t) => t.layer \in 1..f.layers
  BY LoadAssumption DEF OwnShape
<1> QED BY <1>1, DimsType, PlainScan DEF DimsOf, TrueDims

-----------------------------------------------------------------------------
(* What is accepted.                                                       *)

\* Elements of one byte pattern each.
LEMMA Unblocked1 ==
  ASSUME NEW f, NEW t, t.blck = 1, Product(TrueDims(f, t)) \in Nat
  PROVE  TrueSize(f, t) = Product(TrueDims(f, t)) * t.bytes
<1>1. PICK p \in Nat : p = Product(TrueDims(f, t))
  OBVIOUS
<1>2. (p + 1 - 1) \div 1 = p
  BY <1>1
<1> QED BY <1>1, <1>2 DEF TrueSize

LEMMA TensorFacts ==
  ASSUME NEW f \in Files, NEW t \in Range(f.tensors)
  PROVE  /\ t \in TensorType /\ t.dims \in Seq(Nat)
         /\ t.blck \in Nat /\ t.blck > 0 /\ t.bytes \in Nat /\ t.offset \in Nat /\ t.size \in Nat
         /\ f.fmt # "gguf" => t.blck = 1
         /\ f.fmt # "openvino" => OwnShape(f, t) /\ TrueDims(f, t) = t.dims /\ DimsOf(f, t) = t.dims
         /\ Word \in Nat /\ Word > 0 /\ f.len \in Nat /\ f.len < Word
         /\ f.fmt \in Formats /\ f.meta \in Nat /\ f.align \in Nat /\ f.align > 0
<1>1. f \in FileType /\ Word \in Nat /\ Word > 0
  BY LoadAssumption
<1>2. /\ f.fmt \in Formats /\ f.meta \in Nat /\ f.align \in Nat \ {0} /\ f.len \in 0..(Word - 1)
      /\ f.tensors \in Seq(TensorType)
  BY <1>1 DEF FileType
<1>3. t \in TensorType
  <2>1. PICK i \in DOMAIN f.tensors : t = f.tensors[i]
    BY DEF Range
  <2> QED BY <1>2, <2>1
<1>4. /\ t.dims \in Seq(Nat)
      /\ t.blck \in Nat \ {0} /\ t.bytes \in Nat /\ t.offset \in Nat /\ t.size \in Nat
  BY <1>3 DEF TensorType
<1>5. f.fmt # "gguf" => t.blck = 1
  BY LoadAssumption
<1>6. f.fmt # "openvino" => OwnShape(f, t) /\ TrueDims(f, t) = t.dims /\ DimsOf(f, t) = t.dims
  BY DEF OwnShape, TrueDims, DimsOf
<1>7. /\ t.blck \in Nat /\ t.blck > 0 /\ f.align \in Nat /\ f.align > 0 /\ f.len \in Nat /\ f.len < Word
  BY <1>1, <1>2, <1>4
<1>8. /\ t.dims \in Seq(Nat) /\ t.bytes \in Nat /\ t.offset \in Nat /\ t.size \in Nat
      /\ f.fmt \in Formats /\ f.meta \in Nat
  BY <1>2, <1>4
<1> QED BY <1>1, <1>3, <1>5, <1>6, <1>7, <1>8

\* Where the data begins.
LEMMA DataOffsetIs ==
  ASSUME NEW f \in Files
  PROVE  DataOffset(f) \in Nat /\ DataOffset(f) = DataStart(f)
<1>1. f.fmt \in Formats /\ f.meta \in Nat /\ f.align \in Nat /\ f.align > 0
  <2>1. f \in FileType
    BY LoadAssumption
  <2> QED BY <2>1 DEF FileType
<1>2. /\ AlignUp(f.meta, f.align) \in Nat
      /\ AlignUp(f.meta, f.align) = Min({p \in f.meta..(f.meta + f.align) : p % f.align = 0})
  BY <1>1, AlignUpIs
<1>3. CASE f.fmt = "gguf"
  BY <1>2, <1>3 DEF DataOffset, DataStart
<1>4. CASE f.fmt = "safetensors"
  BY <1>1, <1>4 DEF DataOffset, DataStart
<1>5. CASE f.fmt = "openvino"
  BY <1>5 DEF DataOffset, DataStart
<1> QED BY <1>1, <1>3, <1>4, <1>5 DEF Formats

\* A sound tensor is accepted with the size it has.
LEMMA SoundAccepted ==
  ASSUME NEW f \in Files, NEW t \in Range(f.tensors), Sound(f, t), OwnShape(f, t) \/ Plain(f)
  PROVE  Accepted(f, t) /\ SizeOf(f, t) = TrueSize(f, t) /\ TrueSize(f, t) \in 1..(Word - 1)
         /\ DataOffset(f) + t.offset + TrueSize(f, t) <= f.len
<1>1. /\ t \in TensorType /\ t.blck \in Nat /\ t.blck > 0 /\ t.bytes \in Nat /\ t.offset \in Nat /\ t.size \in Nat
      /\ Word \in Nat /\ Word > 0 /\ f.len \in Nat /\ f.len < Word /\ f.fmt \in Formats
  BY TensorFacts
<1>2. DimsOf(f, t) = TrueDims(f, t) /\ DimsOf(f, t) \in Seq(Nat)
  BY DimsPlain
<1>3. PICK p \in Nat : p = Product(TrueDims(f, t)) /\ (p = 0 <=> 0 \in Range(TrueDims(f, t)))
  BY <1>2, ProductIs
<1>4. PICK b \in Nat : b = (p + t.blck - 1) \div t.blck /\ TrueSize(f, t) = b * t.bytes /\ (p = 0 => b = 0)
  <2>1. (p + t.blck - 1) \div t.blck \in Nat
    BY <1>1
  <2>2. p = 0 => (p + t.blck - 1) \div t.blck = 0
    <3>1. (t.blck - 1) \div t.blck = 0
      <4>1. t.blck - 1 \in Nat /\ t.blck - 1 < t.blck
        BY <1>1
      <4> QED BY <1>1, <4>1, SmallQuotient
    <3> QED BY <1>1, <3>1
  <2> QED BY <1>3, <2>1, <2>2 DEF TrueSize
<1>5. /\ Len(TrueDims(f, t)) \in 1..MaxDims /\ p + t.blck - 1 < Word
      /\ TrueSize(f, t) > 0 /\ DataStart(f) + t.offset + TrueSize(f, t) <= f.len
      /\ f.fmt # "gguf" => t.size = TrueSize(f, t)
  BY <1>3 DEF Sound
<1>6. PICK d \in Nat : d = DataStart(f) /\ d = DataOffset(f)
  BY DataOffsetIs
<1>7. PICK z \in Nat : z = TrueSize(f, t) /\ z > 0 /\ z < Word /\ d + t.offset + z <= f.len /\ z = b * t.bytes
  <2>1. b * t.bytes \in Nat
    BY <1>1
  <2>2. PICK z \in Nat : z = b * t.bytes
    BY <2>1
  <2>3. z = TrueSize(f, t) /\ z > 0
    BY <1>4, <1>5, <2>2
  <2>4. d + t.offset + z <= f.len
    BY <1>5, <1>6, <2>3
  <2>5. z < Word
    BY <1>1, <1>6, <2>4
  <2> QED BY <2>2, <2>3, <2>4, <2>5
<1>8. p # 0 /\ b # 0 /\ t.bytes # 0 /\ t.bytes > 0
  <2>1. b * 0 = 0 /\ 0 * t.bytes = 0
    BY <1>1
  <2> QED BY <1>1, <1>4, <1>7, <2>1
<1>9. Len(DimsOf(f, t)) \in 1..MaxDims /\ 0 \notin Range(DimsOf(f, t)) /\ t.bytes > 0
  BY <1>2, <1>3, <1>5, <1>8
<1>10. z % Word = z
  BY <1>7, InWord
<1>11. CASE f.fmt = "gguf"
  <2>1. Product(t.dims) = p
    BY <1>3, <1>11, TensorFacts
  <2>2. p < Word /\ p + t.blck - 1 \in Nat
    BY <1>1, <1>5
  <2>3. p % Word = p /\ (p + t.blck - 1) % Word = p + t.blck - 1
    BY <1>5, <2>2, InWord
  <2>4. GgufBytes(t) = z
    BY <1>4, <1>7, <1>10, <2>1, <2>3 DEF GgufBytes
  <2> QED BY <1>1, <1>6, <1>7, <1>9, <1>11, <2>4, SMTT(30) DEF Accepted, SizeOf
<1>12. CASE f.fmt # "gguf"
  <2>1. t.size = z /\ z = p * t.bytes
    <3>1. t.blck = 1
      BY <1>12, TensorFacts
    <3> QED BY <1>1, <1>3, <1>5, <1>7, <1>12, <3>1, Unblocked1
  <2>2. p < Word
    BY <1>1, <1>5
  <2>3. Accepted(f, t)
    <3>1. CASE f.fmt = "safetensors"
      BY <1>2, <1>3, <1>7, <1>9, <1>10, <2>1, <2>2, <3>1 DEF Accepted
    <3>2. CASE f.fmt = "openvino"
      <4>1. t.offset <= Word - 1 - t.size /\ (t.offset + t.size) % Word <= f.len
        <5>1. t.offset + z \in Nat /\ t.offset + z < Word /\ t.offset + z <= f.len
          BY <1>1, <1>6, <1>7
        <5>2. (t.offset + z) % Word = t.offset + z
          BY <5>1, InWord
        <5> QED BY <1>1, <1>7, <2>1, <5>1, <5>2
      <4> QED BY <1>2, <1>3, <1>7, <1>9, <2>1, <3>2, <4>1 DEF Accepted, EndFits, InsideBin
    <3> QED BY <1>1, <1>12, <3>1, <3>2 DEF Formats
  <2> QED BY <1>1, <1>6, <1>7, <1>12, <2>1, <2>3 DEF SizeOf
<1> QED BY <1>11, <1>12

\* An OpenVINO tensor that is accepted is sound.
LEMMA AcceptedSound ==
  ASSUME NEW f \in Files, f.fmt = "openvino", NEW t \in Range(f.tensors), Accepted(f, t), OwnShape(f, t) \/ Plain(f)
  PROVE  Sound(f, t)
<1>1. /\ t \in TensorType /\ t.blck = 1 /\ t.bytes \in Nat /\ t.offset \in Nat /\ t.size \in Nat
      /\ Word \in Nat /\ Word > 0 /\ f.len \in Nat /\ f.len < Word
  BY TensorFacts
<1>2. DimsOf(f, t) = TrueDims(f, t) /\ DimsOf(f, t) \in Seq(Nat)
  BY DimsPlain
<1>3. PICK p \in Nat : p = Product(TrueDims(f, t)) /\ (p = 0 <=> 0 \in Range(TrueDims(f, t)))
  BY <1>2, ProductIs
<1>4. /\ Len(TrueDims(f, t)) \in 1..MaxDims /\ 0 \notin Range(TrueDims(f, t)) /\ t.bytes > 0
      /\ p * t.bytes < Word /\ t.size = p * t.bytes
      /\ t.offset <= Word - 1 - t.size /\ (t.offset + t.size) % Word <= f.len
  BY <1>2, <1>3 DEF Accepted, EndFits, InsideBin
<1>5. TrueSize(f, t) = t.size
  BY <1>1, <1>3, <1>4, Unblocked1
<1>6. p > 0 /\ t.size > 0 /\ p < Word
  <2>1. p > 0
    BY <1>3, <1>4
  <2>2. p * t.bytes \in Nat /\ p <= p * t.bytes
    BY <1>1, <1>4, NoSmaller
  <2>3. PICK z \in Nat : z = p * t.bytes /\ p <= z
    BY <2>2
  <2> QED BY <1>1, <1>4, <2>1, <2>2, <2>3, SMTT(30)
<1>7. t.offset + t.size <= f.len
  <2>1. t.offset + t.size \in Nat /\ t.offset + t.size < Word
    <3>1. t.offset <= Word - 1 - t.size
      BY <1>4
    <3> QED BY <1>1, <3>1
  <2>2. (t.offset + t.size) % Word = t.offset + t.size
    BY <2>1, InWord
  <2> QED BY <1>4, <2>2
<1>8. DataStart(f) = 0
  BY DEF DataStart
<1>9. p + t.blck - 1 < Word
  BY <1>1, <1>6
<1> QED BY <1>1, <1>3, <1>4, <1>5, <1>6, <1>7, <1>8, <1>9 DEF Sound

-----------------------------------------------------------------------------
(* The invariant: the types, and what has been read so far.                *)

Phases == {"idle", "acquire", "metadata", "fill", "pool", "upload", "loaded", "failed", "crashed"}

\* What is in the buffer of a tensor that is uploaded, up to byte n.
Read(i, n) == \A p \in 0..(n - 1) : model[i].content[p] = SeekTo(i) + p

\* What a load may ever hold.
Holdable == Owned \cup One(Range(Ladder(file)) \cup {"chunk", "tag", "dimName"})

Typed ==
  /\ phase \in Phases /\ faulted \in BOOLEAN
  /\ rung <= Len(Ladder(file))
  /\ live \subseteq Holdable
  /\ pos \in Nat /\ done \in 0..(Word - 1) /\ up <= Len(model) + 1
  /\ \E C : model \in Seq([offset : Nat, size : Nat, content : C])

\* Each filled tensor is as its description says, and the description is accepted.
Filled ==
  \A i \in 1..Len(model) :
    /\ Accepted(file, file.tensors[i])
    /\ model[i].offset = file.tensors[i].offset
    /\ model[i].size = SizeOf(file, file.tensors[i])
    /\ DOMAIN model[i].content = 0..(model[i].size - 1)
    /\ model[i].content = [p \in 0..(model[i].size - 1) |-> model[i].content[p]]

Progress ==
  /\ phase \in {"acquire", "metadata", "fill", "pool"} => up = 1
  /\ phase \in {"acquire", "metadata"} => model = <<>>
  /\ phase \in {"pool", "upload", "loaded"} => Len(model) = Len(file.tensors)
  /\ phase = "loaded" => up = Len(model) + 1
  /\ \A i \in 1..Len(model) : i < up => Read(i, model[i].size)
  /\ Streaming => /\ done <= model[up].size /\ pos = SeekTo(up) + done
                  /\ Read(up, done)

ExactInv == LoadInv /\ Typed /\ Filled /\ Progress /\ SoundFileLoads

\* The sizes that an accepted description gives.
LEMMA SizeFits ==
  ASSUME NEW f \in Files, NEW t \in Range(f.tensors), Accepted(f, t)
  PROVE  SizeOf(f, t) \in 1..(Word - 1)
<1>1. /\ t \in TensorType /\ t.blck \in Nat /\ t.blck > 0 /\ t.bytes \in Nat /\ t.size \in Nat
      /\ t.dims \in Seq(Nat) /\ Word \in Nat /\ Word > 0 /\ f.fmt \in Formats
  BY TensorFacts
<1>2. \A v \in Nat : v % Word \in 0..(Word - 1)
  BY <1>1
<1>3. CASE f.fmt = "gguf"
  <2>1. PICK p \in Nat : p = Product(t.dims)
    BY <1>1, ProductIs
  <2>2. PICK n \in Nat : n = p % Word
    BY <1>2
  <2>3. PICK v \in Nat : v = (n + t.blck - 1) % Word
    <3>1. n + t.blck - 1 \in Nat
      BY <1>1
    <3> QED BY <1>2, <3>1
  <2>4. PICK b \in Nat : b = v \div t.blck
    <3>1. \A a \in Nat : a > 0 => v \div a \in Nat
      OBVIOUS
    <3> QED BY <1>1, <3>1
  <2>5. b * t.bytes \in Nat
    BY <1>1
  <2>6. GgufBytes(t) = (b * t.bytes) % Word
    BY <2>1, <2>2, <2>3, <2>4 DEF GgufBytes
  <2>7. GgufBytes(t) \in 0..(Word - 1) /\ GgufBytes(t) # 0
    BY <1>2, <1>3, <2>5, <2>6 DEF Accepted
  <2>8. SizeOf(f, t) = GgufBytes(t)
    BY <1>3 DEF SizeOf
  <2> QED BY <1>1, <2>7, <2>8
<1>4. CASE f.fmt = "safetensors"
  <2>1. t.dims = DimsOf(f, t)
    BY <1>4, TensorFacts
  <2>2. PICK p \in Nat : p = Product(DimsOf(f, t))
    BY <1>1, <2>1, ProductIs
  <2>3. p * t.bytes \in Nat
    BY <1>1
  <2>4. t.size > 0 /\ t.size = (p * t.bytes) % Word
    BY <1>4, <2>2 DEF Accepted
  <2>5. t.size \in 0..(Word - 1)
    BY <1>2, <2>3, <2>4
  <2> QED BY <1>1, <1>4, <2>4, <2>5 DEF SizeOf
<1>5. CASE f.fmt = "openvino"
  <2>1. DimsOf(f, t) \in Seq(Nat)
    BY DimsType
  <2>2. PICK p \in Nat : p = Product(DimsOf(f, t)) /\ (p = 0 <=> 0 \in Range(DimsOf(f, t)))
    BY <2>1, ProductIs
  <2>3. p # 0 /\ t.bytes > 0 /\ p * t.bytes < Word /\ t.size = p * t.bytes
    BY <1>5, <2>2 DEF Accepted
  <2>4. p <= p * t.bytes
    BY <1>1, <2>3, NoSmaller
  <2>5. t.size > 0
    BY <1>1, <2>3, <2>4
  <2> QED BY <1>1, <1>5, <2>3, <2>5 DEF SizeOf
<1> QED BY <1>1, <1>3, <1>4, <1>5 DEF Formats

LEMMA NoFileLadder == Len(Ladder(NoFile)) \in Nat
<1>1. Ladder(NoFile) = <<"xmlfile", "xml", "bin", "layers", "model">> \o <<>>
  BY DEF Ladder, NoFile
<1>2. <<"xmlfile", "xml", "bin", "layers", "model">> \in Seq(Kinds) /\ <<>> \in Seq(Kinds)
  BY DEF Kinds
<1>3. Ladder(NoFile) \in Seq(Kinds)
  BY <1>1, <1>2, ConcatProperties
<1> QED BY <1>3

LEMMA ExactInitInv == LoadInit => ExactInv
<1> SUFFICES ASSUME LoadInit PROVE ExactInv
  OBVIOUS
<1>1. LoadInv
  BY LoadInitInv
<1>2. model = <<>> /\ Len(model) = 0 /\ up = 0 /\ phase = "idle" /\ file = NoFile
  BY DEF LoadInit
<1>3. model \in Seq([offset : Nat, size : Nat, content : {}])
  BY <1>2
<1>4. Word \in Nat /\ Word > 0 /\ Len(Ladder(NoFile)) \in Nat
  BY NoFileLadder, LoadAssumption
<1>5. Typed
  <2>1. live = {} /\ rung = 0 /\ pos = 0 /\ done = 0 /\ faulted = FALSE
    BY DEF LoadInit
  <2>2. up <= Len(model) + 1 /\ phase \in Phases
    BY <1>2 DEF Phases
  <2>3. \E C : model \in Seq([offset : Nat, size : Nat, content : C])
    BY <1>3
  <2>4. done \in 0..(Word - 1) /\ pos \in Nat /\ rung <= Len(Ladder(file))
    BY <1>2, <1>4, <2>1
  <2>5. live \subseteq Holdable
    BY <2>1
  <2> QED BY <2>1, <2>2, <2>3, <2>4, <2>5 DEF Typed
<1>6. Filled /\ Progress
  BY <1>2 DEF Filled, Progress, Streaming, Uploading
<1>7. SoundFileLoads
  BY <1>2 DEF SoundFileLoads
<1> QED BY <1>1, <1>5, <1>6, <1>7 DEF ExactInv

\* A loading file, and its tensors by number.
LEMMA LoadingFacts ==
  ASSUME ExactInv, phase # "idle"
  PROVE  /\ file \in Files /\ Len(file.tensors) \in Nat /\ Len(model) \in Nat
         /\ DOMAIN model = 1..Len(model) /\ Len(model) <= Len(file.tensors)
         /\ \A i \in 1..Len(file.tensors) : file.tensors[i] \in Range(file.tensors)
         /\ Word \in Nat /\ Word > 0 /\ up \in Nat /\ done \in Nat /\ pos \in Nat
         /\ \A i \in 1..Len(model) : /\ model[i].offset \in Nat /\ model[i].size \in 1..(Word - 1)
                                     /\ SeekTo(i) \in Nat
<1>1. /\ file \in Files /\ Len(file.tensors) \in Nat /\ DOMAIN file.tensors = 1..Len(file.tensors)
  BY FileFacts DEF ExactInv, LoadInv, Followed
<1>2. PICK C : model \in Seq([offset : Nat, size : Nat, content : C])
  BY DEF ExactInv, Typed
<1>3. Len(model) \in Nat /\ DOMAIN model = 1..Len(model)
  BY <1>2, LenProperties
<1>4. Len(model) <= Len(file.tensors) /\ up \in Nat /\ pos \in Nat /\ done \in 0..(Word - 1)
  BY DEF ExactInv, LoadInv, Followed, Typed
<1>5. \A i \in 1..Len(file.tensors) : file.tensors[i] \in Range(file.tensors)
  BY <1>1 DEF Range
<1>6. Word \in Nat /\ Word > 0 /\ DataOffset(file) \in Nat
  BY <1>1, LoadAssumption, DataOffsetIs
<1>7. ASSUME NEW i \in 1..Len(model)
      PROVE  model[i].offset \in Nat /\ model[i].size \in 1..(Word - 1) /\ SeekTo(i) \in Nat
  <2>1. i \in 1..Len(file.tensors)
    BY <1>1, <1>3, <1>4
  <2>2. model[i].size = SizeOf(file, file.tensors[i]) /\ Accepted(file, file.tensors[i])
    BY DEF ExactInv, Filled
  <2>3. model[i].size \in 1..(Word - 1)
    BY <1>1, <1>5, <2>1, <2>2, SizeFits
  <2>4. model[i] \in [offset : Nat, size : Nat, content : C]
    BY <1>2, ElementOfSeq
  <2>5. PICK v \in Nat : v = DataOffset(file) + model[i].offset
    BY <1>6, <2>4
  <2>6. v % Word \in Nat
    BY <1>6
  <2> QED BY <2>3, <2>4, <2>5, <2>6 DEF SeekTo
<1> QED BY <1>1, <1>3, <1>4, <1>5, <1>6, <1>7

\* Steps that touch neither the model nor the reader.
LEMMA QuietKeeps ==
  ASSUME ExactInv, LoadInv', UNCHANGED <<file, model, up, pos, done>>,
         rung' <= Len(Ladder(file)), faulted' \in BOOLEAN, phase' \in Phases,
         live' \subseteq Holdable,
         phase' \in {"failed", "crashed"} => SoundFileLoads',
         phase' \in {"acquire", "metadata", "fill", "pool"} => phase \in {"acquire", "metadata", "fill", "pool"},
         phase' \in {"acquire", "metadata"} => phase \in {"acquire", "metadata"},
         phase' \in {"pool", "upload", "loaded"} => Len(model) = Len(file.tensors),
         phase' = "loaded" => up = Len(model) + 1,
         ~Streaming'
  PROVE  ExactInv'
<1>1. Owned' = Owned
  BY DEF Owned
<1>2. Typed'
  BY <1>1 DEF ExactInv, Typed, Holdable
<1>3. Filled'
  BY DEF ExactInv, Filled
<1>4. \A i : SeekTo(i)' = SeekTo(i)
  BY DEF SeekTo
<1>5. \A i \in 1..Len(model) : i < up => Read(i, model[i].size)'
  <2> SUFFICES ASSUME NEW i \in 1..Len(model), i < up PROVE Read(i, model[i].size)'
    OBVIOUS
  <2>1. Read(i, model[i].size)
    BY DEF ExactInv, Progress
  <2> QED BY <1>4, <2>1 DEF Read
<1>6. Progress'
  BY <1>5 DEF ExactInv, Progress
<1>7. SoundFileLoads'
  BY DEF SoundFileLoads
<1> QED BY <1>2, <1>3, <1>6, <1>7 DEF ExactInv

LEMMA BeginKeeps ==
  ASSUME ExactInv, NEW f \in Files, Begin(f), LoadInv'
  PROVE  ExactInv'
<1>1. /\ phase' = "acquire" /\ file' = f /\ rung' = 0 /\ model' = <<>> /\ up' = 1 /\ done' = 0 /\ pos' = 0
      /\ live' = {} /\ faulted' = faulted
  BY DEF Begin, ExactInv, LoadInv, Held
<1>2. Len(model') = 0 /\ Len(Ladder(f)) \in Nat /\ Word \in Nat /\ Word > 0
  BY <1>1, FileFacts, Rungs, LoadAssumption
<1>3. \E C : model' \in Seq([offset : Nat, size : Nat, content : C])
  <2>1. model' \in Seq([offset : Nat, size : Nat, content : {}])
    BY <1>1
  <2> QED BY <2>1
<1>4. Typed'
  <2>1. up' <= Len(model') + 1 /\ done' \in 0..(Word - 1) /\ rung' <= Len(Ladder(f))
    BY <1>1, <1>2
  <2> QED BY <1>1, <1>3, <2>1 DEF ExactInv, Typed, Phases
<1>5. Filled' /\ Progress'
  BY <1>1, <1>2 DEF Filled, Progress, Streaming, Uploading
<1>6. SoundFileLoads'
  BY <1>1 DEF SoundFileLoads
<1> QED BY <1>4, <1>5, <1>6 DEF ExactInv

LEMMA AcquireKeeps ==
  ASSUME ExactInv, Acquire, LoadInv'
  PROVE  ExactInv'
<1>1. /\ phase = "acquire" /\ UNCHANGED <<file, model, up, pos, done, faulted>>
      /\ phase' \in {"acquire", "metadata"} /\ rung' = rung + 1
      /\ live' \subseteq live \cup One({Wanted})
  BY DEF Acquire
<1>2. file \in Files
  BY <1>1, LoadingFacts
<1>3. /\ rung \in Nat /\ rung < Len(Ladder(file)) /\ Len(Ladder(file)) \in Nat
      /\ Wanted \in Range(Ladder(file))
  <2>1. rung \in Nat /\ rung < Len(Ladder(file))
    BY <1>1 DEF ExactInv, LoadInv, Followed, Held
  <2>2. PICK more \in Seq(Arrays) : Ladder(file) = Base(file) \o more
    BY <1>2, FileFacts, LadderIs
  <2>3. Ladder(file) \in Seq(Kinds)
    BY <1>2, <2>2, FileFacts, BaseType, Extended
  <2>4. Len(Ladder(file)) \in Nat /\ DOMAIN Ladder(file) = 1..Len(Ladder(file))
    BY <2>3, LenProperties
  <2>5. rung + 1 \in DOMAIN Ladder(file)
    BY <2>1, <2>4
  <2> QED BY <2>1, <2>4, <2>5 DEF Wanted, Range
<1>4. live' \subseteq Holdable
  BY <1>1, <1>3 DEF ExactInv, Typed, Holdable, One
<1>5. ~Streaming'
  BY <1>1 DEF Streaming, Uploading
<1>6. faulted' \in BOOLEAN /\ rung' <= Len(Ladder(file)) /\ phase' \in Phases
  BY <1>1, <1>3 DEF ExactInv, Typed, Phases
<1> QED BY <1>1, <1>4, <1>5, <1>6, QuietKeeps

\* Giving up, for a reason the property names.
LEMMA AbandonKeeps ==
  ASSUME ExactInv, Abandon, LoadInv', faulted' \in BOOLEAN,
         \/ faulted' = TRUE \/ ~AlignmentOk \/ ~Plain(file) \/ TooMany(file)
         \/ \E t \in Range(file.tensors) : ~Sound(file, t)
  PROVE  ExactInv'
<1>1. /\ phase' = "failed" /\ UNCHANGED <<file, rung, model, up, pos, done>> /\ live' \subseteq live
  BY DEF Abandon
<1>2. AlignmentOk' = AlignmentOk
  BY <1>1 DEF AlignmentOk
<1>3. SoundFileLoads'
  BY <1>1, <1>2 DEF SoundFileLoads
<1>4. live' \subseteq Holdable
  BY <1>1 DEF ExactInv, Typed
<1>5. ~Streaming' /\ phase' \in Phases /\ rung' <= Len(Ladder(file))
  BY <1>1 DEF Streaming, Uploading, Phases, ExactInv, Typed
<1> QED BY <1>1, <1>3, <1>4, <1>5, QuietKeeps

\* A slice is not empty and does not pass the end of its tensor.
LEMMA SliceIs ==
  ASSUME ExactInv, Streaming, done < model[up].size
  PROVE  /\ up \in 1..Len(model) /\ up \in 1..Len(file.tensors)
         /\ SliceBytes(model[up]) \in Nat \ {0} /\ done + SliceBytes(model[up]) <= model[up].size
<1>1. phase # "idle" /\ phase = "upload" /\ up <= Len(model)
  BY DEF Streaming, Uploading
<1>2. /\ Len(model) \in Nat /\ Len(model) <= Len(file.tensors) /\ Len(file.tensors) \in Nat
      /\ up \in Nat /\ done \in Nat /\ Word \in Nat
      /\ \A i \in 1..Len(model) : model[i].size \in 1..(Word - 1)
  BY <1>1, LoadingFacts
<1>3. up > 0
  BY <1>1 DEF ExactInv, LoadInv, Followed
<1>4. up \in 1..Len(model) /\ up \in 1..Len(file.tensors)
  BY <1>1, <1>2, <1>3
<1>5. PICK a \in Nat, b \in Nat : a = model[up].size - done /\ b = Chunk /\ a > 0 /\ b > 0
  <2>1. model[up].size - done \in Nat /\ model[up].size - done > 0
    BY <1>2, <1>4
  <2> QED BY <2>1, LoadAssumption
<1>6. (a <= b => Min({a, b}) = a) /\ (b <= a => Min({a, b}) = b)
  BY MinOfTwo
<1>7. SliceBytes(model[up]) = Min({a, b})
  BY <1>5 DEF SliceBytes
<1>8. SliceBytes(model[up]) \in Nat \ {0} /\ SliceBytes(model[up]) <= a
  BY <1>5, <1>6, <1>7
<1> QED BY <1>2, <1>4, <1>5, <1>8

\* The reader of a sound tensor never meets the end of the file.
LEMMA SoundFits ==
  ASSUME ExactInv, Streaming, done < model[up].size,
         Sound(file, file.tensors[up]), Plain(file)
  PROVE  ReadFits(model[up])
<1> DEFINE t == file.tensors[up]
<1>1. /\ up \in 1..Len(model) /\ up \in 1..Len(file.tensors)
      /\ SliceBytes(model[up]) \in Nat /\ done + SliceBytes(model[up]) <= model[up].size
  BY SliceIs
<1>2. phase # "idle"
  BY DEF Streaming, Uploading
<1>3. file \in Files /\ t \in Range(file.tensors) /\ done \in Nat /\ model[up].size \in Nat
  BY <1>1, <1>2, LoadingFacts
<1>4. model[up].offset = t.offset /\ model[up].size = SizeOf(file, t)
  BY <1>1 DEF ExactInv, Filled
<1>5. /\ SizeOf(file, t) = TrueSize(file, t)
      /\ DataOffset(file) + t.offset + TrueSize(file, t) <= file.len
  BY <1>3, SoundAccepted
<1>6. t.offset \in Nat /\ file.len \in Nat /\ file.len < Word /\ Word \in Nat
  BY <1>3, TensorFacts
<1>7. PICK d \in Nat : d = DataOffset(file)
  BY <1>3, DataOffsetIs
<1>8. SeekTo(up) = d + t.offset
  <2>1. d + t.offset \in Nat /\ d + t.offset < Word
    BY <1>3, <1>4, <1>5, <1>6, <1>7
  <2> QED BY <1>4, <1>7, <2>1, InWord DEF SeekTo
<1>9. pos = SeekTo(up) + done
  BY DEF ExactInv, Progress
<1> DEFINE n == SliceBytes(model[up])
<1>10. pos = d + t.offset + done /\ n \in Nat /\ done + n <= model[up].size
  BY <1>1, <1>8, <1>9
<1>11. d + t.offset + model[up].size <= file.len
  BY <1>4, <1>5, <1>7
<1> HIDE DEF t, n
<1>12. pos + n <= file.len
  BY <1>3, <1>6, <1>10, <1>11
<1> QED BY <1>12 DEF ReadFits, n

\* A topology is refused only if it is not plain, and a crash has its reason.
LEMMA RefusalKeeps ==
  ASSUME ExactInv, LoadInv', ScanRefuses \/ AcquireFails \/ FillOverruns
  PROVE  ExactInv'
<1>1. /\ phase # "idle" /\ phase' \in {"failed", "crashed"}
      /\ UNCHANGED <<file, rung, model, up, pos, done>>
      /\ live' \subseteq live \cup One({"tag", "dimName"})
  BY DEF ScanRefuses, AcquireFails, FillOverruns, Dropped, One
<1>2. faulted' \in BOOLEAN /\ (faulted' = TRUE \/ ~Plain(file) \/ TooMany(file))
  <2>1. CASE ScanRefuses
    <3>1. file \in Files
      BY <1>1, LoadingFacts
    <3>2. ~Plain(file)
      BY <2>1, <3>1, PlainScan DEF ScanRefuses
    <3> QED BY <2>1, <3>2 DEF ScanRefuses, ExactInv, Typed
  <2>2. CASE AcquireFails
    BY <2>2 DEF AcquireFails, Fault
  <2>3. CASE FillOverruns
    BY <2>3 DEF FillOverruns, ExactInv, Typed
  <2> QED BY <2>1, <2>2, <2>3
<1>3. Plain(file)' = Plain(file) /\ TooMany(file)' = TooMany(file)
  BY <1>1 DEF Plain, Outputs, TooMany
<1>4. SoundFileLoads'
  BY <1>2, <1>3 DEF SoundFileLoads
<1>5. ~Streaming' /\ phase' \in Phases
  BY <1>1 DEF Streaming, Uploading, Phases
<1>6. live' \subseteq Holdable /\ rung' <= Len(Ladder(file))
  BY <1>1 DEF ExactInv, Typed, Holdable, One
<1> QED BY <1>1, <1>2, <1>4, <1>5, <1>6, QuietKeeps

\* Every failure has a reason.
LEMMA FailuresKeep ==
  ASSUME ExactInv, LoadInv',
         \/ ScanRefuses \/ AcquireFails \/ HeaderFails \/ FillOverruns
         \/ MetadataFails \/ FillFails \/ NoUploadState \/ NoTensorBuffer \/ UploadFails
  PROVE  ExactInv'
<1>1. CASE ScanRefuses \/ AcquireFails \/ FillOverruns
  BY <1>1, RefusalKeeps
<1>2. faulted \in BOOLEAN
  BY DEF ExactInv, Typed
<1>3. CASE MetadataFails \/ HeaderFails
  BY <1>2, <1>3, AbandonKeeps DEF MetadataFails, HeaderFails, Fault
<1>4. CASE FillFails
  <2>1. Abandon /\ faulted' \in BOOLEAN /\ (faulted' = TRUE \/ ~Accepted(file, NextTensor))
    BY <1>2, <1>4 DEF FillFails, Fault
  <2>2. phase = "fill" /\ phase # "idle" /\ Len(model) < Len(file.tensors)
    BY <1>4 DEF FillFails
  <2>3. file \in Files /\ NextTensor \in Range(file.tensors)
    <3>1. Len(model) + 1 \in 1..Len(file.tensors)
      BY <2>2, LoadingFacts
    <3> QED BY <2>2, <3>1, LoadingFacts DEF NextTensor
  <2>4. ~Accepted(file, NextTensor) => ~Sound(file, NextTensor) \/ ~Plain(file)
    BY <2>3, SoundAccepted
  <2> QED BY <2>1, <2>3, <2>4, AbandonKeeps
<1>5. CASE NoUploadState
  BY <1>2, <1>5, AbandonKeeps DEF NoUploadState, Fault
<1>6. CASE NoTensorBuffer
  BY <1>2, <1>6, AbandonKeeps DEF NoTensorBuffer, Fault
<1>7. CASE UploadFails
  <2>1. Abandon /\ faulted' \in BOOLEAN /\ (faulted' = TRUE \/ ~ReadFits(model[up]))
    BY <1>2, <1>7 DEF UploadFails, Fault
  <2>2. Streaming /\ done < model[up].size
    BY <1>7 DEF UploadFails
  <2>3. phase # "idle"
    BY <2>2 DEF Streaming, Uploading
  <2>4. file.tensors[up] \in Range(file.tensors)
    BY <2>2, <2>3, SliceIs, LoadingFacts
  <2>5. ~ReadFits(model[up]) => ~Sound(file, file.tensors[up]) \/ ~Plain(file)
    BY <2>2, SoundFits
  <2> QED BY <2>1, <2>4, <2>5, AbandonKeeps
<1> QED BY <1>1, <1>3, <1>4, <1>5, <1>6, <1>7

\* The steps that only take and give back resources.
LEMMA QuietSteps ==
  ASSUME ExactInv, LoadInv', Metadata \/ FillDone \/ CreateUploadState \/ LoadDone
  PROVE  ExactInv'
<1>1. /\ UNCHANGED <<file, rung, model, up, pos, done, faulted>>
      /\ phase \in {"metadata", "fill", "pool", "upload"} /\ phase # "idle"
      /\ phase' \in {"fill", "pool", "upload", "loaded"}
      /\ phase' = "fill" => phase = "metadata"
      /\ phase' = "pool" => phase = "fill" /\ Len(model) = Len(file.tensors)
      /\ phase' = "upload" => phase = "pool"
      /\ phase' = "loaded" => phase = "upload" /\ up > Len(model)
      /\ live' \subseteq live \cup One({"strings", "pool", "cmd"})
  BY DEF Metadata, FillDone, CreateUploadState, LoadDone, One
<1>2. live' \subseteq Holdable
  BY <1>1 DEF ExactInv, Typed, Holdable, Owned, One
<1>3. phase' \in {"pool", "upload", "loaded"} => Len(model) = Len(file.tensors)
  BY <1>1 DEF ExactInv, Progress
<1>4. phase' = "loaded" => up = Len(model) + 1
  <2>1. up <= Len(model) + 1
    BY DEF ExactInv, Typed
  <2> QED BY <1>1, <2>1, LoadingFacts
<1>5. ~Streaming'
  <2>1. phase' = "upload" => <<"chunk", 0>> \notin live'
    <3> SUFFICES ASSUME phase' = "upload" PROVE <<"chunk", 0>> \notin live'
      OBVIOUS
    <3>1. live \subseteq Owned \cup One({"file", "bin"})
      BY <1>1 DEF ExactInv, LoadInv, Held
    <3> QED BY <1>1, <3>1 DEF Owned, One
  <2> QED BY <2>1 DEF Streaming, Uploading
<1>6. faulted' \in BOOLEAN /\ rung' <= Len(Ladder(file)) /\ phase' \in Phases
  BY <1>1 DEF ExactInv, Typed, Phases
<1> QED BY <1>1, <1>2, <1>3, <1>4, <1>5, <1>6, QuietKeeps

\* What has been read stays read while the model and the file do.
LEMMA ReadStays ==
  ASSUME UNCHANGED <<file, model>>, NEW i, NEW n, Read(i, n)
  PROVE  Read(i, n)'
BY DEF Read, SeekTo

LEMMA StartTensorKeeps ==
  ASSUME ExactInv, LoadInv', StartTensor
  PROVE  ExactInv'
<1>1. /\ phase = "upload" /\ phase # "idle" /\ UNCHANGED <<file, phase, rung, model, up, faulted>>
      /\ up <= Len(model) /\ pos' = SeekTo(up) /\ done' = 0
      /\ live' = live \cup {<<"buffer", up>>, <<"chunk", 0>>}
  BY DEF StartTensor, Uploading
<1>2. up \in 1..Len(model) /\ up \in DOMAIN file.tensors /\ SeekTo(up) \in Nat /\ Word \in Nat /\ Word > 0
      /\ model[up].size \in Nat
  <2>1. /\ Len(model) \in Nat /\ Len(model) <= Len(file.tensors) /\ Len(file.tensors) \in Nat
        /\ Word \in Nat /\ Word > 0 /\ up \in Nat /\ file \in Files
        /\ \A i \in 1..Len(model) : model[i].size \in 1..(Word - 1) /\ SeekTo(i) \in Nat
    BY <1>1, LoadingFacts
  <2>2. up > 0
    BY <1>1 DEF ExactInv, LoadInv, Followed
  <2>3. DOMAIN file.tensors = 1..Len(file.tensors)
    BY <2>1, FileFacts
  <2> QED BY <1>1, <2>1, <2>2, <2>3
<1>3. Holdable' = Holdable
  BY <1>1 DEF Holdable, Owned
<1>4. live' \subseteq Holdable
  <2>1. live \subseteq Holdable
    BY DEF ExactInv, Typed
  <2>2. <<"buffer", up>> \in Owned
    BY <1>2 DEF Owned
  <2>3. <<"chunk", 0>> \in Holdable
    BY DEF Holdable, One
  <2> QED BY <1>1, <2>1, <2>2, <2>3 DEF Holdable
<1>5. Typed'
  <2>1. done' \in 0..(Word - 1) /\ pos' \in Nat
    BY <1>1, <1>2
  <2>2. \E C : model' \in Seq([offset : Nat, size : Nat, content : C])
    BY <1>1 DEF ExactInv, Typed
  <2>3. up' <= Len(model') + 1 /\ rung' <= Len(Ladder(file')) /\ phase' \in Phases /\ faulted' \in BOOLEAN
    BY <1>1 DEF ExactInv, Typed
  <2>4. live' \subseteq Holdable'
    BY <1>3, <1>4
  <2> QED BY <2>1, <2>2, <2>3, <2>4 DEF Typed
<1>6. Filled'
  BY <1>1 DEF ExactInv, Filled
<1>7. Progress'
  <2>1. \A i \in 1..Len(model) : i < up => Read(i, model[i].size)'
    BY <1>1, ReadStays DEF ExactInv, Progress
  <2>2. SeekTo(up)' = SeekTo(up)
    BY <1>1 DEF SeekTo
  <2>3. Read(up, 0)'
    BY DEF Read
  <2>4. done' <= model[up].size /\ pos' = SeekTo(up)' + done' /\ Read(up, done)'
    BY <1>1, <1>2, <2>2, <2>3
  <2>5. Len(model) = Len(file.tensors)
    BY <1>1 DEF ExactInv, Progress
  <2> QED BY <1>1, <2>1, <2>4, <2>5 DEF Progress
<1>8. SoundFileLoads'
  BY <1>1 DEF SoundFileLoads
<1> QED BY <1>5, <1>6, <1>7, <1>8 DEF ExactInv

\* A tensor whose upload is over has been read to its end.
LEMMA TensorDoneKeeps ==
  ASSUME ExactInv, LoadInv', TensorDone
  PROVE  ExactInv'
<1>1. /\ phase = "upload" /\ phase # "idle" /\ UNCHANGED <<file, phase, rung, model, pos, done, faulted>>
      /\ Streaming /\ up <= Len(model) /\ up' = up + 1 /\ done >= model[up].size
      /\ live' = live \ One({"chunk"})
  BY DEF TensorDone, Streaming, Uploading
<1>2. Len(model) \in Nat /\ up \in Nat /\ up \in 1..Len(model) /\ done \in Nat /\ model[up].size \in Nat
  <2>1. Len(model) \in Nat /\ up \in Nat /\ done \in Nat
        /\ \A i \in 1..Len(model) : model[i].size \in 1..(Word - 1)
    BY <1>1, LoadingFacts
  <2>2. up > 0 /\ Word \in Nat
    BY <1>1, LoadAssumption DEF ExactInv, LoadInv, Followed
  <2> QED BY <1>1, <2>1, <2>2
<1>3. Typed'
  <2>1. Holdable' = Holdable
    BY <1>1 DEF Holdable, Owned
  <2>2. live' \subseteq Holdable
    BY <1>1 DEF ExactInv, Typed
  <2>3. up' <= Len(model) + 1
    BY <1>1, <1>2
  <2> QED BY <1>1, <2>1, <2>2, <2>3 DEF ExactInv, Typed
<1>4. Filled'
  BY <1>1 DEF ExactInv, Filled
<1>5. Read(up, model[up].size)
  <2>1. done <= model[up].size /\ Read(up, done)
    BY <1>1 DEF ExactInv, Progress
  <2>2. done = model[up].size
    BY <1>1, <1>2, <2>1
  <2> QED BY <2>1, <2>2
<1>6. Progress'
  <2>1. ASSUME NEW i \in 1..Len(model), i < up' PROVE Read(i, model[i].size)'
    <3>1. i < up \/ i = up
      BY <1>1, <1>2, <2>1
    <3>2. Read(i, model[i].size)
      BY <1>5, <3>1 DEF ExactInv, Progress
    <3> QED BY <1>1, <3>2, ReadStays
  <2>2. ~Streaming'
    BY <1>1 DEF Streaming, One
  <2>3. Len(model) = Len(file.tensors)
    BY <1>1 DEF ExactInv, Progress
  <2> QED BY <1>1, <2>1, <2>2, <2>3 DEF Progress
<1>7. SoundFileLoads'
  BY <1>1 DEF SoundFileLoads
<1> QED BY <1>3, <1>4, <1>6, <1>7 DEF ExactInv

LEMMA DestroyModelKeeps ==
  ASSUME ExactInv, LoadInv', DestroyModel
  PROVE  ExactInv'
<1>1. /\ phase' = "idle" /\ file' = NoFile /\ model' = <<>> /\ rung' = 0 /\ up' = 0 /\ pos' = 0 /\ done' = 0
      /\ faulted' = faulted /\ Len(model') = 0
  BY DEF DestroyModel
<1>2. live' = {}
  BY <1>1 DEF LoadInv, Held
<1>3. Len(Ladder(NoFile)) \in Nat /\ Word \in Nat /\ Word > 0
  BY NoFileLadder, LoadAssumption
<1>4. Typed'
  <2>1. model' \in Seq([offset : Nat, size : Nat, content : {}])
    BY <1>1
  <2>2. \E C : model' \in Seq([offset : Nat, size : Nat, content : C])
    BY <2>1
  <2>3. done' \in 0..(Word - 1) /\ pos' \in Nat /\ rung' <= Len(Ladder(file')) /\ up' <= Len(model') + 1
    BY <1>1, <1>3
  <2> QED BY <1>1, <1>2, <2>2, <2>3 DEF ExactInv, Typed, Phases
<1>5. Filled' /\ Progress'
  BY <1>1 DEF Filled, Progress, Streaming, Uploading
<1>6. SoundFileLoads'
  BY <1>1 DEF SoundFileLoads
<1> QED BY <1>4, <1>5, <1>6 DEF ExactInv

\* Tensors stay tensors when one more content is allowed.
LEMMA OtherContent ==
  ASSUME NEW C, NEW c, NEW s \in Seq([offset : Nat, size : Nat, content : C])
  PROVE  s \in Seq([offset : Nat, size : Nat, content : C \cup {c}])
<1> DEFINE S == [offset : Nat, size : Nat, content : C]
           T == [offset : Nat, size : Nat, content : C \cup {c}]
<1>1. S \subseteq T /\ s \in Seq(S)
  OBVIOUS
<1> HIDE DEF S, T
<1>2. s \in Seq(T)
  BY <1>1
<1> QED BY <1>2 DEF T

\* A description that is accepted becomes a tensor with nothing in it yet.
LEMMA FillTensorKeeps ==
  ASSUME ExactInv, LoadInv', FillTensor
  PROVE  ExactInv'
<1> DEFINE size == SizeOf(file, NextTensor)
           empty == [p \in 0..(size - 1) |-> Unread]
           r == [offset |-> NextTensor.offset, size |-> size, content |-> empty]
           k == Len(model) + 1
<1>1. /\ phase = "fill" /\ phase # "idle" /\ Len(model) < Len(file.tensors) /\ Accepted(file, NextTensor)
      /\ model' = Append(model, r) /\ live' = live \cup {<<"name", Len(model')>>}
      /\ UNCHANGED <<file, phase, rung, up, pos, done, faulted>>
  BY DEF FillTensor
<1>2. /\ Len(model) \in Nat /\ Len(file.tensors) \in Nat /\ file \in Files /\ up \in Nat
      /\ k \in 1..Len(file.tensors) /\ NextTensor = file.tensors[k] /\ NextTensor \in Range(file.tensors)
  <2>1. Len(model) \in Nat /\ Len(file.tensors) \in Nat /\ file \in Files /\ up \in Nat
    BY <1>1, LoadingFacts
  <2>2. k \in 1..Len(file.tensors) /\ NextTensor = file.tensors[k]
    BY <1>1, <2>1 DEF NextTensor
  <2> QED BY <1>1, <2>1, <2>2, LoadingFacts
<1>3. size \in Nat /\ NextTensor.offset \in Nat
  <2>1. size \in 1..(Word - 1) /\ Word \in Nat
    BY <1>1, <1>2, SizeFits, LoadAssumption
  <2> QED BY <1>2, <2>1, TensorFacts
<1> HIDE DEF size
<1>4. /\ r.offset = NextTensor.offset /\ r.size = size /\ DOMAIN r.content = 0..(size - 1)
      /\ r.content = [p \in 0..(size - 1) |-> r.content[p]]
  OBVIOUS
<1>5. PICK C : model \in Seq([offset : Nat, size : Nat, content : C])
  BY DEF ExactInv, Typed
<1>6. r \in [offset : Nat, size : Nat, content : C \cup {empty}]
  BY <1>3
<1>7. model \in Seq([offset : Nat, size : Nat, content : C \cup {empty}])
  BY <1>5, OtherContent
<1> HIDE DEF r, empty
<1>8. /\ model' \in Seq([offset : Nat, size : Nat, content : C \cup {empty}])
      /\ Len(model') = k /\ model'[k] = r /\ \A i \in 1..Len(model) : model'[i] = model[i]
  BY <1>1, <1>2, <1>6, <1>7, AppendProperties
<1>9. live' \subseteq Holdable
  <2>1. DOMAIN file.tensors = 1..Len(file.tensors)
    BY <1>2, FileFacts
  <2>2. <<"name", Len(model')>> \in Owned
    BY <1>2, <1>8, <2>1 DEF Owned
  <2> QED BY <1>1, <2>2 DEF ExactInv, Typed, Holdable
<1>10. Typed'
  <2>1. Holdable' = Holdable
    BY <1>1 DEF Holdable, Owned
  <2>2. \E D : model' \in Seq([offset : Nat, size : Nat, content : D])
    BY <1>8
  <2>3. up <= Len(model') + 1
    BY <1>2, <1>8 DEF ExactInv, Typed
  <2> QED BY <1>1, <1>9, <2>1, <2>2, <2>3 DEF ExactInv, Typed
<1>11. Filled'
  <2> SUFFICES ASSUME NEW i \in 1..Len(model')
               PROVE  /\ Accepted(file, file.tensors[i])
                      /\ model'[i].offset = file.tensors[i].offset
                      /\ model'[i].size = SizeOf(file, file.tensors[i])
                      /\ DOMAIN model'[i].content = 0..(model'[i].size - 1)
                      /\ model'[i].content = [p \in 0..(model'[i].size - 1) |-> model'[i].content[p]]
    BY <1>1 DEF Filled
  <2>1. CASE i = k
    <3>1. model'[i] = r /\ file.tensors[i] = NextTensor
      BY <1>2, <1>8, <2>1
    <3>2. Accepted(file, file.tensors[i]) /\ size = SizeOf(file, file.tensors[i])
      BY <1>1, <3>1 DEF size
    <3> QED BY <1>4, <3>1, <3>2
  <2>2. CASE i # k
    <3>1. i \in 1..Len(model) /\ model'[i] = model[i]
      <4>1. Len(model) \in Nat /\ Len(model') = Len(model) + 1
        BY <1>2, <1>8
      <4>2. i \in 1..Len(model)
        BY <2>2, <4>1
      <4> QED BY <1>8, <4>2
    <3>2. /\ Accepted(file, file.tensors[i])
          /\ model[i].offset = file.tensors[i].offset
          /\ model[i].size = SizeOf(file, file.tensors[i])
          /\ DOMAIN model[i].content = 0..(model[i].size - 1)
          /\ model[i].content = [p \in 0..(model[i].size - 1) |-> model[i].content[p]]
      BY <3>1 DEF ExactInv, Filled
    <3> QED BY <3>1, <3>2
  <2> QED BY <2>1, <2>2
<1>12. Progress'
  <2>1. up = 1
    BY <1>1 DEF ExactInv, Progress
  <2>2. \A i \in 1..Len(model') : ~(i < up)
    BY <1>2, <1>8, <2>1
  <2> QED BY <1>1, <2>1, <2>2 DEF Progress, Streaming, Uploading
<1>13. SoundFileLoads'
  BY <1>1 DEF SoundFileLoads
<1> QED BY <1>10, <1>11, <1>12, <1>13 DEF ExactInv

\* A slice puts the next bytes of the file behind those that were read.
LEMMA UploadSliceKeeps ==
  ASSUME ExactInv, LoadInv', UploadSlice
  PROVE  ExactInv'
<1> DEFINE m == model[up]
           n == SliceBytes(m)
           now == [p \in DOMAIN m.content |-> IF p \in done..(done + n - 1) THEN pos + (p - done) ELSE m.content[p]]
           r == [m EXCEPT !.content = now]
<1>1. /\ phase = "upload" /\ phase # "idle" /\ Streaming /\ done < m.size
      /\ UNCHANGED <<file, phase, live, rung, up, faulted>>
      /\ model' = [model EXCEPT ![up] = r] /\ pos' = pos + n /\ done' = done + n
  BY DEF UploadSlice, Streaming, Uploading
<1>2. up \in 1..Len(model) /\ n \in Nat \ {0} /\ done + n <= m.size
  BY <1>1, SliceIs
<1>3. /\ Len(model) \in Nat /\ Len(model) <= Len(file.tensors) /\ done \in Nat /\ pos \in Nat
      /\ SeekTo(up) \in Nat /\ m.size \in 1..(Word - 1) /\ Word \in Nat /\ DOMAIN model = 1..Len(model)
  BY <1>1, <1>2, LoadingFacts
<1>4. /\ DOMAIN m.content = 0..(m.size - 1) /\ pos = SeekTo(up) + done
      /\ \A p \in 0..(done - 1) : m.content[p] = SeekTo(up) + p
  BY <1>1, <1>2 DEF ExactInv, Filled, Progress, Read
<1>5. PICK C : model \in Seq([offset : Nat, size : Nat, content : C])
  BY DEF ExactInv, Typed
<1>6. m \in [offset : Nat, size : Nat, content : C]
  BY <1>2, <1>5, ElementOfSeq
<1>7. r \in [offset : Nat, size : Nat, content : C \cup {now}] /\ r.offset = m.offset /\ r.size = m.size
      /\ r.content = now
  <2> HIDE DEF now, m
  <2> QED BY <1>6
<1>8. model \in Seq([offset : Nat, size : Nat, content : C \cup {now}])
  BY <1>5, OtherContent
<1>9. \A p \in 0..(done + n - 1) : now[p] = SeekTo(up) + p
  <2> SUFFICES ASSUME NEW p \in 0..(done + n - 1) PROVE now[p] = SeekTo(up) + p
    OBVIOUS
  <2>1. PICK b \in Nat, c \in Nat : b = n /\ c = m.size
    BY <1>2, <1>3
  <2> HIDE DEF n, m
  <2>2. p \in DOMAIN m.content
    BY <1>2, <1>3, <1>4, <2>1
  <2>3. p \in done..(done + n - 1) \/ p \in 0..(done - 1)
    BY <1>3, <2>1
  <2>4. CASE p \in done..(done + n - 1)
    BY <1>3, <1>4, <2>2, <2>4
  <2>5. CASE p \notin done..(done + n - 1)
    BY <1>3, <1>4, <2>2, <2>3, <2>5
  <2> QED BY <2>4, <2>5
<1>10. DOMAIN now = 0..(m.size - 1) /\ now = [p \in 0..(m.size - 1) |-> now[p]]
  BY <1>4
<1> HIDE DEF now, r, n
<1>11. /\ model' \in Seq([offset : Nat, size : Nat, content : C \cup {now}]) /\ Len(model') = Len(model)
       /\ model'[up] = r /\ \A i \in 1..Len(model) : i # up => model'[i] = model[i]
  <2>1. model' \in Seq([offset : Nat, size : Nat, content : C \cup {now}]) /\ Len(model') = Len(model)
    BY <1>1, <1>2, <1>7, <1>8, ExceptSeq
  <2> QED BY <1>1, <1>2, <1>3, <2>1
<1>12. Typed'
  <2>1. Holdable' = Holdable
    BY <1>1 DEF Holdable, Owned
  <2>2. \E D : model' \in Seq([offset : Nat, size : Nat, content : D])
    BY <1>11
  <2>3. done' \in 0..(Word - 1) /\ pos' \in Nat
    <3>1. PICK b \in Nat : b = n
      BY <1>2
    <3>2. PICK c \in Nat : c = m.size /\ c <= Word - 1
      BY <1>3
    <3>3. done' = done + b /\ pos' = pos + b /\ done + b <= c
      BY <1>1, <1>2, <3>1, <3>2
    <3> QED BY <1>3, <3>2, <3>3
  <2> QED BY <1>1, <1>11, <2>1, <2>2, <2>3 DEF ExactInv, Typed
<1>13. Filled'
  <2> SUFFICES ASSUME NEW i \in 1..Len(model)
               PROVE  /\ Accepted(file, file.tensors[i])
                      /\ model'[i].offset = file.tensors[i].offset
                      /\ model'[i].size = SizeOf(file, file.tensors[i])
                      /\ DOMAIN model'[i].content = 0..(model'[i].size - 1)
                      /\ model'[i].content = [p \in 0..(model'[i].size - 1) |-> model'[i].content[p]]
    BY <1>1, <1>11 DEF Filled
  <2>1. CASE i = up
    <3>1. Accepted(file, file.tensors[i]) /\ m.offset = file.tensors[i].offset
          /\ m.size = SizeOf(file, file.tensors[i])
      BY <2>1 DEF ExactInv, Filled
    <3> QED BY <1>7, <1>10, <1>11, <2>1, <3>1
  <2>2. CASE i # up
    BY <1>11, <2>2 DEF ExactInv, Filled
  <2> QED BY <2>1, <2>2
<1>14. \A i \in 1..Len(model) : SeekTo(i)' = SeekTo(i)
  <2> SUFFICES ASSUME NEW i \in 1..Len(model) PROVE SeekTo(i)' = SeekTo(i)
    OBVIOUS
  <2>1. model'[i].offset = model[i].offset
    BY <1>7, <1>11
  <2> QED BY <1>1, <2>1 DEF SeekTo
<1>15. Progress'
  <2>1. ASSUME NEW i \in 1..Len(model'), i < up' PROVE Read(i, model[i].size)'
    <3>1. i \in 1..Len(model) /\ i < up /\ i # up
      BY <1>1, <1>2, <1>3, <1>11, <2>1
    <3>2. Read(i, model[i].size) /\ model'[i] = model[i] /\ SeekTo(i)' = SeekTo(i)
      BY <1>11, <1>14, <3>1 DEF ExactInv, Progress
    <3> QED BY <3>2 DEF Read
  <2>2. done' <= model'[up'].size
    BY <1>1, <1>2, <1>7, <1>11
  <2>3. pos' = SeekTo(up)' + done'
    <3>1. PICK b \in Nat : b = n
      BY <1>2
    <3>2. SeekTo(up)' = SeekTo(up)
      BY <1>1, <1>2, <1>14
    <3> QED BY <1>1, <1>3, <1>4, <3>1, <3>2
  <2>4. Read(up, done)'
    <3>1. SeekTo(up)' = SeekTo(up) /\ model'[up'].content = now
      BY <1>1, <1>2, <1>7, <1>11, <1>14
    <3>2. \A p \in 0..(done' - 1) : now[p] = SeekTo(up) + p
      <4>1. PICK b \in Nat : b = n /\ done' = done + b
        BY <1>1, <1>2
      <4>2. \A p \in 0..(done + b - 1) : now[p] = SeekTo(up) + p
        BY <1>9, <4>1
      <4> QED BY <1>3, <4>1, <4>2, SMTT(30)
    <3> HIDE DEF m
    <3> QED BY <3>1, <3>2 DEF Read
  <2>5. Len(model') = Len(file.tensors)
    BY <1>1, <1>11 DEF ExactInv, Progress
  <2> QED BY <1>1, <2>1, <2>2, <2>3, <2>4, <2>5 DEF Progress
<1>16. SoundFileLoads'
  BY <1>1 DEF SoundFileLoads
<1> QED BY <1>12, <1>13, <1>15, <1>16 DEF ExactInv

LEMMA ExactStep == ExactInv /\ [LoadNext]_loadVars => ExactInv'
<1> SUFFICES ASSUME ExactInv, [LoadNext]_loadVars PROVE ExactInv'
  OBVIOUS
<1>1. LoadInv'
  BY LoadStep DEF ExactInv
<1>2. CASE UNCHANGED loadVars
  <2>1. UNCHANGED <<file, phase, live, rung, model, up, pos, done, faulted>>
    BY <1>2 DEF loadVars
  <2>2. Typed'
    BY <2>1 DEF ExactInv, Typed, Holdable, Owned
  <2>3. Filled'
    BY <2>1 DEF ExactInv, Filled
  <2>4. Progress'
    <3>1. \A i \in 1..Len(model) : i < up => Read(i, model[i].size)'
      BY <2>1, ReadStays DEF ExactInv, Progress
    <3>2. Streaming' = Streaming /\ SeekTo(up)' = SeekTo(up)
      BY <2>1 DEF Streaming, Uploading, SeekTo
    <3>3. Streaming => Read(up, done)'
      BY <2>1, ReadStays DEF ExactInv, Progress
    <3> QED BY <2>1, <3>1, <3>2, <3>3 DEF ExactInv, Progress
  <2>5. SoundFileLoads'
    BY <2>1 DEF ExactInv, SoundFileLoads, AlignmentOk
  <2> QED BY <1>1, <2>2, <2>3, <2>4, <2>5 DEF ExactInv
<1>3. CASE \E f \in Files : Begin(f)
  BY <1>1, <1>3, BeginKeeps
<1>4. CASE Acquire
  BY <1>1, <1>4, AcquireKeeps
<1>5. CASE \/ ScanRefuses \/ AcquireFails \/ HeaderFails \/ FillOverruns
           \/ MetadataFails \/ FillFails \/ NoUploadState \/ NoTensorBuffer \/ UploadFails
  BY <1>1, <1>5, FailuresKeep
<1>6. CASE Metadata \/ FillDone \/ CreateUploadState \/ LoadDone
  BY <1>1, <1>6, QuietSteps
<1>7. CASE FillTensor
  BY <1>1, <1>7, FillTensorKeeps
<1>8. CASE StartTensor
  BY <1>1, <1>8, StartTensorKeeps
<1>9. CASE UploadSlice
  BY <1>1, <1>9, UploadSliceKeeps
<1>10. CASE TensorDone
  BY <1>1, <1>10, TensorDoneKeeps
<1>11. CASE DestroyModel
  BY <1>1, <1>11, DestroyModelKeeps
<1> QED
  BY <1>2, <1>3, <1>4, <1>5, <1>6, <1>7, <1>8, <1>9, <1>10, <1>11 DEF LoadNext

LEMMA ExactTypes == ExactInv => LoadTypeOK
<1> SUFFICES ASSUME ExactInv PROVE LoadTypeOK
  OBVIOUS
<1>1. CASE phase = "idle"
  <2>1. file = NoFile /\ Len(model) \in Nat /\ Len(model) <= Len(NoFile.tensors)
    BY <1>1, LenProperties DEF ExactInv, LoadInv, Followed
  <2>2. Len(model) = 0
    BY <2>1 DEF NoFile
  <2>3. DOMAIN model = {}
    <3>1. DOMAIN model = 1..Len(model)
      BY LenProperties DEF ExactInv, Typed
    <3> QED BY <2>2, <3>1
  <2>4. rung \in 0..Len(Ladder(file)) /\ up \in 0..(Len(model) + 1)
    BY <2>1, NoFileLadder DEF ExactInv, LoadInv, Followed, Typed
  <2>5. ~Streaming
    BY <1>1 DEF Streaming, Uploading
  <2> QED BY <1>1, <2>1, <2>3, <2>4, <2>5 DEF ExactInv, Typed, Holdable, LoadTypeOK
<1>2. CASE phase # "idle"
  <2>1. /\ file \in Files /\ Len(model) \in Nat /\ DOMAIN model = 1..Len(model) /\ up \in Nat
        /\ done \in Nat /\ pos \in Nat
        /\ \A i \in 1..Len(model) : model[i].offset \in Nat /\ model[i].size \in 1..(Word - 1)
    BY <1>2, LoadingFacts
  <2>2. rung \in 0..Len(Ladder(file)) /\ up \in 0..(Len(model) + 1)
    BY <2>1, FileFacts, Rungs DEF ExactInv, LoadInv, Followed, Typed
  <2>3. done \in 0..(IF Streaming THEN model[up].size ELSE Word - 1)
    <3>1. CASE Streaming
      <4>1. up > 0 /\ up <= Len(model) /\ done <= model[up].size
        BY <3>1 DEF ExactInv, LoadInv, Followed, Progress, Streaming, Uploading
      <4>2. model[up].size \in 1..(Word - 1) /\ Word \in Nat
        <5>1. up \in 1..Len(model)
          BY <2>1, <4>1
        <5> QED BY <2>1, <5>1, LoadAssumption
      <4> QED BY <2>1, <3>1, <4>1, <4>2
    <3>2. CASE ~Streaming
      BY <3>2 DEF ExactInv, Typed
    <3> QED BY <3>1, <3>2
  <2>4. /\ phase \in Phases /\ faulted \in BOOLEAN
        /\ live \subseteq Holdable
    BY DEF ExactInv, Typed
  <2> QED BY <2>1, <2>2, <2>3, <2>4 DEF LoadTypeOK, Phases, Holdable
<1> QED BY <1>1, <1>2

LEMMA ExactBuffers == ExactInv => BuffersExact
<1> SUFFICES ASSUME ExactInv, phase = "loaded"
             PROVE  /\ Len(model) = Len(file.tensors)
                    /\ \A i \in DOMAIN model :
                         LET first == DataStart(file) + file.tensors[i].offset
                         IN  first < Word => model[i].content = [p \in 0..(model[i].size - 1) |-> first + p]
  BY DEF BuffersExact
<1>1. Len(model) = Len(file.tensors) /\ up = Len(model) + 1
  BY DEF ExactInv, Progress
<1>2. /\ file \in Files /\ Len(model) \in Nat /\ DOMAIN model = 1..Len(model)
      /\ \A i \in 1..Len(model) : model[i].offset \in Nat /\ model[i].size \in 1..(Word - 1)
  BY LoadingFacts
<1>3. PICK d \in Nat : d = DataStart(file) /\ d = DataOffset(file)
  BY <1>2, DataOffsetIs
<1>4. ASSUME NEW i \in 1..Len(model), d + file.tensors[i].offset < Word
      PROVE  model[i].content = [p \in 0..(model[i].size - 1) |-> (d + file.tensors[i].offset) + p]
  <2>1. /\ model[i].offset = file.tensors[i].offset
        /\ model[i].content = [p \in 0..(model[i].size - 1) |-> model[i].content[p]]
    BY DEF ExactInv, Filled
  <2>2. \A p \in 0..(model[i].size - 1) : model[i].content[p] = SeekTo(i) + p
    <3>1. i < up
      BY <1>1, <1>2
    <3> QED BY <3>1 DEF ExactInv, Progress, Read
  <2>3. SeekTo(i) = d + file.tensors[i].offset
    <3>1. d + file.tensors[i].offset \in Nat
      BY <1>2, <2>1
    <3>2. (d + file.tensors[i].offset) % Word = d + file.tensors[i].offset
      BY <1>4, <3>1, InWord
    <3> QED BY <1>3, <2>1, <3>2 DEF SeekTo
  <2> QED BY <2>1, <2>2, <2>3
<1> QED BY <1>1, <1>2, <1>3, <1>4

LEMMA ExactOpenVino == ExactInv => OpenVinoSound
<1> SUFFICES ASSUME ExactInv, file.fmt = "openvino", phase \in {"pool", "upload", "loaded"},
                    NEW t \in Range(file.tensors),
                    OwnShape(file, t) \/ Plain(file)
             PROVE  Sound(file, t)
  BY DEF OpenVinoSound
<1>1. file \in Files /\ Len(model) = Len(file.tensors)
  BY LoadingFacts DEF ExactInv, Progress
<1>2. PICK i \in 1..Len(file.tensors) : t = file.tensors[i]
  BY <1>1, FileFacts DEF Range
<1>3. Accepted(file, t)
  BY <1>1, <1>2 DEF ExactInv, Filled
<1> QED BY <1>1, <1>3, AcceptedSound

-----------------------------------------------------------------------------
(* The results.                                                            *)

\* The type invariant holds; in particular an upload never passes the end of its
\* tensor, whatever the chunk.
THEOREM LoadTypes == LoadSpec => []LoadTypeOK
<1> QED
  BY ExactTypes, ExactInitInv, ExactStep, PTL DEF LoadSpec

\* In a loaded model each buffer is, byte for byte, the tensor's own slice of the
\* file, however it was cut into chunks and whatever was loaded before.
THEOREM BuffersAreExact == LoadSpec => []BuffersExact
<1> QED
  BY ExactBuffers, ExactInitInv, ExactStep, PTL DEF LoadSpec

\* A load fails only for a reason: a failure of the environment, an alignment
\* that is refused, a tensor that is not sound, too many of them, or output ports
\* of some layer that are not plain.
THEOREM SoundFilesLoad == LoadSpec => []SoundFileLoads
<1>1. ExactInv => SoundFileLoads
  BY DEF ExactInv
<1> QED
  BY <1>1, ExactInitInv, ExactStep, PTL DEF LoadSpec

\* What vkmodel_load_openvino lets through is sound, with no wrap: its size is
\* that of its shape, and its slice lies in the .bin; a shape that is taken from
\* the ports is the one they declare where the topology is plain.
THEOREM AcceptedOpenVinoIsSound == LoadSpec => []OpenVinoSound
<1> QED
  BY ExactOpenVino, ExactInitInv, ExactStep, PTL DEF LoadSpec

\* Whatever a model file holds and wherever a load of it fails, the load leaves
\* nothing behind but the tensor array of a safetensors file or what was parsed
\* of a malformed topology, and it comes back but where vkmodel_load misses an
\* array or a topology holds too many tensors; a model that is destroyed leaves
\* nothing.
THEOREM FailuresLeave == LoadSpec => []FailureLeaves
<1>1. LoadInv => FailureLeaves
  <2> SUFFICES ASSUME LoadInv PROVE FailureLeaves
    OBVIOUS
  <2>1. CASE phase \in {"failed", "crashed"}
    BY <2>1 DEF LoadInv, Held
  <2>2. CASE phase \notin {"failed", "crashed"}
    BY <2>2 DEF LoadInv, Held, FailureLeaves
  <2> QED BY <2>1, <2>2
<1> QED
  BY <1>1, LoadInitInv, LoadStep, PTL DEF LoadSpec

\* Loader, caches and markers together: each step is one of a component's and
\* leaves the others as they are, so all their variables keep their types.
THEOREM ModelStateTypes == Spec => []TypesOK
<1> DEFINE Inv == PagedInv /\ MarkersInv /\ StreamInv /\ ExactInv
<1>1. Init => Inv
  BY PagedInitInv, MarkersInvInit, StreamInvInit, ExactInitInv DEF Init
<1>2. Inv /\ [Next]_<<part, pagedVars, markerVars, streamVars, loadVars>> => Inv'
  <2>1. Next \/ UNCHANGED <<part, pagedVars, markerVars, streamVars, loadVars>> =>
          /\ [PagedNext]_pagedVars /\ [MarkersNext]_markerVars
          /\ [StreamNext]_streamVars /\ [LoadNext]_loadVars
    BY DEF Next
  <2> QED BY <2>1, PagedStep, MarkersStep, StreamStep, ExactStep
<1>3. Inv => TypesOK
  <2>1. MarkersInv => MarkersTypeOK
    BY DEF MarkersInv, MarkersTypeOK, Range
  <2> QED BY <2>1, PagedInvSound, StreamFacts, ExactTypes DEF TypesOK
<1> QED
  BY <1>1, <1>2, <1>3, PTL DEF Spec
=============================================================================
