---------------------------- MODULE MCVkmodelLoad ----------------------------
(* An instance of VkmodelLoad for TLC: the model files.  Word is 64, so     *)
(* Largest is 59; chunks have 4 bytes, shapes 4 dims, dim texts 4           *)
(* characters, and an OpenVINO model 2 tensors.                             *)
EXTENDS VkmodelLoad

\* A tensor with a shape, and one that takes the dims of its layer's ports.
Shaped(dims, blck, bytes, offset, size) ==
  [dims |-> dims, layer |-> 1, blck |-> blck, bytes |-> bytes, offset |-> offset, size |-> size]
OfLayer(layer, bytes, offset, size) ==
  [Shaped(<<>>, 1, bytes, offset, size) EXCEPT !.layer = layer]
MCFile(fmt, kv, align, meta, len, tensors) ==
  [fmt |-> fmt, kv |-> kv, align |-> align, meta |-> meta, len |-> len,
   layers |-> 1, ports |-> <<>>, tensors |-> tensors]

\* Two tensors, of three elements and of six in blocks of four; alignments good
\* and bad; descriptions that end on a boundary and not.
TwoBlocks ==
  {MCFile("gguf", kv, align, meta, 31, <<Shaped(<<3>>, 1, 1, 4, 0), Shaped(<<2, 3>>, 4, 2, 0, 0)>>) :
     kv \in {0, 1}, align \in {8, 12, 16}, meta \in {11, 16}}
\* Files too short by one; element counts that wrap, one of them to zero.
Wrapping ==
  {MCFile("gguf", 1, 8, 9, len, <<Shaped(dims, blck, 2, 0, 0)>>) :
     len \in {21, 22}, dims \in {<<3, 1>>, <<9, 8>>, <<8, 8>>}, blck \in {1, 2}}
\* An offset that brings the data's position back to the start of the file.
BehindTheEnd == {MCFile("gguf", 0, 8, 8, 16, <<Shaped(<<3>>, 1, 1, 56, 0)>>)}
Gguf == TwoBlocks \cup Wrapping \cup BehindTheEnd \cup {MCFile("gguf", 0, 8, 8, 8, <<>>)}

Safetensors ==
  {MCFile("safetensors", kv, 32, 5, len, <<Shaped(<<2, 2>>, 1, 2, 0, 8), Shaped(<<3>>, 1, 1, 8, size)>>) :
     kv \in {0, 1}, size \in {2, 3}, len \in {15, 16}}

\* Slices that reach the end of the .bin, pass it by one, or wrap.
Slices ==
  {MCFile("openvino", 0, 32, 0, len, <<Shaped(dims, 1, 2, offset, 6), Shaped(<<4>>, 1, 1, 0, 4)>>) :
     dims \in {<<3>>, <<5, 7>>}, offset \in {4, 58}, len \in {9, 10, 11}}
\* More tensors than the limit; the first of them is accepted or not.
Many ==
  {MCFile("openvino", 0, 32, 0, 4, [i \in 1..3 |-> Shaped(<<2>>, 1, 1, 0, size)]) : size \in {2, 3}}

\* The texts of dims, and ports of a layer.
Number(v) == [value |-> v, width |-> IF v < 10 THEN 1 ELSE 2, digits |-> TRUE]
Dynamic == [value |-> 0, width |-> 1, digits |-> FALSE]
Output(layer, texts) == [layer |-> layer, out |-> TRUE, closed |-> TRUE, dims |-> texts]
Digits(dims) == [i \in DOMAIN dims |-> Number(dims[i])]
Input(layer, texts) == [Output(layer, texts) EXCEPT !.out = FALSE]
SelfClosed(layer) == [Output(layer, <<>>) EXCEPT !.closed = FALSE]

\* What may come before the output of layer 2: nothing; an input port; layer 1
\* with two dims, the largest number or one beyond it, a dynamic dim, as many dims
\* as are collected or one more, so many more that the text overflows, two ports,
\* or a port without an end tag, with or without an input port behind it.
PortsBefore ==
  { <<>>, <<Input(2, <<Dynamic>>)>>, <<Output(1, Digits(<<2, 11>>))>>, <<Output(1, <<Dynamic>>)>>,
    <<Output(1, Digits(<<59>>))>>, <<Output(1, Digits(<<60>>))>>,
    <<Output(1, Digits(<<1, 1, 1, 1>>))>>, <<Output(1, Digits(<<1, 1, 1, 1, 1>>))>>,
    <<Output(1, Digits(<<1, 1, 1, 1, 12, 12, 1>>))>>,
    <<Output(1, Digits(<<1, 1, 1>>)), Output(1, Digits(<<1, 1>>))>>,
    <<SelfClosed(1)>>, <<SelfClosed(1), Input(2, Digits(<<2>>))>> }
\* The output of layer 2, that of a constant without a shape.
Own ==
  { <<>>, <<Output(2, Digits(<<2, 3>>))>>, <<Output(2, Digits(<<2>>)), Output(2, Digits(<<3>>))>>,
    <<Output(2, Digits(<<2, 3, 1, 1, 2>>))>>, <<Output(2, <<>>)>> }
WithPorts(ports, size) ==
  [MCFile("openvino", 0, 32, 0, 48, <<OfLayer(2, 1, 3, size)>>) EXCEPT !.layers = 2, !.ports = ports]
Topologies == {WithPorts(before \o own, 6) : before \in PortsBefore, own \in Own}
\* The first dim of layer 2 with what layer 1 leaves before it.
Carried == WithPorts(<<Output(1, Digits(<<1, 1, 1, 1, 1>>)), Output(2, Digits(<<2, 3>>))>>, 36)

OpenVino == Slices \cup Many \cup Topologies \cup {Carried, MCFile("openvino", 0, 32, 0, 4, <<>>)}
MCFiles == Gguf \cup Safetensors \cup OpenVino
=============================================================================
