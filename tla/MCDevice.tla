------------------------------ MODULE MCDevice ------------------------------
(* Two threads on two devices with two streams each; tensors of one and two  *)
(* elements, one of them in the buffer of the other.                         *)
EXTENDS DeviceMemory

MCMade == {<<1, <<1>>>>}
MCReallocates == {<<2>>}
MCReshapes == {<<2, -1>>}

View(shape, stride, offset) == [shape |-> shape, stride |-> stride, offset |-> offset]
MCViews == {View(<<1>>, <<>>, 4)}

Symmetry == Permutations(Threads) \cup Permutations(Ptrs)
=============================================================================
