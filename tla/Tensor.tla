-------------------------------- MODULE Tensor --------------------------------
(***************************************************************************)
(* The shape arithmetic of a tensor (tiny_llm/tensor/tensor.cpp): strides   *)
(* in bytes, reshape with a dimension to be filled in, and the checks of    *)
(* the constructors.  A tensor is [id, shape, stride, offset, buffer]: the  *)
(* device it is on, and a buffer, or NoBuffer until one is needed.          *)
(***************************************************************************)
EXTENDS Integers, FiniteSets, SequencesExt

TypeSize == 4  \* type_size, the same for both data types

NoBuffer == <<>>

Tensor(id, shape, stride, offset, buffer) ==
  [id |-> id, shape |-> shape, stride |-> stride, offset |-> offset, buffer |-> buffer]

Product(shape) == FoldLeft(LAMBDA a, b : a * b, 1, shape)

(* The elements of a tensor without dimensions are none.                    *)
element_size(shape) == IF shape = <<>> THEN 0 ELSE Product(shape)

shape_to_stride(shape) ==
  [d \in DOMAIN shape |-> TypeSize * Product(SubSeq(shape, d + 1, Len(shape)))]

is_valid_shape(shape) == \A d \in DOMAIN shape : shape[d] > 0

is_valid_shape_and_stride(shape, stride) ==
  /\ is_valid_shape(shape)
  /\ Len(stride) = Len(shape)
  /\ \A d \in DOMAIN stride : stride[d] >= shape_to_stride(shape)[d]

is_continuous(tensor) == tensor.stride = shape_to_stride(tensor.shape)

(* The bytes a buffer of the tensor's own is given.                         *)
BytesOf(tensor) == IF tensor.shape = <<>> THEN 0 ELSE tensor.stride[1] * tensor.shape[1]

-----------------------------------------------------------------------------
(* reshape                                                                  *)

Negative(shape) == {d \in DOMAIN shape : shape[d] < 0}

(* The rest of the elements once the dimensions up to d are divided out: -1 *)
(* when one of them does not divide it.                                     *)
Remaining(shape, elements) ==
  FoldLeft(LAMBDA rest, dim : IF dim < 0 THEN rest
                              ELSE IF rest > 0 /\ rest % dim = 0 THEN rest \div dim ELSE -1,
           elements, shape)

(* The checks of remove_negative_dim.  A shape without dimensions passes.   *)
CanReshape(shape, elements) ==
  /\ \A d \in DOMAIN shape : shape[d] >= -1 /\ shape[d] # 0
  /\ Cardinality(Negative(shape)) <= 1
  /\ shape # <<>> => IF Negative(shape) = {} THEN Remaining(shape, elements) = 1
                     ELSE Remaining(shape, elements) >= 0

remove_negative_dim(shape, elements) ==
  [d \in DOMAIN shape |-> IF shape[d] < 0 THEN Remaining(shape, elements) ELSE shape[d]]

Shaped(tensor, shape) ==
  [tensor EXCEPT !.shape = shape, !.stride = shape_to_stride(shape)]

(* A tensor after reshape, the same when it throws.                         *)
Reshaped(tensor, shape) ==
  LET elements == element_size(tensor.shape)
  IN  IF is_continuous(tensor) /\ CanReshape(shape, elements)
        THEN Shaped(tensor, remove_negative_dim(shape, elements))
        ELSE tensor

-----------------------------------------------------------------------------
(* The checks of the constructor of a tensor in a given buffer.  The bound  *)
(* looks at the first dimension alone.                                      *)
CanView(shape, stride, offset, size) ==
  /\ shape # <<>>
  /\ is_valid_shape_and_stride(shape, stride)
  /\ offset + shape[1] * stride[1] <= size

(* No element of one index of a dimension reaches into the next.            *)
IsNested(tensor) ==
  \A d \in 1 .. Len(tensor.shape) - 1 :
    tensor.stride[d] >= tensor.stride[d + 1] * tensor.shape[d + 1]

(* One past the last byte of the last element.                              *)
Reach(tensor) ==
  IF element_size(tensor.shape) = 0 THEN tensor.offset
  ELSE FoldLeft(LAMBDA end, d : end + (tensor.shape[d] - 1) * tensor.stride[d],
                tensor.offset + TypeSize, [d \in DOMAIN tensor.shape |-> d])
=============================================================================
