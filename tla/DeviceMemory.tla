----------------------------- MODULE DeviceMemory -----------------------------
(***************************************************************************)
(* Device memory and the tensors in it (cuda_allocator.cpp, cuda_device_    *)
(* guard.cpp and buffer.cpp of tiny_llm/device_managers, and                *)
(* tiny_llm/tensor/tensor.cpp).  A buffer is allocated on the stream of the *)
(* calling thread's context, its pointer is entered in a map all threads    *)
(* share, under a mutex, and whoever drops the last tensor in it frees it   *)
(* on the stream it came from.                                              *)
(*                                                                         *)
(* Every thread has a tensor; tensors of several threads may share a        *)
(* buffer (shared_ptr).  A tensor is worked on by one thread at a time.     *)
(* cudaMallocAsync returns any address that is not in use, or fails.        *)
(***************************************************************************)
EXTENDS CudaContexts, Tensor

CONSTANTS
  Ptrs,        \* bound: the addresses there are
  Made,        \* bound: <<device, shape>> of the tensors that are made ...
  Reallocates, \* ... the shapes they are reallocated with ...
  Reshapes,    \* ... and reshaped to
  Views        \* bound: [shape, stride, offset] of tensors in a given buffer

NullPtr == "nullptr"

(* Calls with other shapes throw (is_valid_shape) and change nothing; views *)
(* and reshapes are checked in the model.                                   *)
ASSUME MemoryAssumption ==
  /\ NullPtr \notin Ptrs
  /\ \A made \in Made : made[1] \in Devices /\ made[2] \in Seq(Nat \ {0})
  /\ Reallocates \subseteq Seq(Nat \ {0})
  /\ Reshapes \subseteq Seq(Int)
  /\ \A view \in Views :
       view.shape \in Seq(Int) /\ view.stride \in Seq(Int) /\ view.offset \in Nat

VARIABLES
  ptr_meta,   \* PtrInfo::ptr_meta_: from pointer to the context it came from
  allocated,  \* the addresses the device has given out
  tensor,     \* the tensor of each thread
  torn,       \* the threads whose tensor a reallocate left half changed
  ptr,        \* the thread's local ptr
  old,        \* the buffer a thread is about to delete, or NoBuffer
  origin_dev_ \* the device a CudaDeviceSwitchGuard will go back to

bufferVars == <<ptr_meta, allocated>>
localVars == <<ptr, old, origin_dev_>>
mvars == <<contextVars, bufferVars, tensor, torn, localVars>>

Moved == Tensor(0, <<>>, <<>>, 0, NoBuffer)

MInit ==
  /\ CInit
  /\ ptr_meta = <<>> /\ allocated = {}
  /\ tensor = [t \in Threads |-> Moved] /\ torn = {}
  /\ ptr = [t \in Threads |-> NullPtr]
  /\ old = [t \in Threads |-> NoBuffer]
  /\ origin_dev_ = [t \in Threads |-> 0]

Idle(t) == at[t] = "idle"

(* A buffer; a pointer in use is in one only.                               *)
Buffer(p, size, id) == [ptr |-> p, size |-> size, id |-> id]

(* Who else has a tensor in buffer b.                                       *)
SharedBy(t, b) == {u \in Threads \ {t} : tensor[u].buffer = b}

-----------------------------------------------------------------------------
(* Allocation.  allocate_buffer switches to the tensor's device ...         *)
BeginAllocate(t, x) ==
  /\ tensor' = [tensor EXCEPT ![t] = x]
  /\ origin_dev_' = [origin_dev_ EXCEPT ![t] = device[t]]
  /\ device' = [device EXCEPT ![t] = x.id]
  /\ at' = [at EXCEPT ![t] = "context"]
  /\ UNCHANGED <<pos, contexts, takeVars, handed, bufferVars, torn, ptr, old>>

(* ... GetContext creates a context if the current device has none yet ...   *)
GetContext(t) ==
  /\ at[t] = "context" /\ contexts[t][device[t]] = <<>>
  /\ LoadPos(t, device[t], "get")
  /\ UNCHANGED <<bufferVars, tensor, torn, localVars>>

Got(t) == Exchange(t, "get", "context") /\ UNCHANGED <<bufferVars, tensor, torn, localVars>>

MyContext(t) == Last(contexts[t][device[t]])

(* ... or takes the top one, and a pointer is asked for, unless no bytes    *)
(* are wanted.                                                              *)
Malloc(t) ==
  /\ at[t] = "context" /\ contexts[t][device[t]] # <<>>
  /\ IF BytesOf(tensor[t]) = 0
       THEN ptr' = [ptr EXCEPT ![t] = NullPtr] /\ UNCHANGED allocated
       ELSE \E p \in Ptrs \ allocated :
              ptr' = [ptr EXCEPT ![t] = p] /\ allocated' = allocated \cup {p}
  /\ at' = [at EXCEPT ![t] = "insert"]
  /\ UNCHANGED <<pos, contexts, device, takeVars, handed, ptr_meta, tensor, torn, old,
                 origin_dev_>>

(* cudaMallocAsync fails: the guard switches back, and the tensor stays as  *)
(* it is, with the shape reallocate has given it already.                   *)
MallocFails(t) ==
  /\ at[t] = "context" /\ contexts[t][device[t]] # <<>> /\ BytesOf(tensor[t]) > 0
  /\ device' = [device EXCEPT ![t] = origin_dev_[t]]
  /\ torn' = IF tensor[t].buffer = NoBuffer THEN torn ELSE torn \cup {t}
  /\ at' = [at EXCEPT ![t] = "idle"]
  /\ origin_dev_' = [origin_dev_ EXCEPT ![t] = 0]
  /\ UNCHANGED <<pos, contexts, takeVars, handed, bufferVars, tensor, ptr, old>>

(* emplace does not replace an entry that is there.                         *)
Inserted(p, context) ==
  IF p = NullPtr \/ p \in DOMAIN ptr_meta THEN ptr_meta
  ELSE [q \in {p} \cup DOMAIN ptr_meta |-> IF q = p THEN context ELSE ptr_meta[q]]

(* The buffer a thread drops: it is deleted when nobody shares it.          *)
Drops(t, b) ==
  LET last == b # NoBuffer /\ SharedBy(t, b) = {} /\ b.ptr # NullPtr
  IN  /\ old' = [old EXCEPT ![t] = IF last THEN b ELSE NoBuffer]
      /\ at' = [at EXCEPT ![t] = IF last THEN "delete" ELSE "idle"]

(* The pointer is entered, the guard switches back, and the buffer takes    *)
(* the place of the one the tensor had, if any.                             *)
Insert(t) ==
  /\ at[t] = "insert"
  /\ ptr_meta' = Inserted(ptr[t], MyContext(t))
  /\ tensor' = [tensor EXCEPT ![t] =
                  [@ EXCEPT !.offset = 0,
                            !.buffer = Buffer(ptr[t], BytesOf(tensor[t]), MyContext(t).id)]]
  /\ device' = [device EXCEPT ![t] = origin_dev_[t]]
  /\ Drops(t, tensor[t].buffer)
  /\ torn' = torn \ {t}
  /\ ptr' = [ptr EXCEPT ![t] = NullPtr] /\ origin_dev_' = [origin_dev_ EXCEPT ![t] = 0]
  /\ UNCHANGED <<pos, contexts, takeVars, handed, allocated>>

-----------------------------------------------------------------------------
(* cuda_deleter                                                             *)

(* (fault) the memory is freed before its pointer leaves the map.           *)
DeleterSteps_FreeFirst == <<"free", "remove">>

DeleterSteps == <<"remove", "free">>

At(t, step) ==
  \/ at[t] = "delete" /\ DeleterSteps[1] = step
  \/ at[t] = "deleting" /\ DeleterSteps[2] = step

StepTaken(t, last) ==
  /\ at' = [at EXCEPT ![t] = IF last THEN "idle" ELSE "deleting"]
  /\ old' = [old EXCEPT ![t] = IF last THEN NoBuffer ELSE @]

(* A pointer that is not in the map is not freed: remove throws, and the    *)
(* deleter catches it.                                                      *)
RemovePtr(t) ==
  /\ At(t, "remove")
  /\ LET p == old[t].ptr
     IN  /\ ptr_meta' = [q \in DOMAIN ptr_meta \ {p} |-> ptr_meta[q]]
         /\ StepTaken(t, at[t] = "deleting" \/ p \notin DOMAIN ptr_meta)
  /\ UNCHANGED <<pos, contexts, device, takeVars, handed, allocated, tensor, torn, ptr,
                 origin_dev_>>

(* The guard switches to the device and back around cudaFreeAsync.          *)
Free(t) ==
  /\ At(t, "free")
  /\ allocated' = allocated \ {old[t].ptr}
  /\ StepTaken(t, at[t] = "deleting")
  /\ UNCHANGED <<pos, contexts, device, takeVars, handed, ptr_meta, tensor, torn, ptr,
                 origin_dev_>>

-----------------------------------------------------------------------------
(* What a thread does with its tensor.  Calls that throw change nothing,    *)
(* but for the reallocate whose allocation fails.                           *)

(* The tensor is x from now on.                                             *)
Is(t, x) ==
  /\ tensor' = [tensor EXCEPT ![t] = x]
  /\ torn' = torn \ {t}
  /\ UNCHANGED <<contextVars, bufferVars, localVars>>

Construct(t, d, shape) ==
  /\ Idle(t) /\ tensor[t] = Moved
  /\ Is(t, Shaped([Moved EXCEPT !.id = d], shape))

(* In the buffer of another thread's tensor.                                *)
ConstructView(t, u, view) ==
  LET b == tensor[u].buffer
      stride == IF view.stride = <<>> THEN shape_to_stride(view.shape) ELSE view.stride
  IN  /\ Idle(t) /\ tensor[t] = Moved
      /\ Idle(u) /\ b # NoBuffer
      /\ CanView(view.shape, stride, view.offset, b.size)
      /\ Is(t, Tensor(b.id, view.shape, stride, view.offset, b))

(* data(), also of the tensor that is copied to: the buffer is allocated    *)
(* with the first use.                                                      *)
Data(t) ==
  /\ Idle(t) /\ tensor[t].buffer = NoBuffer
  /\ BeginAllocate(t, tensor[t])

Reshape(t, shape) ==
  /\ Idle(t)
  /\ tensor' = [tensor EXCEPT ![t] = Reshaped(@, shape)]
  /\ UNCHANGED <<contextVars, bufferVars, torn, localVars>>

(* (fault) elements are compared with bytes.                                *)
Fits_Elements(x) == x.buffer.size >= element_size(x.shape)

Fits(x) == x.buffer.size >= element_size(x.shape) * TypeSize

(* The buffer at hand is used again, from its start, if it is large enough. *)
Reallocate(t, shape) ==
  LET x == Shaped(tensor[t], shape)
      again == tensor[t].buffer # NoBuffer /\ Fits(x)
  IN  /\ Idle(t)
      /\ \/ again /\ Is(t, [x EXCEPT !.offset = 0])
         \/ ~again /\ BeginAllocate(t, x)

(* A move is a swap; a buffer may be deleted by another thread than the one *)
(* that allocated it.                                                       *)
Move(t, u) ==
  /\ Idle(t) /\ Idle(u)
  /\ tensor' = [tensor EXCEPT ![t] = tensor[u], ![u] = tensor[t]]
  /\ torn' = {v \in Threads : (CASE v = t -> u [] v = u -> t [] OTHER -> v) \in torn}
  /\ UNCHANGED <<contextVars, bufferVars, localVars>>

Destroy(t) ==
  /\ Idle(t) /\ tensor[t] # Moved
  /\ tensor' = [tensor EXCEPT ![t] = Moved]
  /\ torn' = torn \ {t}
  /\ Drops(t, tensor[t].buffer)
  /\ UNCHANGED <<pos, contexts, device, takeVars, handed, bufferVars, ptr, origin_dev_>>

TensorStep(t) ==
  \/ GetContext(t) \/ Got(t) \/ Malloc(t) \/ MallocFails(t) \/ Insert(t)
  \/ RemovePtr(t) \/ Free(t)
  \/ \E made \in Made : Construct(t, made[1], made[2])
  \/ \E shape \in Reallocates : Reallocate(t, shape)
  \/ \E shape \in Reshapes : Reshape(t, shape)
  \/ \E u \in Threads \ {t} : Move(t, u) \/ (\E view \in Views : ConstructView(t, u, view))
  \/ Data(t) \/ Destroy(t)

Next ==
  \E t \in Threads :
    \/ TensorStep(t)
    \/ ContextStep(t) /\ UNCHANGED <<bufferVars, tensor, torn, localVars>>

Spec == MInit /\ [][Next]_mvars

-----------------------------------------------------------------------------
Live ==
  {b \in {tensor[t].buffer : t \in Threads} \cup {old[t] : t \in {u \in Threads : at[u] = "delete"}} :
     b # NoBuffer /\ b.ptr # NullPtr}

(* A buffer that is still in use is in the map with a context of its        *)
(* device, so that it will be freed, and where it was allocated: even when  *)
(* its address was freed by another thread just before.  The device is that *)
(* of its tensor, whatever device the thread works on; and when no call is  *)
(* under way, every address that was given out is in one of them.           *)
Managed ==
  /\ \A b \in Live : b.ptr \in DOMAIN ptr_meta /\ ptr_meta[b.ptr].id = b.id
  /\ \A t \in Threads : (Idle(t) /\ tensor[t].buffer # NoBuffer) =>
                          tensor[t].buffer.id = tensor[t].id
  /\ (\A t \in Threads : Idle(t)) => allocated = {b.ptr : b \in Live}

(* After any sequence of moves, reshapes and reallocations, in its own      *)
(* buffer or one it shares, a tensor reaches no byte outside its buffer:    *)
(* unless a reallocate threw, which leaves the new shape with the old       *)
(* buffer, or its strides are not nested, which the constructor does not    *)
(* look at.                                                                 *)
WithinBuffer ==
  \A t \in Threads \ torn :
    (Idle(t) /\ tensor[t].buffer # NoBuffer /\ IsNested(tensor[t])) =>
      Reach(tensor[t]) <= tensor[t].buffer.size
=============================================================================
