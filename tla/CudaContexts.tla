----------------------------- MODULE CudaContexts -----------------------------
(***************************************************************************)
(* Devices, streams and contexts                                            *)
(* (tiny_llm/device_managers/cuda/cuda_context.cpp).  Every device has a    *)
(* pool of streams that all threads take from, round robin, by a            *)
(* compare-exchange of the position; every thread has, for every device, a  *)
(* stack of contexts of its own, whose top its work goes to.                *)
(*                                                                         *)
(* A thread is in one call at a time: at tells where.  What is private to   *)
(* the thread between two accesses of pos is one step with the access.      *)
(***************************************************************************)
EXTENDS Naturals, FiniteSets, SequencesExt

CONSTANTS
  Threads,
  DeviceNum,         \* cudaGetDeviceCount
  StreamsPerDevice,  \* kStreamsPerDevice
  MaxContexts        \* bound: the contexts there are when another is pushed

ASSUME ContextsAssumption ==
  /\ DeviceNum \in Nat \ {0} /\ StreamsPerDevice \in Nat \ {0}
  /\ MaxContexts \in Nat

Devices == 0 .. DeviceNum - 1
Streams == 0 .. StreamsPerDevice - 1

VARIABLES
  pos,       \* ContextResources::pos of each device
  contexts,  \* ThreadCudaContexts of each thread: a stack for each device
  device,    \* the current device of each thread (cudaSetDevice)
  at,        \* where each thread is: "idle", or in a call
  dev_id,    \* its locals in CreateCudaContext
  cur_pos, next_pos,
  handed     \* (history) the streams of each device handed out, modulo their number

takeVars == <<dev_id, cur_pos, next_pos>>
contextVars == <<pos, contexts, device, at, takeVars, handed>>

Context(stream, id) == [stream |-> stream, id |-> id]

Following(p) == (p + 1) % StreamsPerDevice

CInit ==
  /\ pos = [d \in Devices |-> 0]
  /\ contexts = [t \in Threads |-> [d \in Devices |-> <<>>]]
  /\ device = [t \in Threads |-> 0]
  /\ at = [t \in Threads |-> "idle"]
  /\ dev_id = [t \in Threads |-> 0]
  /\ cur_pos = [t \in Threads |-> 0] /\ next_pos = [t \in Threads |-> 0]
  /\ handed = [d \in Devices |-> 0]

-----------------------------------------------------------------------------
(* CreateCudaContext for device d, called at idle or from GetContext: pos   *)
(* is read, and the next position computed from it.                         *)
LoadPos(t, d, place) ==
  /\ dev_id' = [dev_id EXCEPT ![t] = d]
  /\ cur_pos' = [cur_pos EXCEPT ![t] = pos[d]]
  /\ next_pos' = [next_pos EXCEPT ![t] = Following(pos[d])]
  /\ at' = [at EXCEPT ![t] = place]
  /\ UNCHANGED <<pos, contexts, device, handed>>

(* The exchange succeeds: the stream at cur_pos is this context's, and the  *)
(* context is pushed on the thread's own stack.  The locals are dead.       *)
Exchange(t, place, after) ==
  /\ at[t] = place
  /\ pos[dev_id[t]] = cur_pos[t]
  /\ pos' = [pos EXCEPT ![dev_id[t]] = next_pos[t]]
  /\ handed' = [handed EXCEPT ![dev_id[t]] = Following(@)]
  /\ contexts' = [contexts EXCEPT ![t][dev_id[t]] = Append(@, Context(cur_pos[t], dev_id[t]))]
  /\ at' = [at EXCEPT ![t] = after]
  /\ dev_id' = [dev_id EXCEPT ![t] = 0]
  /\ cur_pos' = [cur_pos EXCEPT ![t] = 0] /\ next_pos' = [next_pos EXCEPT ![t] = 0]
  /\ UNCHANGED device

(* (fault) the next position is computed before the loop only.              *)
NextAfterFailure_Stale(t) == next_pos[t]

NextAfterFailure(t) == Following(pos[dev_id[t]])

(* It fails, because another thread was faster or, compare_exchange_weak,   *)
(* for no reason; cur_pos is what was found instead.                        *)
ExchangeFailed(t) ==
  /\ at[t] \in {"push", "get"}
  /\ cur_pos' = [cur_pos EXCEPT ![t] = pos[dev_id[t]]]
  /\ next_pos' = [next_pos EXCEPT ![t] = NextAfterFailure(t)]
  /\ UNCHANGED <<pos, contexts, device, at, dev_id, handed>>

-----------------------------------------------------------------------------
(* What a client calls of its own.                                          *)

SetDevice(t, d) ==
  /\ at[t] = "idle"
  /\ device' = [device EXCEPT ![t] = d]
  /\ UNCHANGED <<pos, contexts, at, takeVars, handed>>

(* ThreadCudaContexts::Push(CreateCudaContext(d)), or a guard of it.        *)
PushCreated(t, d) ==
  /\ at[t] = "idle"
  /\ SumFunction([i \in Threads \X Devices |-> Len(contexts[i[1]][i[2]])]) < MaxContexts
  /\ LoadPos(t, d, "push")

Pushed(t) == Exchange(t, "push", "idle")

(* Pop, or the end of the guard; an empty stack stays as it is.             *)
PopContext(t, d) ==
  /\ at[t] = "idle" /\ contexts[t][d] # <<>>
  /\ contexts' = [contexts EXCEPT ![t][d] = Front(@)]
  /\ UNCHANGED <<pos, device, at, takeVars, handed>>

ContextStep(t) ==
  \/ \E d \in Devices : SetDevice(t, d) \/ PushCreated(t, d) \/ PopContext(t, d)
  \/ Pushed(t) \/ ExchangeFailed(t)

-----------------------------------------------------------------------------
(* However the threads interleave, the streams of a device are handed out   *)
(* round robin, none twice before every other had its turn: the stream that *)
(* is next is the one the number of those handed out says.                  *)
RoundRobin == pos = handed
=============================================================================
