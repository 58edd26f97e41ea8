---------------------------- MODULE DeviceProofs ----------------------------
(***************************************************************************)
(* Proofs about the streams of CudaContexts and the memory of DeviceMemory, *)
(* for any number of threads, devices, streams and addresses, and whatever  *)
(* calls of the driver fail: the streams of a device are handed out round   *)
(* robin, an address in use is in one buffer, in the allocator's map and on *)
(* its tensors' device, and a tensor reaches no byte outside its buffer.    *)
(***************************************************************************)
EXTENDS DeviceMemory, FiniteSetTheorems, WellFoundedInduction, TLAPS

-----------------------------------------------------------------------------
(* Streams.                                                                 *)

(* A thread that is about to take a stream.                                 *)
Taking(t) == at[t] \in {"push", "get"}

(* A thread that is about to exchange pos would put the position that       *)
(* follows the one it expects there, even after failures.                   *)
NextFollows == \A t \in Threads : Taking(t) => next_pos[t] = Following(cur_pos[t])

(* What the variables are functions of; no more of their types is needed.   *)
Domains ==
  /\ pos = [d \in Devices |-> pos[d]]
  /\ at = [t \in Threads |-> at[t]]
  /\ cur_pos = [t \in Threads |-> cur_pos[t]]
  /\ next_pos = [t \in Threads |-> next_pos[t]]

(* The three together are inductive.                                        *)
Inv == RoundRobin /\ NextFollows /\ Domains

(* At first no thread takes a stream and none was handed out.               *)
LEMMA InitInv ==
  MInit => Inv
BY DEF MInit, CInit, Inv, RoundRobin, NextFollows, Domains, Taking

(* What most steps do: no stream is handed out, and a thread t goes to a    *)
(* place where it does not take one.                                        *)
LEMMA PlainStep ==
  ASSUME Inv, NEW t \in Threads, NEW place, place \notin {"push", "get"},
         at' = at \/ at' = [at EXCEPT ![t] = place],
         UNCHANGED <<pos, handed, cur_pos, next_pos>>
  PROVE  Inv'
<1>1. Domains'
  BY DEF Inv, Domains
<1>2. \A u \in Threads : Taking(u)' => Taking(u)
  BY DEF Inv, Domains, Taking
<1>3. NextFollows'
  BY <1>2 DEF Inv, NextFollows
<1>4. QED
  BY <1>1, <1>3 DEF Inv, RoundRobin

(* A step that reads pos, at the start of a call or after a failure.        *)
LEMMA ReadStep ==
  ASSUME Inv, NEW t \in Threads, NEW d, NEW place,
         at' = at \/ at' = [at EXCEPT ![t] = place],
         cur_pos' = [cur_pos EXCEPT ![t] = pos[d]],
         next_pos' = [next_pos EXCEPT ![t] = Following(pos[d])],
         UNCHANGED <<pos, handed>>
  PROVE  Inv'
<1>1. Domains'
  BY DEF Inv, Domains
<1>2. cur_pos'[t] = pos[d] /\ next_pos'[t] = Following(pos[d])
  BY DEF Inv, Domains
<1>3. \A u \in Threads : u # t =>
        at'[u] = at[u] /\ cur_pos'[u] = cur_pos[u] /\ next_pos'[u] = next_pos[u]
  BY DEF Inv, Domains
<1>4. \A u \in Threads : Taking(u)' => next_pos'[u] = Following(cur_pos'[u])
  <2>1. ASSUME NEW u \in Threads, u # t, Taking(u)'
        PROVE  next_pos'[u] = Following(cur_pos'[u])
    BY <1>3, <2>1 DEF Inv, NextFollows, Taking
  <2>2. QED
    BY <1>2, <2>1
<1>5. NextFollows'
  BY <1>4 DEF NextFollows, Following
<1>6. QED
  BY <1>1, <1>5 DEF Inv, RoundRobin

(* A stream is handed out: the exchange found what the thread expected, so  *)
(* that what it puts there follows what was there.                          *)
LEMMA ExchangeStep ==
  ASSUME Inv, NEW t \in Threads, NEW place \in {"push", "get"}, NEW after,
         after \notin {"push", "get"}, Exchange(t, place, after)
  PROVE  Inv'
<1>1. Taking(t)
  BY DEF Exchange, Taking
<1>2. next_pos[t] = Following(pos[dev_id[t]])
  BY <1>1 DEF Exchange, Inv, NextFollows
<1>3. pos' = [pos EXCEPT ![dev_id[t]] = Following(pos[dev_id[t]])]
  BY <1>2 DEF Exchange
<1>4. handed' = [handed EXCEPT ![dev_id[t]] = Following(handed[dev_id[t]])]
  BY DEF Exchange
<1>5. pos' = handed'
  BY <1>3, <1>4 DEF Inv, RoundRobin
<1>6. Domains'
  BY <1>3 DEF Exchange, Inv, Domains
<1>7. at' = [at EXCEPT ![t] = after]
  BY DEF Exchange
<1>8. ASSUME NEW u \in Threads, Taking(u)'
      PROVE  next_pos'[u] = Following(cur_pos'[u])
  <2>1. u # t
    BY <1>7, <1>8 DEF Inv, Domains, Taking
  <2>2. at'[u] = at[u] /\ cur_pos'[u] = cur_pos[u] /\ next_pos'[u] = next_pos[u]
    BY <1>7, <2>1 DEF Exchange, Inv, Domains
  <2>3. QED
    BY <1>8, <2>2 DEF Inv, NextFollows, Taking
<1>9. NextFollows'
  BY <1>8 DEF NextFollows, Following
<1>10. QED
  BY <1>5, <1>6, <1>9 DEF Inv, RoundRobin

LEMMA InvStep ==
  ASSUME Inv, [Next]_mvars
  PROVE  Inv'
<1> USE DEF contextVars, takeVars, bufferVars, localVars
<1>1. ASSUME NEW t \in Threads, ContextStep(t) PROVE Inv'
  <2>1. ASSUME NEW d \in Devices, SetDevice(t, d) PROVE Inv'
    BY <2>1, PlainStep DEF SetDevice
  <2>2. ASSUME NEW d \in Devices, PushCreated(t, d) PROVE Inv'
    BY <2>2, ReadStep DEF PushCreated, LoadPos
  <2>3. ASSUME NEW d \in Devices, PopContext(t, d) PROVE Inv'
    BY <2>3, PlainStep DEF PopContext
  <2>4. CASE Pushed(t)
    BY <2>4, ExchangeStep DEF Pushed
  <2>5. CASE ExchangeFailed(t)
    BY <2>5, ReadStep DEF ExchangeFailed, NextAfterFailure
  <2>6. QED
    BY <1>1, <2>1, <2>2, <2>3, <2>4, <2>5 DEF ContextStep
<1>2. ASSUME NEW t \in Threads, TensorStep(t) PROVE Inv'
  <2> DEFINE Still == UNCHANGED <<pos, handed, cur_pos, next_pos>>
             Goes(place) == at' = at \/ at' = [at EXCEPT ![t] = place]
  <2>0. ASSUME NEW place, place \notin {"push", "get"}, Still, Goes(place) PROVE Inv'
    BY <2>0, PlainStep
  <2>a. ASSUME Still, at' = at PROVE Inv'
    <3>1. Goes("idle") /\ "idle" \notin {"push", "get"}
      BY <2>a
    <3>2. QED
      BY <2>0, <2>a, <3>1
  <2>1. CASE GetContext(t)
    BY <2>1, ReadStep DEF GetContext, LoadPos
  <2>2. CASE Got(t)
    BY <2>2, ExchangeStep DEF Got
  <2>3. CASE Malloc(t)
    <3>1. Still /\ at' = [at EXCEPT ![t] = "insert"] /\ "insert" \notin {"push", "get"}
      BY <2>3 DEF Malloc
    <3>2. QED
      BY <2>0, <3>1
  <2>4. CASE MallocFails(t)
    BY <2>4, PlainStep DEF MallocFails
  <2>5. ASSUME NEW b, Drops(t, b), Still PROVE Inv'
    <3>1. Goes("delete") \/ Goes("idle")
      BY <2>5 DEF Drops
    <3>2. QED
      BY <2>0, <2>5, <3>1
  <2>6. CASE Insert(t)
    BY <2>5, <2>6 DEF Insert
  <2>7. ASSUME NEW last, StepTaken(t, last), Still PROVE Inv'
    <3>1. Goes("idle") \/ Goes("deleting")
      BY <2>7 DEF StepTaken
    <3>2. QED
      BY <2>0, <2>7, <3>1
  <2>8. CASE RemovePtr(t)
    <3>1. Still /\ \E last : StepTaken(t, last)
      BY <2>8 DEF RemovePtr
    <3>2. QED
      BY <2>7, <3>1
  <2>9. CASE Free(t)
    <3>1. Still /\ \E last : StepTaken(t, last)
      BY <2>9 DEF Free
    <3>2. QED
      BY <2>7, <3>1
  <2>10. ASSUME NEW x, Is(t, x) PROVE Inv'
    <3>1. Still /\ at' = at
      BY <2>10 DEF Is
    <3>2. QED
      BY <2>a, <3>1
  <2>11. ASSUME NEW x, BeginAllocate(t, x) PROVE Inv'
    BY <2>11, PlainStep DEF BeginAllocate
  <2>12. ASSUME NEW made \in Made, Construct(t, made[1], made[2]) PROVE Inv'
    BY <2>10, <2>12 DEF Construct
  <2>13. ASSUME NEW shape \in Reallocates, Reallocate(t, shape) PROVE Inv'
    BY <2>10, <2>11, <2>13 DEF Reallocate
  <2>14. ASSUME NEW shape \in Reshapes, Reshape(t, shape) PROVE Inv'
    <3>1. Still /\ at' = at
      BY <2>14 DEF Reshape
    <3>2. QED
      BY <2>a, <3>1
  <2>15. ASSUME NEW u \in Threads, Move(t, u) PROVE Inv'
    <3>1. Still /\ at' = at
      BY <2>15 DEF Move
    <3>2. QED
      BY <2>a, <3>1
  <2>16. ASSUME NEW u \in Threads, NEW view \in Views, ConstructView(t, u, view) PROVE Inv'
    BY <2>10, <2>16 DEF ConstructView
  <2>17. CASE Data(t)
    BY <2>11, <2>17 DEF Data
  <2>18. CASE Destroy(t)
    BY <2>5, <2>18 DEF Destroy
  <2>19. QED
    BY <1>2, <2>1, <2>2, <2>3, <2>4, <2>6, <2>8, <2>9, <2>12, <2>13, <2>14, <2>15, <2>16, <2>17,
       <2>18 DEF TensorStep
<1>3. CASE UNCHANGED mvars
  BY <1>3 DEF mvars, Inv, RoundRobin, NextFollows, Domains, Taking
<1>4. QED
  BY <1>1, <1>2, <1>3 DEF Next

(* The streams of a device are handed out round robin, however threads that *)
(* take them interleave in CreateCudaContext.                               *)
THEOREM RoundRobinCorrect ==
  Spec => []RoundRobin
<1>1. MInit => Inv
  BY InitInv
<1>2. Inv /\ [Next]_mvars => Inv'
  BY InvStep
<1>3. Inv => RoundRobin
  BY DEF Inv
<1>4. QED
  BY <1>1, <1>2, <1>3, PTL DEF Spec

-----------------------------------------------------------------------------
(* Memory.                                                                  *)

(* Where a thread is in the code.                                           *)
Places == {"idle", "push", "context", "get", "insert", "delete", "deleting"}

(* A buffer of an address, or of none if it has no bytes.                   *)
IsBuffer(b) == b = Buffer(b.ptr, b.size, b.id) /\ b.ptr \in Ptrs \cup {NullPtr}

(* A tensor on a device there is, in a buffer of that device if in any.     *)
IsTensor(x) ==
  /\ x = Tensor(x.id, x.shape, x.stride, x.offset, x.buffer)
  /\ x.id \in Devices
  /\ x.buffer # NoBuffer => IsBuffer(x.buffer) /\ x.buffer.id = x.id

(* The types of what CudaContexts keeps.                                    *)
ContextTypes ==
  /\ pos \in [Devices -> Streams]
  /\ contexts \in [Threads -> [Devices -> Seq([stream : Streams, id : Devices])]]
  /\ device \in [Threads -> Devices]
  /\ at \in [Threads -> Places]
  /\ dev_id \in [Threads -> Devices]
  /\ cur_pos \in [Threads -> Streams] /\ next_pos \in [Threads -> Streams]

(* A stack has contexts of its own device only.                             *)
OwnContexts ==
  \A t \in Threads, d \in Devices : \A i \in DOMAIN contexts[t][d] : contexts[t][d][i].id = d

(* While a thread allocates it works on the device of its tensor, on which  *)
(* it has a context once it has asked for memory.                           *)
Allocating ==
  \A t \in Threads :
    /\ at[t] \in {"context", "get", "insert"} => device[t] = tensor[t].id
    /\ at[t] = "get" => dev_id[t] = device[t]
    /\ at[t] = "insert" => contexts[t][device[t]] # <<>>

(* The types of what DeviceMemory adds.                                     *)
MemoryTypes ==
  /\ ptr_meta = [p \in DOMAIN ptr_meta |-> ptr_meta[p]] /\ DOMAIN ptr_meta \subseteq Ptrs
  /\ allocated \subseteq Ptrs
  /\ tensor = [t \in Threads |-> tensor[t]]
  /\ \A t \in Threads : IsTensor(tensor[t])
  /\ ptr \in [Threads -> Ptrs \cup {NullPtr}]
  /\ old = [t \in Threads |-> old[t]]
  /\ \A t \in Threads :
       at[t] \in {"delete", "deleting"} => IsBuffer(old[t]) /\ old[t].ptr \in Ptrs
  /\ origin_dev_ \in [Threads -> Devices]

(* Who holds an address: tensors, a thread that was given it and has not    *)
(* entered it yet, a thread that deletes a buffer and has not removed it    *)
(* from the map, or has not freed it yet.                                   *)
InTensor(t, p) == tensor[t].buffer # NoBuffer /\ tensor[t].buffer.ptr = p
Given(t, p) == at[t] = "insert" /\ ptr[t] = p
Removing(t, p) == at[t] = "delete" /\ old[t].ptr = p
Freeing(t, p) == at[t] = "deleting" /\ old[t].ptr = p

(* Tensors that share an address share the buffer, and any other holder is  *)
(* the only one.                                                            *)
HeldOnce ==
  \A p \in Ptrs, t, u \in Threads :
    /\ InTensor(t, p) /\ InTensor(u, p) => tensor[t].buffer = tensor[u].buffer
    /\ Given(t, p) \/ Removing(t, p) \/ Freeing(t, p) =>
         /\ ~InTensor(u, p)
         /\ u # t => ~Given(u, p) /\ ~Removing(u, p) /\ ~Freeing(u, p)

(* The map has the addresses of tensors and of buffers about to be deleted, *)
(* each with a context of its device.                                       *)
InMap ==
  \A p \in Ptrs :
    /\ p \in DOMAIN ptr_meta <=> \E t \in Threads : InTensor(t, p) \/ Removing(t, p)
    /\ \A t \in Threads :
         /\ InTensor(t, p) => ptr_meta[p].id = tensor[t].buffer.id
         /\ Removing(t, p) => ptr_meta[p].id = old[t].id

(* Every address that was given out is in the map, on its way there or on   *)
(* its way back.                                                            *)
Accounted ==
  \A p \in Ptrs :
    p \in allocated <=>
      \E t \in Threads : InTensor(t, p) \/ Removing(t, p) \/ Given(t, p) \/ Freeing(t, p)

(* Who holds an address is known.                                           *)
Held == HeldOnce /\ InMap /\ Accounted

(* What is known of the contexts, and of everything.                        *)
ContextInv == ContextTypes /\ OwnContexts /\ Allocating

MemoryInv == ContextInv /\ MemoryTypes /\ Held

-----------------------------------------------------------------------------
(* Contexts.                                                                *)

(* A buffer is never the absent one.                                        *)
LEMMA BufferIsOne ==
  ASSUME NEW p, NEW s, NEW i
  PROVE  Buffer(p, s, i) # NoBuffer
<1>1. DOMAIN Buffer(p, s, i) = {"ptr", "size", "id"}
  BY DEF Buffer
<1>2. DOMAIN NoBuffer = {}
  BY DEF NoBuffer
<1> QED
  BY <1>1, <1>2

(* The position after a stream is a stream.                                 *)
LEMMA Streaming ==
  ASSUME NEW p \in Streams
  PROVE  Following(p) \in Streams
<1>1. StreamsPerDevice \in Nat /\ StreamsPerDevice > 0
  BY ContextsAssumption
<1> QED
  BY <1>1 DEF Following, Streams

(* There is a device, and it has a stream.                                  *)
LEMMA FirstDevice == 0 \in Devices /\ 0 \in Streams
BY ContextsAssumption DEF Devices, Streams

(* A thread begins to take a stream.                                        *)
LEMMA LoadPosContext ==
  ASSUME ContextInv, NEW t \in Threads, NEW d \in Devices, NEW place \in {"push", "get"},
         place = "get" => device[t] = tensor[t].id /\ d = device[t],
         LoadPos(t, d, place), UNCHANGED tensor
  PROVE  ContextInv'
<1> USE DEF ContextInv, ContextTypes, LoadPos
<1>1. pos[d] \in Streams /\ Following(pos[d]) \in Streams
  BY Streaming
<1>2. place \in Places
  BY DEF Places
<1>3. ContextTypes'
  BY <1>1, <1>2
<1>4. OwnContexts'
  BY DEF OwnContexts
<1>5. Allocating'
  BY DEF Allocating
<1> QED
  BY <1>3, <1>4, <1>5

(* A thread takes a stream, or finds that another thread took it.           *)
LEMMA ExchangeContext ==
  ASSUME ContextInv, NEW t \in Threads, NEW place \in {"push", "get"},
         NEW after \in {"idle", "context"}, place = "push" <=> after = "idle",
         Exchange(t, place, after), UNCHANGED tensor
  PROVE  ContextInv'
<1> USE DEF ContextInv, ContextTypes, Exchange
<1> DEFINE d == dev_id[t]
           c == Context(cur_pos[t], d)
           s == contexts[t][d]
           C == [stream : Streams, id : Devices]
<1>1. d \in Devices /\ c \in C /\ c.id = d /\ s \in Seq(C)
  BY DEF Context
<1>2. Append(s, c) \in Seq(C)
  BY <1>1
<1>3. contexts' = [contexts EXCEPT ![t][d] = Append(s, c)]
  OBVIOUS
<1>0. contexts \in [Threads -> [Devices -> Seq(C)]]
  OBVIOUS
<1> HIDE DEF c, s, C
<1>4. contexts' \in [Threads -> [Devices -> Seq(C)]]
  <2> HIDE DEF ContextInv, ContextTypes, Exchange, d
  <2> QED
    BY <1>0, <1>1, <1>2, <1>3
<1>5. after \in Places
  BY DEF Places
<1>6. ContextTypes'
  BY <1>4, <1>5, FirstDevice DEF C
<1>7. contexts'[t][d] = Append(s, c)
  BY <1>1, <1>3
<1>8. ASSUME NEW u \in Threads, NEW e \in Devices, <<u, e>> # <<t, d>>
      PROVE  contexts'[u][e] = contexts[u][e]
  BY <1>3, <1>8, <1>1
<1>9. \A i \in DOMAIN Append(s, c) : Append(s, c)[i].id = d
  BY <1>1 DEF OwnContexts, s
<1>10. OwnContexts'
  <2> SUFFICES ASSUME NEW u \in Threads, NEW e \in Devices, NEW i \in DOMAIN contexts'[u][e]
               PROVE  contexts'[u][e][i].id = e
    BY DEF OwnContexts
  <2>1. CASE <<u, e>> = <<t, d>>
    BY <2>1, <1>7, <1>9
  <2>2. CASE <<u, e>> # <<t, d>>
    BY <2>2, <1>8 DEF OwnContexts
  <2> QED
    BY <2>1, <2>2
<1>11. \A u \in Threads : at'[u] = "insert" => u # t /\ at[u] = "insert"
  OBVIOUS
<1>12. \A u \in Threads : u # t => contexts'[u] = contexts[u]
  BY <1>3
<1>13. Allocating'
  BY <1>11, <1>12 DEF Allocating
<1> QED
  BY <1>6, <1>10, <1>13

(* A thread is refused a device or a stream by the driver.                  *)
LEMMA FailedContext ==
  ASSUME ContextInv, NEW t \in Threads, ExchangeFailed(t), UNCHANGED tensor
  PROVE  ContextInv'
<1> USE DEF ContextInv, ContextTypes, ExchangeFailed
<1>1. pos[dev_id[t]] \in Streams /\ NextAfterFailure(t) \in Streams
  BY Streaming DEF NextAfterFailure
<1>2. ContextTypes'
  BY <1>1
<1>3. OwnContexts'
  BY DEF OwnContexts
<1>4. Allocating'
  BY DEF Allocating
<1> QED
  BY <1>2, <1>3, <1>4

(* All but the last element of a sequence.                                  *)
LEMMA FrontOf ==
  ASSUME NEW S, NEW s \in Seq(S), s # <<>>
  PROVE  /\ Front(s) \in Seq(S)
         /\ \A i \in DOMAIN Front(s) : i \in DOMAIN s /\ Front(s)[i] = s[i]
<1>1. Len(s) \in Nat \ {0} /\ DOMAIN s = 1 .. Len(s) /\ \A i \in DOMAIN s : s[i] \in S
  OBVIOUS
<1>2. Front(s) = [i \in 1 .. Len(s) - 1 |-> s[i]]
  BY DEF Front
<1>3. Len(s) - 1 \in Nat /\ \A i \in 1 .. Len(s) - 1 : i \in DOMAIN s /\ s[i] \in S
  BY <1>1
<1> QED
  BY <1>2, <1>3

(* A context is popped off the stack of its device.                         *)
LEMMA PopContextInv ==
  ASSUME ContextInv, NEW t \in Threads, NEW d \in Devices, PopContext(t, d), UNCHANGED tensor
  PROVE  ContextInv'
<1> USE DEF ContextInv, ContextTypes, PopContext, takeVars
<1> DEFINE s == contexts[t][d]
           C == [stream : Streams, id : Devices]
<1>1. s \in Seq(C) /\ s # <<>>
  OBVIOUS
<1>2. Front(s) \in Seq(C) /\ \A i \in DOMAIN Front(s) : i \in DOMAIN s /\ Front(s)[i] = s[i]
  BY <1>1, FrontOf
<1>6. contexts' = [contexts EXCEPT ![t][d] = Front(s)]
  OBVIOUS
<1>0. contexts \in [Threads -> [Devices -> Seq(C)]]
  OBVIOUS
<1> HIDE DEF s, C
<1>7. contexts' \in [Threads -> [Devices -> Seq(C)]]
  <2> HIDE DEF ContextInv, ContextTypes, PopContext
  <2> QED
    BY <1>0, <1>2, <1>6
<1>8. ContextTypes'
  BY <1>7 DEF C
<1>9. contexts'[t][d] = Front(s)
  BY <1>6
<1>10. ASSUME NEW u \in Threads, NEW e \in Devices, <<u, e>> # <<t, d>>
      PROVE  contexts'[u][e] = contexts[u][e]
  BY <1>6, <1>10
<1>11. OwnContexts'
  <2> SUFFICES ASSUME NEW u \in Threads, NEW e \in Devices, NEW i \in DOMAIN contexts'[u][e]
               PROVE  contexts'[u][e][i].id = e
    BY DEF OwnContexts
  <2>1. CASE <<u, e>> = <<t, d>>
    BY <2>1, <1>9, <1>2 DEF OwnContexts, s
  <2>2. CASE <<u, e>> # <<t, d>>
    BY <2>2, <1>10 DEF OwnContexts
  <2> QED
    BY <2>1, <2>2
<1>12. \A u \in Threads : u # t => contexts'[u] = contexts[u]
  BY <1>6
<1>13. Allocating'
  BY <1>12 DEF Allocating
<1> QED
  BY <1>8, <1>11, <1>13

(* A step that takes no stream.                                             *)
LEMMA PlainContext ==
  ASSUME ContextInv, NEW t \in Threads, NEW place \in Places \ {"get"}, NEW d \in Devices,
         at' = [at EXCEPT ![t] = place], device' = [device EXCEPT ![t] = d],
         \A u \in Threads \ {t} : tensor'[u].id = tensor[u].id,
         place \in {"context", "insert"} => d = tensor'[t].id,
         place = "insert" => contexts[t][d] # <<>>,
         UNCHANGED <<pos, contexts, takeVars>>
  PROVE  ContextInv'
<1> USE DEF ContextInv, ContextTypes, takeVars
<1>1. ContextTypes'
  OBVIOUS
<1>2. OwnContexts'
  BY DEF OwnContexts
<1>3. Allocating'
  BY DEF Allocating
<1> QED
  BY <1>1, <1>2, <1>3

(* The top context of a stack is one of its device.                         *)
LEMMA TopContext ==
  ASSUME ContextInv, NEW t \in Threads, contexts[t][device[t]] # <<>>
  PROVE  MyContext(t).id = device[t]
<1> DEFINE s == contexts[t][device[t]]
           C == [stream : Streams, id : Devices]
<1>1. device[t] \in Devices /\ s \in Seq(C) /\ s # <<>>
  BY DEF ContextInv, ContextTypes
<1>2. Len(s) \in DOMAIN s
  BY <1>1
<1>3. s[Len(s)].id = device[t]
  BY <1>1, <1>2 DEF ContextInv, OwnContexts
<1> QED
  BY <1>3 DEF MyContext, Last

-----------------------------------------------------------------------------
(* Who holds an address.                                                    *)

(* Where a thread in a call may hold an address.                            *)
Holding(place) == place \in {"insert", "delete", "deleting"}

(* A step that leaves the buffers that tensors are in, whichever tensor is  *)
(* in which, while nobody else comes to hold an address or ceases to.       *)
LEMMA HeldStays ==
  ASSUME Held, UNCHANGED <<bufferVars, ptr, old>>,
         \A u \in Threads : tensor'[u].buffer # NoBuffer =>
                            \E v \in Threads : tensor[v].buffer = tensor'[u].buffer,
         \A u \in Threads : tensor[u].buffer # NoBuffer =>
                            \E v \in Threads : tensor'[v].buffer = tensor[u].buffer,
         \A u \in Threads : at'[u] = at[u] \/ (~Holding(at[u]) /\ ~Holding(at'[u]))
  PROVE  Held'
<1> USE DEF bufferVars, Holding
<1>1. \A t \in Threads, p \in Ptrs :
        /\ Given(t, p)' <=> Given(t, p)
        /\ Removing(t, p)' <=> Removing(t, p)
        /\ Freeing(t, p)' <=> Freeing(t, p)
  BY DEF Given, Removing, Freeing
<1>2. \A u \in Threads, p \in Ptrs : InTensor(u, p)' =>
        \E v \in Threads : InTensor(v, p) /\ tensor'[u].buffer = tensor[v].buffer
  BY DEF InTensor
<1>3. \A u \in Threads, p \in Ptrs : InTensor(u, p) => \E v \in Threads : InTensor(v, p)'
  BY DEF InTensor
<1>4. HeldOnce'
  <2> SUFFICES ASSUME NEW p \in Ptrs, NEW t \in Threads, NEW u \in Threads
               PROVE  /\ InTensor(t, p)' /\ InTensor(u, p)' => tensor'[t].buffer = tensor'[u].buffer
                      /\ Given(t, p)' \/ Removing(t, p)' \/ Freeing(t, p)' =>
                           /\ ~InTensor(u, p)'
                           /\ u # t => ~Given(u, p)' /\ ~Removing(u, p)' /\ ~Freeing(u, p)'
    BY DEF HeldOnce
  <2>1. ASSUME InTensor(t, p)', InTensor(u, p)' PROVE tensor'[t].buffer = tensor'[u].buffer
    BY <2>1, <1>2 DEF Held, HeldOnce
  <2>2. ASSUME Given(t, p)' \/ Removing(t, p)' \/ Freeing(t, p)'
        PROVE  ~InTensor(u, p)'
    BY <2>2, <1>1, <1>2 DEF Held, HeldOnce
  <2> QED
    BY <1>1, <2>1, <2>2 DEF Held, HeldOnce
<1>5. \A p \in Ptrs : (\E t \in Threads : InTensor(t, p)' \/ Removing(t, p)') <=>
                      \E t \in Threads : InTensor(t, p) \/ Removing(t, p)
  BY <1>1, <1>2, <1>3
<1>6. InMap'
  <2>1. ASSUME NEW p \in Ptrs, NEW t \in Threads, InTensor(t, p)'
        PROVE  ptr_meta'[p].id = tensor'[t].buffer.id
    BY <2>1, <1>2 DEF Held, InMap
  <2>2. ASSUME NEW p \in Ptrs, NEW t \in Threads, Removing(t, p)'
        PROVE  ptr_meta'[p].id = old'[t].id
    BY <2>2, <1>1 DEF Held, InMap
  <2> QED
    BY <1>5, <2>1, <2>2 DEF Held, InMap
<1>7. Accounted'
  <2>1. \A p \in Ptrs :
          (\E t \in Threads : InTensor(t, p)' \/ Removing(t, p)' \/ Given(t, p)' \/ Freeing(t, p)') <=>
            \E t \in Threads : InTensor(t, p) \/ Removing(t, p) \/ Given(t, p) \/ Freeing(t, p)
    BY <1>1, <1>5
  <2> QED
    BY <2>1 DEF Held, Accounted
<1> QED
  BY <1>4, <1>6, <1>7 DEF Held

(* What a step of thread t does to the holders of an address, all others    *)
(* keeping what they hold.                                                  *)
OthersHold(t) ==
  \A u \in Threads \ {t} :
    /\ tensor'[u].buffer = tensor[u].buffer
    /\ at'[u] = at[u] /\ ptr'[u] = ptr[u] /\ old'[u] = old[u]

(* The others hold what they held.                                          *)
LEMMA OthersHolders ==
  ASSUME NEW t \in Threads, OthersHold(t), NEW u \in Threads \ {t}, NEW p
  PROVE  /\ InTensor(u, p)' <=> InTensor(u, p)
         /\ Given(u, p)' <=> Given(u, p)
         /\ Removing(u, p)' <=> Removing(u, p)
         /\ Freeing(u, p)' <=> Freeing(u, p)
BY DEF OthersHold, InTensor, Given, Removing, Freeing

(* The driver gives out an address that is not in use.                      *)
LEMMA MallocHeld ==
  ASSUME MemoryInv, NEW t \in Threads, Malloc(t)
  PROVE  Held'
<1> USE DEF MemoryInv, Held
<1>1. tensor' = tensor /\ old' = old /\ ptr_meta' = ptr_meta
      /\ at[t] = "context" /\ at' = [at EXCEPT ![t] = "insert"]
  BY DEF Malloc
<1>2. OthersHold(t)
  BY <1>1 DEF Malloc, OthersHold, ContextInv, ContextTypes, MemoryTypes
<1>3. at'[t] = "insert"
  BY <1>1 DEF ContextInv, ContextTypes
<1>4. \A p \in Ptrs :
        /\ InTensor(t, p)' <=> InTensor(t, p)
        /\ Given(t, p)' <=> p = ptr'[t]
        /\ ~Removing(t, p) /\ ~Freeing(t, p) /\ ~Given(t, p)
        /\ ~Removing(t, p)' /\ ~Freeing(t, p)'
  BY <1>1, <1>3 DEF InTensor, Given, Removing, Freeing
<1>5. \A p \in Ptrs : p \in allocated' <=> p \in allocated \/ p = ptr'[t]
  BY MemoryAssumption DEF Malloc, MemoryTypes
<1>6. \A p \in Ptrs : p = ptr'[t] => p \notin allocated
  BY MemoryAssumption DEF Malloc, MemoryTypes
<1>7. \A p \in Ptrs, u \in Threads :
        p = ptr'[t] => ~InTensor(u, p) /\ ~Given(u, p) /\ ~Removing(u, p) /\ ~Freeing(u, p)
  BY <1>6 DEF Accounted
<1>8. HeldOnce'
  <2> SUFFICES ASSUME NEW p \in Ptrs, NEW u \in Threads, NEW v \in Threads
               PROVE  /\ InTensor(u, p)' /\ InTensor(v, p)' => tensor'[u].buffer = tensor'[v].buffer
                      /\ Given(u, p)' \/ Removing(u, p)' \/ Freeing(u, p)' =>
                           /\ ~InTensor(v, p)'
                           /\ v # u => ~Given(v, p)' /\ ~Removing(v, p)' /\ ~Freeing(v, p)'
    BY DEF HeldOnce
  <2> QED
    BY <1>1, <1>2, <1>4, <1>7, OthersHolders DEF HeldOnce
<1>9. InMap'
  BY <1>1, <1>2, <1>4, OthersHolders DEF InMap
<1>10. Accounted'
  <2> SUFFICES ASSUME NEW p \in Ptrs
               PROVE  p \in allocated' <=>
                        \E u \in Threads : InTensor(u, p)' \/ Removing(u, p)' \/ Given(u, p)' \/ Freeing(u, p)'
    BY DEF Accounted
  <2> QED
    BY <1>2, <1>4, <1>5, OthersHolders DEF Accounted
<1> QED
  BY <1>8, <1>9, <1>10

(* The deleter's first step: the address leaves the map.                    *)
LEMMA RemoveHeld ==
  ASSUME MemoryInv, NEW t \in Threads, RemovePtr(t)
  PROVE  /\ Held'
         /\ at[t] = "delete" /\ at' = [at EXCEPT ![t] = "deleting"] /\ old' = old
<1> USE DEF MemoryInv, Held
<1> DEFINE q == old[t].ptr
<1>1. at[t] = "delete"
  BY DEF RemovePtr, At, DeleterSteps
<1>2. q \in Ptrs /\ Removing(t, q) /\ q \in DOMAIN ptr_meta
  BY <1>1 DEF MemoryTypes, Removing, InMap
<1>3. StepTaken(t, FALSE) /\ ptr_meta' = [p \in DOMAIN ptr_meta \ {q} |-> ptr_meta[p]]
  BY <1>1, <1>2 DEF RemovePtr
<1>4. at' = [at EXCEPT ![t] = "deleting"] /\ old' = old
  BY <1>3 DEF StepTaken, MemoryTypes
<1>5. tensor' = tensor /\ ptr' = ptr /\ allocated' = allocated
  BY DEF RemovePtr
<1>6. OthersHold(t) /\ at'[t] = "deleting"
  BY <1>4, <1>5 DEF OthersHold, ContextInv, ContextTypes
<1>7. \A p \in Ptrs :
        /\ InTensor(t, p)' <=> InTensor(t, p)
        /\ Removing(t, p) <=> p = q
        /\ Freeing(t, p)' <=> p = q
        /\ ~Given(t, p) /\ ~Freeing(t, p)
        /\ ~Given(t, p)' /\ ~Removing(t, p)'
  BY <1>1, <1>4, <1>5, <1>6 DEF InTensor, Given, Removing, Freeing
<1>8. \A u \in Threads :
        ~InTensor(u, q) /\ (u # t => ~Given(u, q) /\ ~Removing(u, q) /\ ~Freeing(u, q))
  BY <1>2 DEF HeldOnce
<1> HIDE DEF q
<1>9. HeldOnce'
  <2> SUFFICES ASSUME NEW p \in Ptrs, NEW u \in Threads, NEW v \in Threads
               PROVE  /\ InTensor(u, p)' /\ InTensor(v, p)' => tensor'[u].buffer = tensor'[v].buffer
                      /\ Given(u, p)' \/ Removing(u, p)' \/ Freeing(u, p)' =>
                           /\ ~InTensor(v, p)'
                           /\ v # u => ~Given(v, p)' /\ ~Removing(v, p)' /\ ~Freeing(v, p)'
    BY DEF HeldOnce
  <2> QED
    BY <1>5, <1>6, <1>7, <1>8, OthersHolders DEF HeldOnce
<1>10. \A p \in Ptrs : p \in DOMAIN ptr_meta' <=> p \in DOMAIN ptr_meta /\ p # q
  BY <1>3
<1>11. \A p \in DOMAIN ptr_meta \ {q} : ptr_meta'[p] = ptr_meta[p]
  BY <1>3
<1>12. InMap'
  <2> SUFFICES ASSUME NEW p \in Ptrs
               PROVE  /\ p \in DOMAIN ptr_meta' <=> \E u \in Threads : InTensor(u, p)' \/ Removing(u, p)'
                      /\ \A u \in Threads :
                           /\ InTensor(u, p)' => ptr_meta'[p].id = tensor'[u].buffer.id
                           /\ Removing(u, p)' => ptr_meta'[p].id = old'[u].id
    BY DEF InMap
  <2>1. \A u \in Threads : InTensor(u, p)' \/ Removing(u, p)' <=> p # q /\ (InTensor(u, p) \/ Removing(u, p))
    BY <1>6, <1>7, <1>8, OthersHolders
  <2>2. p \in DOMAIN ptr_meta <=> \E u \in Threads : InTensor(u, p) \/ Removing(u, p)
    BY DEF InMap
  <2>3. p \in DOMAIN ptr_meta' <=> \E u \in Threads : InTensor(u, p)' \/ Removing(u, p)'
    BY <1>10, <2>1, <2>2
  <2>4. ASSUME NEW u \in Threads, InTensor(u, p)'
        PROVE  ptr_meta'[p].id = tensor'[u].buffer.id
    <3>1. p # q /\ InTensor(u, p)
      BY <2>4, <1>6, <1>7, <1>8, OthersHolders
    <3> QED
      BY <3>1, <1>11, <2>2, <1>5 DEF InMap
  <2>5. ASSUME NEW u \in Threads, Removing(u, p)'
        PROVE  ptr_meta'[p].id = old'[u].id
    <3>1. p # q /\ Removing(u, p)
      BY <2>5, <1>6, <1>7, <1>8, OthersHolders
    <3> QED
      BY <3>1, <1>11, <2>2, <1>4 DEF InMap
  <2> QED
    BY <2>3, <2>4, <2>5
<1>13. Accounted'
  BY <1>5, <1>6, <1>7, OthersHolders DEF Accounted
<1> QED
  BY <1>1, <1>4, <1>9, <1>12, <1>13

(* The deleter's second step: the address is free again.                    *)
LEMMA FreeHeld ==
  ASSUME MemoryInv, NEW t \in Threads, Free(t)
  PROVE  /\ Held'
         /\ at[t] = "deleting" /\ at' = [at EXCEPT ![t] = "idle"]
         /\ old' = [old EXCEPT ![t] = NoBuffer]
<1> USE DEF MemoryInv, Held
<1> DEFINE q == old[t].ptr
<1>1. at[t] = "deleting"
  BY DEF Free, At, DeleterSteps
<1>2. q \in Ptrs /\ Freeing(t, q)
  BY <1>1 DEF MemoryTypes, Freeing
<1>3. StepTaken(t, TRUE) /\ allocated' = allocated \ {q}
  BY <1>1 DEF Free
<1>4. at' = [at EXCEPT ![t] = "idle"] /\ old' = [old EXCEPT ![t] = NoBuffer]
  BY <1>3 DEF StepTaken
<1>5. tensor' = tensor /\ ptr' = ptr /\ ptr_meta' = ptr_meta
  BY DEF Free
<1>6. OthersHold(t) /\ at'[t] = "idle"
  BY <1>4, <1>5 DEF OthersHold, ContextInv, ContextTypes, MemoryTypes
<1>7. \A p \in Ptrs :
        /\ InTensor(t, p)' <=> InTensor(t, p)
        /\ Freeing(t, p) <=> p = q
        /\ ~Given(t, p) /\ ~Removing(t, p)
        /\ ~Given(t, p)' /\ ~Removing(t, p)' /\ ~Freeing(t, p)'
  BY <1>1, <1>4, <1>5, <1>6 DEF InTensor, Given, Removing, Freeing
<1>8. \A u \in Threads :
        ~InTensor(u, q) /\ (u # t => ~Given(u, q) /\ ~Removing(u, q) /\ ~Freeing(u, q))
  BY <1>2 DEF HeldOnce
<1> HIDE DEF q
<1>9. HeldOnce'
  <2> SUFFICES ASSUME NEW p \in Ptrs, NEW u \in Threads, NEW v \in Threads
               PROVE  /\ InTensor(u, p)' /\ InTensor(v, p)' => tensor'[u].buffer = tensor'[v].buffer
                      /\ Given(u, p)' \/ Removing(u, p)' \/ Freeing(u, p)' =>
                           /\ ~InTensor(v, p)'
                           /\ v # u => ~Given(v, p)' /\ ~Removing(v, p)' /\ ~Freeing(v, p)'
    BY DEF HeldOnce
  <2> QED
    BY <1>5, <1>6, <1>7, OthersHolders DEF HeldOnce
<1>10. InMap'
  <2> SUFFICES ASSUME NEW p \in Ptrs
               PROVE  /\ p \in DOMAIN ptr_meta' <=> \E u \in Threads : InTensor(u, p)' \/ Removing(u, p)'
                      /\ \A u \in Threads :
                           /\ InTensor(u, p)' => ptr_meta'[p].id = tensor'[u].buffer.id
                           /\ Removing(u, p)' => ptr_meta'[p].id = old'[u].id
    BY DEF InMap
  <2>1. \A u \in Threads : /\ InTensor(u, p)' <=> InTensor(u, p)
                           /\ Removing(u, p)' <=> Removing(u, p)
    BY <1>6, <1>7, OthersHolders
  <2>2. \A u \in Threads : Removing(u, p) => old'[u] = old[u]
    BY <1>6, <1>7 DEF OthersHold
  <2> QED
    BY <1>5, <2>1, <2>2 DEF InMap
<1>11. Accounted'
  <2> SUFFICES ASSUME NEW p \in Ptrs
               PROVE  p \in allocated' <=>
                        \E u \in Threads : InTensor(u, p)' \/ Removing(u, p)' \/ Given(u, p)' \/ Freeing(u, p)'
    BY DEF Accounted
  <2>1. \A u \in Threads : InTensor(u, p)' \/ Removing(u, p)' \/ Given(u, p)' \/ Freeing(u, p)' <=>
          p # q /\ (InTensor(u, p) \/ Removing(u, p) \/ Given(u, p) \/ Freeing(u, p))
    BY <1>6, <1>7, <1>8, OthersHolders
  <2> QED
    BY <1>3, <2>1 DEF Accounted
<1> QED
  BY <1>1, <1>4, <1>9, <1>10, <1>11

-----------------------------------------------------------------------------
(* A thread's tensor leaves its buffer, for one with the address it was     *)
(* given, if any; the buffer is about to be deleted if no other tensor is   *)
(* in it.                                                                   *)
LEMMA DropsHeld ==
  ASSUME MemoryInv, NEW t \in Threads, Drops(t, tensor[t].buffer),
         at[t] \in {"idle", "insert"}, allocated' = allocated,
         \A u \in Threads \ {t} : tensor'[u] = tensor[u] /\ ptr'[u] = ptr[u],
         \A p \in Ptrs : InTensor(t, p)' <=> Given(t, p),
         \A p \in Ptrs : p \in DOMAIN ptr_meta' <=> p \in DOMAIN ptr_meta \/ Given(t, p),
         \A p \in DOMAIN ptr_meta : ptr_meta'[p] = ptr_meta[p],
         \A p \in Ptrs : Given(t, p) => ptr_meta'[p].id = tensor'[t].buffer.id
  PROVE  /\ Held'
         /\ \E place \in {"idle", "delete"} : at' = [at EXCEPT ![t] = place]
         /\ \E o : old' = [old EXCEPT ![t] = o]
         /\ at'[t] = "delete" => IsBuffer(old'[t]) /\ old'[t].ptr \in Ptrs
<1> USE DEF MemoryInv, Held
<1> DEFINE b == tensor[t].buffer
           last == b # NoBuffer /\ SharedBy(t, b) = {} /\ b.ptr # NullPtr
<1>1. old' = [old EXCEPT ![t] = IF last THEN b ELSE NoBuffer]
      /\ at' = [at EXCEPT ![t] = IF last THEN "delete" ELSE "idle"]
  BY DEF Drops
<1>2. OthersHold(t)
  BY <1>1 DEF OthersHold, ContextInv, ContextTypes, MemoryTypes
<1>3. at'[t] = IF last THEN "delete" ELSE "idle"
  BY <1>1 DEF ContextInv, ContextTypes
<1>4. old'[t] = IF last THEN b ELSE NoBuffer
  BY <1>1 DEF MemoryTypes
<1>5. b # NoBuffer => IsBuffer(b)
  BY DEF MemoryTypes, IsTensor
<1>6. last => IsBuffer(b) /\ b.ptr \in Ptrs
  BY <1>5 DEF IsBuffer
<1>7. \A p \in Ptrs : InTensor(t, p) /\ (\A u \in Threads \ {t} : ~InTensor(u, p)) => last
  BY MemoryAssumption DEF InTensor, SharedBy
<1>8. \A p \in Ptrs, u \in Threads \ {t} : InTensor(t, p) /\ InTensor(u, p) => ~last
  BY DEF HeldOnce, SharedBy
<1>9. \A p \in Ptrs : Removing(t, p)' <=> last /\ InTensor(t, p)
  BY <1>3, <1>4 DEF Removing, InTensor
<1>10. \A p \in Ptrs : Removing(t, p)' => old'[t].id = tensor[t].buffer.id
  BY <1>4, <1>9
<1> HIDE DEF last, b
<1>11. \A p \in Ptrs :
        /\ ~Given(t, p)' /\ ~Freeing(t, p)'
        /\ ~Removing(t, p) /\ ~Freeing(t, p)
        /\ Removing(t, p)' <=> InTensor(t, p) /\ \A u \in Threads \ {t} : ~InTensor(u, p)
        /\ InTensor(t, p)' <=> Given(t, p)
  BY <1>3, <1>7, <1>8, <1>9 DEF Given, Freeing, Removing
<1>12. \A p \in Ptrs, u \in Threads \ {t} :
         /\ InTensor(u, p)' <=> InTensor(u, p)
         /\ Given(u, p)' <=> Given(u, p)
         /\ Removing(u, p)' <=> Removing(u, p)
         /\ Freeing(u, p)' <=> Freeing(u, p)
         /\ tensor'[u].buffer = tensor[u].buffer /\ old'[u] = old[u]
  BY <1>2, OthersHolders DEF OthersHold
<1>13. HeldOnce'
  <2> SUFFICES ASSUME NEW p \in Ptrs, NEW u \in Threads, NEW v \in Threads
               PROVE  /\ InTensor(u, p)' /\ InTensor(v, p)' => tensor'[u].buffer = tensor'[v].buffer
                      /\ Given(u, p)' \/ Removing(u, p)' \/ Freeing(u, p)' =>
                           /\ ~InTensor(v, p)'
                           /\ v # u => ~Given(v, p)' /\ ~Removing(v, p)' /\ ~Freeing(v, p)'
    BY DEF HeldOnce
  <2>1. InTensor(u, p) /\ InTensor(v, p) => tensor[u].buffer = tensor[v].buffer
    BY DEF HeldOnce
  <2>2. Given(u, p) \/ Removing(u, p) \/ Freeing(u, p) =>
          /\ ~InTensor(v, p)
          /\ v # u => ~Given(v, p) /\ ~Removing(v, p) /\ ~Freeing(v, p)
    BY DEF HeldOnce
  <2>3. Given(v, p) \/ Removing(v, p) \/ Freeing(v, p) =>
          /\ ~InTensor(u, p)
          /\ v # u => ~Given(u, p) /\ ~Removing(u, p) /\ ~Freeing(u, p)
    BY DEF HeldOnce
  <2>4. InTensor(t, p) =>
          ~Given(u, p) /\ ~Removing(u, p) /\ ~Freeing(u, p) /\ ~Given(v, p) /\ ~Removing(v, p) /\ ~Freeing(v, p)
    BY DEF HeldOnce
  <2>5. CASE u = t /\ v = t
    BY <2>5, <2>4, <1>11
  <2>6. CASE u = t /\ v # t
    BY <2>6, <2>1, <2>2, <2>3, <2>4, <1>11, <1>12
  <2>7. CASE u # t /\ v = t
    BY <2>7, <2>1, <2>2, <2>3, <2>4, <1>11, <1>12
  <2>8. CASE u # t /\ v # t
    BY <2>8, <2>1, <2>2, <2>3, <1>11, <1>12
  <2> QED
    BY <2>5, <2>6, <2>7, <2>8
<1>14. ASSUME NEW p \in Ptrs
       PROVE  (\E u \in Threads : InTensor(u, p)' \/ Removing(u, p)') <=>
                 Given(t, p) \/ \E u \in Threads : InTensor(u, p) \/ Removing(u, p)
  <2>1. ASSUME NEW u \in Threads, InTensor(u, p)' \/ Removing(u, p)'
        PROVE  Given(t, p) \/ \E v \in Threads : InTensor(v, p) \/ Removing(v, p)
    BY <2>1, <1>11, <1>12
  <2>2. Given(t, p) => InTensor(t, p)'
    BY <1>11
  <2>3. ASSUME NEW u \in Threads \ {t}, InTensor(u, p) \/ Removing(u, p)
        PROVE  InTensor(u, p)' \/ Removing(u, p)'
    BY <2>3, <1>12
  <2>4. ASSUME InTensor(t, p) \/ Removing(t, p)
        PROVE  \E u \in Threads : InTensor(u, p)' \/ Removing(u, p)'
    BY <2>4, <1>11, <1>12
  <2> QED
    BY <2>1, <2>2, <2>3, <2>4
<1>15. InMap'
  <2> SUFFICES ASSUME NEW p \in Ptrs
               PROVE  /\ p \in DOMAIN ptr_meta' <=> \E u \in Threads : InTensor(u, p)' \/ Removing(u, p)'
                      /\ \A u \in Threads :
                           /\ InTensor(u, p)' => ptr_meta'[p].id = tensor'[u].buffer.id
                           /\ Removing(u, p)' => ptr_meta'[p].id = old'[u].id
    BY DEF InMap
  <2>1. p \in DOMAIN ptr_meta' <=> \E u \in Threads : InTensor(u, p)' \/ Removing(u, p)'
    BY <1>14 DEF InMap
  <2>2. \A u \in Threads : InTensor(u, p) \/ Removing(u, p) => ptr_meta'[p] = ptr_meta[p]
    BY DEF InMap
  <2>3. InTensor(t, p)' => ptr_meta'[p].id = tensor'[t].buffer.id
    BY <1>11
  <2>4. Removing(t, p)' => ptr_meta'[p].id = old'[t].id
    BY <1>10, <1>11, <2>2 DEF InMap
  <2>5. ASSUME NEW u \in Threads \ {t}
        PROVE  /\ InTensor(u, p)' => ptr_meta'[p].id = tensor'[u].buffer.id
               /\ Removing(u, p)' => ptr_meta'[p].id = old'[u].id
    BY <1>12, <2>2 DEF InMap
  <2> QED
    BY <2>1, <2>3, <2>4, <2>5
<1>16. Accounted'
  <2> SUFFICES ASSUME NEW p \in Ptrs
               PROVE  p \in allocated' <=>
                        \E u \in Threads : InTensor(u, p)' \/ Removing(u, p)' \/ Given(u, p)' \/ Freeing(u, p)'
    BY DEF Accounted
  <2>1. (\E u \in Threads : Given(u, p)' \/ Freeing(u, p)') <=>
          \E u \in Threads \ {t} : Given(u, p) \/ Freeing(u, p)
    BY <1>11, <1>12
  <2>2. (\E u \in Threads : InTensor(u, p) \/ Removing(u, p) \/ Given(u, p) \/ Freeing(u, p)) <=>
          \/ \E u \in Threads : InTensor(u, p) \/ Removing(u, p)
          \/ Given(t, p)
          \/ \E u \in Threads \ {t} : Given(u, p) \/ Freeing(u, p)
    BY <1>11
  <2> QED
    BY <1>14, <2>1, <2>2 DEF Accounted
<1>17. at' = [at EXCEPT ![t] = "delete"] \/ at' = [at EXCEPT ![t] = "idle"]
  BY <1>1
<1>18. (at'[t] = "delete") => last
  BY <1>3
<1>19. at'[t] = "delete" => IsBuffer(old'[t]) /\ old'[t].ptr \in Ptrs
  BY <1>18, <1>4, <1>6 DEF b
<1>20. \E o : old' = [old EXCEPT ![t] = o]
  BY <1>1
<1> QED
  BY <1>13, <1>15, <1>16, <1>17, <1>19, <1>20

(* A tensor is dropped.                                                     *)
LEMMA DestroyHeld ==
  ASSUME MemoryInv, NEW t \in Threads, Destroy(t)
  PROVE  /\ Held'
         /\ \E place \in {"idle", "delete"} : at' = [at EXCEPT ![t] = place]
         /\ \E o : old' = [old EXCEPT ![t] = o]
         /\ at'[t] = "delete" => IsBuffer(old'[t]) /\ old'[t].ptr \in Ptrs
<1>1. at[t] = "idle" /\ tensor' = [tensor EXCEPT ![t] = Moved] /\ ptr' = ptr
      /\ ptr_meta' = ptr_meta /\ allocated' = allocated /\ Drops(t, tensor[t].buffer)
  BY DEF Destroy, Idle, bufferVars
<1>2. tensor'[t].buffer = NoBuffer
  BY <1>1 DEF MemoryInv, MemoryTypes, Moved, Tensor
<1>3. \A p \in Ptrs : ~InTensor(t, p)' /\ ~Given(t, p)
  BY <1>1, <1>2 DEF InTensor, Given
<1>4. \A u \in Threads \ {t} : tensor'[u] = tensor[u]
  BY <1>1 DEF MemoryInv, MemoryTypes
<1> QED
  BY <1>1, <1>3, <1>4, DropsHeld

(* The address that was given out goes into the map and into the tensor.    *)
LEMMA InsertHeld ==
  ASSUME MemoryInv, NEW t \in Threads, Insert(t)
  PROVE  /\ Held'
         /\ \E place \in {"idle", "delete"} : at' = [at EXCEPT ![t] = place]
         /\ \E o : old' = [old EXCEPT ![t] = o]
         /\ at'[t] = "delete" => IsBuffer(old'[t]) /\ old'[t].ptr \in Ptrs
         /\ tensor' = [u \in Threads |-> tensor'[u]]
         /\ \A u \in Threads \ {t} : tensor'[u] = tensor[u]
         /\ IsTensor(tensor'[t]) /\ tensor'[t].id = tensor[t].id
         /\ ptr_meta' = [p \in DOMAIN ptr_meta' |-> ptr_meta'[p]] /\ DOMAIN ptr_meta' \subseteq Ptrs
<1> USE DEF MemoryInv
<1> DEFINE c == MyContext(t)
           x == tensor[t]
           q == ptr[t]
           s == BytesOf(x)
<1>1. at[t] = "insert" /\ allocated' = allocated /\ Drops(t, x.buffer)
      /\ ptr_meta' = Inserted(q, c) /\ ptr' = [ptr EXCEPT ![t] = NullPtr]
  BY DEF Insert
<1>2. tensor' = [tensor EXCEPT ![t] = [x EXCEPT !.offset = 0, !.buffer = Buffer(q, s, c.id)]]
  BY DEF Insert
<1>3. c.id = device[t] /\ device[t] = x.id
  BY <1>1, TopContext DEF ContextInv, Allocating
<1>4. IsTensor(x) /\ q \in Ptrs \cup {NullPtr}
  BY DEF MemoryTypes
<1> HIDE DEF c, s
<1>5. tensor'[t] = Tensor(x.id, x.shape, x.stride, 0, Buffer(q, s, c.id))
  BY <1>2, <1>4 DEF MemoryTypes, IsTensor, Tensor
<1>6. tensor'[t].id = x.id /\ tensor'[t].buffer = Buffer(q, s, c.id)
  BY <1>5 DEF Tensor
<1>7. tensor'[t].buffer.ptr = q /\ tensor'[t].buffer.id = x.id /\ IsBuffer(tensor'[t].buffer)
  BY <1>3, <1>4, <1>6 DEF Buffer, IsBuffer
<1>8. IsTensor(tensor'[t])
  BY <1>4, <1>5, <1>6, <1>7 DEF IsTensor, Tensor
<1>9. tensor' = [u \in Threads |-> tensor'[u]] /\ \A u \in Threads \ {t} : tensor'[u] = tensor[u]
  BY <1>2 DEF MemoryTypes
<1>10. \A p \in Ptrs : (InTensor(t, p)' <=> Given(t, p)) /\ (Given(t, p) <=> p = q)
  BY <1>1, <1>6, <1>7, BufferIsOne DEF InTensor, Given
<1>11. q \in Ptrs => q \notin DOMAIN ptr_meta
  <2> SUFFICES ASSUME q \in Ptrs PROVE \A u \in Threads : ~InTensor(u, q) /\ ~Removing(u, q)
    BY DEF Held, InMap
  <2>1. Given(t, q) /\ ~Removing(t, q)
    BY <1>1 DEF Given, Removing
  <2> QED
    BY <2>1 DEF Held, HeldOnce
<1>12. CASE q = NullPtr
  <2>1. ptr_meta' = ptr_meta
    BY <1>1, <1>12 DEF Inserted
  <2>2. \A p \in Ptrs : ~Given(t, p)
    BY <1>10, <1>12, MemoryAssumption
  <2>3. /\ \A p \in Ptrs : p \in DOMAIN ptr_meta' <=> p \in DOMAIN ptr_meta \/ Given(t, p)
        /\ \A p \in DOMAIN ptr_meta : ptr_meta'[p] = ptr_meta[p]
        /\ \A p \in Ptrs : Given(t, p) => ptr_meta'[p].id = tensor'[t].buffer.id
        /\ ptr_meta' = [p \in DOMAIN ptr_meta' |-> ptr_meta'[p]] /\ DOMAIN ptr_meta' \subseteq Ptrs
    BY <2>1, <2>2 DEF MemoryTypes
  <2>4. \A u \in Threads \ {t} : ptr'[u] = ptr[u]
    BY <1>1 DEF MemoryTypes
  <2> QED
    BY <1>1, <1>6, <1>8, <1>9, <1>10, <2>3, <2>4, DropsHeld
<1>13. CASE q # NullPtr
  <2>1. q \in Ptrs /\ q \notin DOMAIN ptr_meta
    BY <1>4, <1>11, <1>13
  <2>3. ptr_meta' = [p \in {q} \cup DOMAIN ptr_meta |-> IF p = q THEN c ELSE ptr_meta[p]]
    BY <1>1, <1>13, <2>1 DEF Inserted
  <2>4. /\ \A p \in Ptrs : p \in DOMAIN ptr_meta' <=> p \in DOMAIN ptr_meta \/ Given(t, p)
        /\ \A p \in DOMAIN ptr_meta : ptr_meta'[p] = ptr_meta[p]
        /\ \A p \in Ptrs : Given(t, p) => ptr_meta'[p].id = tensor'[t].buffer.id
        /\ ptr_meta' = [p \in DOMAIN ptr_meta' |-> ptr_meta'[p]] /\ DOMAIN ptr_meta' \subseteq Ptrs
    BY <1>3, <1>7, <1>10, <2>1, <2>3 DEF MemoryTypes
  <2>5. \A u \in Threads \ {t} : ptr'[u] = ptr[u]
    BY <1>1 DEF MemoryTypes
  <2> QED
    BY <1>1, <1>6, <1>8, <1>9, <1>10, <2>4, <2>5, DropsHeld
<1> QED
  BY <1>12, <1>13

-----------------------------------------------------------------------------
(* The steps.                                                               *)

(* A tensor with another shape is on the same device in the same buffer.    *)
LEMMA ShapedTensor ==
  ASSUME NEW x, IsTensor(x), NEW shape
  PROVE  /\ IsTensor(Shaped(x, shape))
         /\ Shaped(x, shape).id = x.id /\ Shaped(x, shape).buffer = x.buffer
         /\ Shaped(x, shape).shape = shape /\ Shaped(x, shape).stride = shape_to_stride(shape)
         /\ Shaped(x, shape).offset = x.offset
<1> DEFINE y == Shaped(x, shape)
<1>1. y = Tensor(x.id, shape, shape_to_stride(shape), x.offset, x.buffer)
  <2>1. ASSUME NEW i, NEW s, NEW st, NEW o, NEW b
        PROVE  Shaped(Tensor(i, s, st, o, b), shape) = Tensor(i, shape, shape_to_stride(shape), o, b)
    <3>1. ASSUME NEW r
          PROVE  [Tensor(i, s, st, o, b) EXCEPT !.shape = shape, !.stride = r] = Tensor(i, shape, r, o, b)
      <4>1. [Tensor(i, s, st, o, b) EXCEPT !.shape = shape, !.stride = r]
              = [[Tensor(i, s, st, o, b) EXCEPT !.shape = shape] EXCEPT !.stride = r]
        BY Zenon
      <4>2. [Tensor(i, s, st, o, b) EXCEPT !.shape = shape] = Tensor(i, shape, st, o, b)
        BY DEF Tensor
      <4>3. [Tensor(i, shape, st, o, b) EXCEPT !.stride = r] = Tensor(i, shape, r, o, b)
        BY DEF Tensor
      <4> QED
        BY <4>1, <4>2, <4>3, Zenon
    <3> QED
      BY <3>1, Zenon DEF Shaped
  <2>2. Shaped(Tensor(x.id, x.shape, x.stride, x.offset, x.buffer), shape)
          = Tensor(x.id, shape, shape_to_stride(shape), x.offset, x.buffer)
    BY <2>1
  <2> QED
    BY <2>2, Zenon DEF IsTensor
<1> HIDE DEF y
<1>2. y.id = x.id /\ y.buffer = x.buffer /\ y.shape = shape /\ y.stride = shape_to_stride(shape)
      /\ y.offset = x.offset
  BY <1>1 DEF Tensor
<1>3. IsTensor(y)
  BY <1>1, <1>2 DEF IsTensor
<1> QED
  BY <1>2, <1>3 DEF y

(* A tensor that was moved from is in no buffer.                            *)
LEMMA MovedTensor ==
  IsTensor(Moved) /\ Moved.buffer = NoBuffer
BY FirstDevice DEF IsTensor, Moved, Tensor, NoBuffer

(* A thread has one tensor.                                                 *)
LEMMA OneTensor ==
  ASSUME MemoryTypes, NEW t \in Threads, NEW x, IsTensor(x), tensor' = [tensor EXCEPT ![t] = x]
  PROVE  /\ tensor' = [u \in Threads |-> tensor'[u]]
         /\ \A u \in Threads : IsTensor(tensor'[u])
         /\ tensor'[t] = x /\ \A u \in Threads \ {t} : tensor'[u] = tensor[u]
BY DEF MemoryTypes

(* At first no memory is in use.                                            *)
LEMMA InitMemory ==
  MInit => MemoryInv
<1> SUFFICES ASSUME MInit PROVE MemoryInv
  OBVIOUS
<1> USE DEF MInit, CInit
<1>1. ContextTypes
  <2> DEFINE C == [stream : Streams, id : Devices]
  <2>1. <<>> \in Seq(C)
    OBVIOUS
  <2>2. contexts \in [Threads -> [Devices -> Seq(C)]]
    BY <2>1
  <2> QED
    BY <2>2, FirstDevice DEF ContextTypes, Places
<1>2. OwnContexts /\ Allocating
  BY DEF OwnContexts, Allocating
<1>3. \A t \in Threads : IsTensor(tensor[t]) /\ tensor[t].buffer = NoBuffer
  BY MovedTensor
<1>4. MemoryTypes
  BY <1>3, FirstDevice DEF MemoryTypes
<1>5. \A t \in Threads, p \in Ptrs : ~InTensor(t, p) /\ ~Given(t, p) /\ ~Removing(t, p) /\ ~Freeing(t, p)
  BY <1>3 DEF InTensor, Given, Removing, Freeing
<1>6. Held
  BY <1>5 DEF Held, HeldOnce, InMap, Accounted
<1> QED
  BY <1>1, <1>2, <1>4, <1>6 DEF MemoryInv, ContextInv

(* A client's own work on contexts.                                         *)
LEMMA ContextStepMemory ==
  ASSUME MemoryInv, NEW t \in Threads, ContextStep(t), UNCHANGED <<bufferVars, tensor, torn, localVars>>
  PROVE  MemoryInv'
<1>1. UNCHANGED <<bufferVars, ptr, old>> /\ tensor' = tensor /\ origin_dev_' = origin_dev_
  BY DEF localVars
<1>2. ContextInv' /\ \A u \in Threads : at'[u] = at[u] \/ (~Holding(at[u]) /\ ~Holding(at'[u]))
  <2> USE DEF MemoryInv, Holding
  <2>0. at \in [Threads -> Places] /\ device \in [Threads -> Devices]
    BY DEF ContextInv, ContextTypes
  <2>1. ASSUME NEW d \in Devices, SetDevice(t, d)
        PROVE  ContextInv' /\ at' = at
    <3>1. at[t] = "idle" /\ at' = at /\ at' = [at EXCEPT ![t] = "idle"] /\ "idle" \in Places \ {"get"}
          /\ device' = [device EXCEPT ![t] = d] /\ UNCHANGED <<pos, contexts, takeVars>>
      BY <2>0, <2>1 DEF SetDevice, Places
    <3> QED
      BY <1>1, <3>1, PlainContext
  <2>2. ASSUME NEW d \in Devices, PushCreated(t, d)
        PROVE  ContextInv' /\ at[t] = "idle" /\ at' = [at EXCEPT ![t] = "push"]
    BY <1>1, <2>2, LoadPosContext DEF PushCreated, LoadPos
  <2>3. ASSUME NEW d \in Devices, PopContext(t, d)
        PROVE  ContextInv' /\ at' = at
    BY <1>1, <2>3, PopContextInv DEF PopContext
  <2>4. ASSUME Pushed(t)
        PROVE  ContextInv' /\ at[t] = "push" /\ at' = [at EXCEPT ![t] = "idle"]
    BY <1>1, <2>4, ExchangeContext DEF Pushed, Exchange
  <2>5. ASSUME ExchangeFailed(t)
        PROVE  ContextInv' /\ at' = at
    BY <1>1, <2>5, FailedContext DEF ExchangeFailed
  <2> QED
    BY <2>0, <2>1, <2>2, <2>3, <2>4, <2>5 DEF ContextStep
<1>3. Held'
  BY <1>1, <1>2, HeldStays DEF MemoryInv
<1>4. MemoryTypes'
  <2>1. \A u \in Threads : at'[u] \in {"delete", "deleting"} => at[u] \in {"delete", "deleting"}
    BY <1>2 DEF Holding
  <2> QED
    BY <1>1, <2>1 DEF MemoryInv, MemoryTypes, bufferVars
<1> QED
  BY <1>2, <1>3, <1>4 DEF MemoryInv

(* A thread gives its tensor x, on the same device in the same buffer, and  *)
(* begins to allocate.                                                      *)
LEMMA BeginAllocateMemory ==
  ASSUME MemoryInv, NEW t \in Threads, Idle(t), NEW x, IsTensor(x),
         x.id = tensor[t].id, x.buffer = tensor[t].buffer, BeginAllocate(t, x)
  PROVE  MemoryInv'
<1>0. at[t] = "idle" /\ at \in [Threads -> Places] /\ device \in [Threads -> Devices] /\ x.id \in Devices
  BY DEF Idle, MemoryInv, ContextInv, ContextTypes, IsTensor
<1>1. /\ at' = [at EXCEPT ![t] = "context"] /\ device' = [device EXCEPT ![t] = x.id]
      /\ UNCHANGED <<pos, contexts, takeVars>> /\ UNCHANGED <<bufferVars, ptr, old>>
      /\ tensor' = [tensor EXCEPT ![t] = x]
      /\ origin_dev_' = [origin_dev_ EXCEPT ![t] = device[t]]
  BY DEF BeginAllocate
<1>2. /\ tensor' = [u \in Threads |-> tensor'[u]]
      /\ \A u \in Threads : IsTensor(tensor'[u])
      /\ tensor'[t] = x /\ \A u \in Threads \ {t} : tensor'[u] = tensor[u]
  BY <1>1, OneTensor DEF MemoryInv
<1>3. "context" \in Places \ {"get"}
  BY DEF Places
<1>4. ContextInv'
  BY <1>0, <1>1, <1>2, <1>3, PlainContext DEF MemoryInv
<1>5. \A u \in Threads : tensor'[u].buffer = tensor[u].buffer
  BY <1>2
<1>6. \A u \in Threads : at'[u] = at[u] \/ (~Holding(at[u]) /\ ~Holding(at'[u]))
  BY <1>0, <1>1 DEF Holding
<1>7. Held'
  BY <1>1, <1>5, <1>6, HeldStays DEF MemoryInv
<1>8. \A u \in Threads : at'[u] \in {"delete", "deleting"} => at[u] \in {"delete", "deleting"}
  BY <1>6 DEF Holding
<1>9. MemoryTypes'
  BY <1>0, <1>1, <1>2, <1>8 DEF MemoryInv, MemoryTypes, bufferVars
<1> QED
  BY <1>4, <1>7, <1>9 DEF MemoryInv

(* A thread that is in no call changes its tensor, which stays in its       *)
(* buffer or is put into another tensor's.                                  *)
LEMMA TensorChanges ==
  ASSUME MemoryInv, NEW t \in Threads, Idle(t), NEW x, IsTensor(x),
         \/ x.buffer = tensor[t].buffer
         \/ tensor[t].buffer = NoBuffer /\ \E u \in Threads \ {t} : x.buffer = tensor[u].buffer,
         tensor' = [tensor EXCEPT ![t] = x], UNCHANGED <<contextVars, bufferVars, localVars>>
  PROVE  MemoryInv'
<1>0. at[t] = "idle" /\ at \in [Threads -> Places] /\ device \in [Threads -> Devices]
  BY DEF Idle, MemoryInv, ContextInv, ContextTypes
<1>1. /\ UNCHANGED <<pos, contexts, device, at, takeVars>> /\ UNCHANGED <<bufferVars, ptr, old>>
      /\ origin_dev_' = origin_dev_
  BY DEF contextVars, localVars
<1>2. /\ tensor' = [u \in Threads |-> tensor'[u]]
      /\ \A u \in Threads : IsTensor(tensor'[u])
      /\ tensor'[t] = x /\ \A u \in Threads \ {t} : tensor'[u] = tensor[u]
  BY OneTensor DEF MemoryInv
<1>3. "idle" \in Places \ {"get"} /\ at' = [at EXCEPT ![t] = "idle"]
      /\ device' = [device EXCEPT ![t] = device[t]] /\ device[t] \in Devices
  BY <1>0, <1>1 DEF Places
<1>4. ContextInv'
  BY <1>1, <1>2, <1>3, PlainContext DEF MemoryInv
<1>5. Held'
  <2>1. \A u \in Threads : tensor'[u].buffer # NoBuffer =>
                             \E v \in Threads : tensor[v].buffer = tensor'[u].buffer
    BY <1>2
  <2>2. \A u \in Threads : tensor[u].buffer # NoBuffer =>
                             \E v \in Threads : tensor'[v].buffer = tensor[u].buffer
    BY <1>2
  <2> QED
    BY <1>1, <2>1, <2>2, HeldStays DEF MemoryInv
<1>6. MemoryTypes'
  BY <1>1, <1>2 DEF MemoryInv, MemoryTypes, bufferVars
<1> QED
  BY <1>4, <1>5, <1>6 DEF MemoryInv

(* A tensor moves to another thread.                                        *)
LEMMA MoveMemory ==
  ASSUME MemoryInv, NEW t \in Threads, NEW u \in Threads \ {t}, Move(t, u)
  PROVE  MemoryInv'
<1>0. at[t] = "idle" /\ at[u] = "idle"
  BY DEF Move, Idle
<1>1. /\ UNCHANGED <<pos, contexts, device, at, takeVars>> /\ UNCHANGED <<bufferVars, ptr, old>>
      /\ origin_dev_' = origin_dev_
  BY DEF Move, contextVars, localVars
<1>2. /\ tensor' = [v \in Threads |-> tensor'[v]]
      /\ tensor'[t] = tensor[u] /\ tensor'[u] = tensor[t]
      /\ \A v \in Threads \ {t, u} : tensor'[v] = tensor[v]
  BY DEF Move, MemoryInv, MemoryTypes
<1>3. ContextTypes' /\ OwnContexts'
  BY <1>1 DEF MemoryInv, ContextInv, ContextTypes, OwnContexts, takeVars
<1>4. Allocating'
  BY <1>0, <1>1, <1>2 DEF MemoryInv, ContextInv, Allocating, takeVars
<1>5. Held'
  <2>1. \A v \in Threads : \E w \in Threads : tensor[w].buffer = tensor'[v].buffer
    BY <1>2
  <2>2. \A v \in Threads : \E w \in Threads : tensor'[w].buffer = tensor[v].buffer
    BY <1>2
  <2> QED
    BY <1>1, <2>1, <2>2, HeldStays DEF MemoryInv
<1>6. MemoryTypes'
  BY <1>1, <1>2 DEF MemoryInv, MemoryTypes, bufferVars
<1> QED
  BY <1>3, <1>4, <1>5, <1>6 DEF MemoryInv, ContextInv

(* Taking a stream inside of GetContext.                                    *)
LEMMA GettingMemory ==
  ASSUME MemoryInv, NEW t \in Threads, GetContext(t) \/ Got(t)
  PROVE  MemoryInv'
<1>0. at \in [Threads -> Places]
  BY DEF MemoryInv, ContextInv, ContextTypes
<1>1. UNCHANGED <<bufferVars, ptr, old>> /\ tensor' = tensor /\ origin_dev_' = origin_dev_
  BY DEF GetContext, Got, localVars
<1>2. ContextInv' /\ \A u \in Threads : at'[u] = at[u] \/ (~Holding(at[u]) /\ ~Holding(at'[u]))
  <2>1. CASE GetContext(t)
    <3>1. at[t] = "context" /\ LoadPos(t, device[t], "get") /\ device[t] = tensor[t].id
          /\ device[t] \in Devices
      BY <2>1 DEF GetContext, MemoryInv, ContextInv, Allocating, ContextTypes
    <3>2. at' = [at EXCEPT ![t] = "get"]
      BY <3>1 DEF LoadPos
    <3> QED
      BY <1>0, <1>1, <3>1, <3>2, LoadPosContext DEF Holding, MemoryInv
  <2>2. CASE Got(t)
    <3>1. Exchange(t, "get", "context") /\ at[t] = "get" /\ at' = [at EXCEPT ![t] = "context"]
      BY <2>2 DEF Got, Exchange
    <3> QED
      BY <1>0, <1>1, <3>1, ExchangeContext DEF Holding, MemoryInv
  <2> QED
    BY <2>1, <2>2
<1>3. Held'
  BY <1>1, <1>2, HeldStays DEF MemoryInv
<1>4. \A u \in Threads : at'[u] \in {"delete", "deleting"} => at[u] \in {"delete", "deleting"}
  BY <1>2 DEF Holding
<1>5. MemoryTypes'
  BY <1>1, <1>4 DEF MemoryInv, MemoryTypes, bufferVars
<1> QED
  BY <1>2, <1>3, <1>5 DEF MemoryInv

(* cudaMalloc succeeds.                                                     *)
LEMMA MallocMemory ==
  ASSUME MemoryInv, NEW t \in Threads, Malloc(t)
  PROVE  MemoryInv'
<1>0. /\ at \in [Threads -> Places] /\ device \in [Threads -> Devices]
      /\ at[t] = "context" /\ contexts[t][device[t]] # <<>> /\ device[t] = tensor[t].id
  BY DEF Malloc, MemoryInv, ContextInv, ContextTypes, Allocating
<1>1. /\ at' = [at EXCEPT ![t] = "insert"] /\ device' = device
      /\ UNCHANGED <<pos, contexts, takeVars>> /\ tensor' = tensor /\ old' = old
      /\ ptr_meta' = ptr_meta /\ origin_dev_' = origin_dev_
  BY DEF Malloc
<1>2. device' = [device EXCEPT ![t] = device[t]] /\ device[t] \in Devices /\ "insert" \in Places \ {"get"}
  BY <1>0, <1>1 DEF Places
<1>3. ContextInv'
  BY <1>0, <1>1, <1>2, PlainContext DEF MemoryInv
<1>4. \/ ptr' = [ptr EXCEPT ![t] = NullPtr] /\ allocated' = allocated
      \/ \E p \in Ptrs : ptr' = [ptr EXCEPT ![t] = p] /\ allocated' = allocated \cup {p}
  BY DEF Malloc
<1>5. ptr' \in [Threads -> Ptrs \cup {NullPtr}] /\ allocated' \subseteq Ptrs
  BY <1>4 DEF MemoryInv, MemoryTypes
<1>6. \A u \in Threads : at'[u] \in {"delete", "deleting"} => at[u] \in {"delete", "deleting"}
  BY <1>0, <1>1
<1>7. MemoryTypes'
  BY <1>1, <1>5, <1>6 DEF MemoryInv, MemoryTypes
<1>8. Held'
  BY MallocHeld
<1> QED
  BY <1>3, <1>7, <1>8 DEF MemoryInv

(* cudaMalloc fails.                                                        *)
LEMMA MallocFailsMemory ==
  ASSUME MemoryInv, NEW t \in Threads, MallocFails(t)
  PROVE  MemoryInv'
<1>0. /\ at \in [Threads -> Places] /\ at[t] = "context" /\ origin_dev_[t] \in Devices
  BY DEF MallocFails, MemoryInv, ContextInv, ContextTypes, MemoryTypes
<1>1. /\ at' = [at EXCEPT ![t] = "idle"] /\ device' = [device EXCEPT ![t] = origin_dev_[t]]
      /\ UNCHANGED <<pos, contexts, takeVars>> /\ tensor' = tensor
      /\ UNCHANGED <<bufferVars, ptr, old>> /\ origin_dev_' = [origin_dev_ EXCEPT ![t] = 0]
  BY DEF MallocFails
<1>2. "idle" \in Places \ {"get"}
  BY DEF Places
<1>3. ContextInv'
  BY <1>0, <1>1, <1>2, PlainContext DEF MemoryInv
<1>4. \A u \in Threads : at'[u] = at[u] \/ (~Holding(at[u]) /\ ~Holding(at'[u]))
  BY <1>0, <1>1 DEF Holding
<1>5. Held'
  BY <1>1, <1>4, HeldStays DEF MemoryInv
<1>6. \A u \in Threads : at'[u] \in {"delete", "deleting"} => at[u] \in {"delete", "deleting"}
  BY <1>4 DEF Holding
<1>7. MemoryTypes'
  BY <1>1, <1>6, FirstDevice DEF MemoryInv, MemoryTypes, bufferVars
<1> QED
  BY <1>3, <1>5, <1>7 DEF MemoryInv

(* The new buffer replaces the old one.                                     *)
LEMMA InsertMemory ==
  ASSUME MemoryInv, NEW t \in Threads, Insert(t)
  PROVE  MemoryInv'
<1>0. /\ at \in [Threads -> Places] /\ origin_dev_[t] \in Devices
  BY DEF MemoryInv, ContextInv, ContextTypes, MemoryTypes
<1>1. /\ device' = [device EXCEPT ![t] = origin_dev_[t]]
      /\ UNCHANGED <<pos, contexts, takeVars>> /\ allocated' = allocated
      /\ ptr' = [ptr EXCEPT ![t] = NullPtr] /\ origin_dev_' = [origin_dev_ EXCEPT ![t] = 0]
  BY DEF Insert
<1>2. PICK place \in {"idle", "delete"} : at' = [at EXCEPT ![t] = place]
  BY InsertHeld
<1>3. PICK o : old' = [old EXCEPT ![t] = o]
  BY InsertHeld
<1>4. /\ Held'
      /\ at'[t] = "delete" => IsBuffer(old'[t]) /\ old'[t].ptr \in Ptrs
      /\ tensor' = [u \in Threads |-> tensor'[u]]
      /\ \A u \in Threads \ {t} : tensor'[u] = tensor[u]
      /\ IsTensor(tensor'[t]) /\ tensor'[t].id = tensor[t].id
      /\ ptr_meta' = [p \in DOMAIN ptr_meta' |-> ptr_meta'[p]] /\ DOMAIN ptr_meta' \subseteq Ptrs
  BY InsertHeld
<1>5. place \in Places \ {"get"} /\ place \notin {"context", "insert"}
  BY DEF Places
<1>6. ContextInv'
  BY <1>0, <1>1, <1>2, <1>4, <1>5, PlainContext DEF MemoryInv
<1>7. \A u \in Threads : at'[u] \in {"delete", "deleting"} => IsBuffer(old'[u]) /\ old'[u].ptr \in Ptrs
  BY <1>0, <1>2, <1>3, <1>4 DEF MemoryInv, MemoryTypes
<1>8. \A u \in Threads : IsTensor(tensor'[u])
  BY <1>4 DEF MemoryInv, MemoryTypes
<1>9. old' = [u \in Threads |-> old'[u]]
  BY <1>3 DEF MemoryInv, MemoryTypes
<1>10. MemoryTypes'
  BY <1>1, <1>4, <1>7, <1>8, <1>9, FirstDevice DEF MemoryInv, MemoryTypes
<1> QED
  BY <1>4, <1>6, <1>10 DEF MemoryInv

(* A tensor is destroyed.                                                   *)
LEMMA DestroyMemory ==
  ASSUME MemoryInv, NEW t \in Threads, Destroy(t)
  PROVE  MemoryInv'
<1>0. /\ at \in [Threads -> Places] /\ device \in [Threads -> Devices]
  BY DEF MemoryInv, ContextInv, ContextTypes
<1>1. /\ device' = device /\ UNCHANGED <<pos, contexts, takeVars>> /\ UNCHANGED bufferVars
      /\ ptr' = ptr /\ origin_dev_' = origin_dev_ /\ tensor' = [tensor EXCEPT ![t] = Moved]
  BY DEF Destroy
<1>2. PICK place \in {"idle", "delete"} : at' = [at EXCEPT ![t] = place]
  BY DestroyHeld
<1>3. PICK o : old' = [old EXCEPT ![t] = o]
  BY DestroyHeld
<1>4. Held' /\ (at'[t] = "delete" => IsBuffer(old'[t]) /\ old'[t].ptr \in Ptrs)
  BY DestroyHeld
<1>5. place \in Places \ {"get"} /\ place \notin {"context", "insert"}
      /\ device' = [device EXCEPT ![t] = device[t]] /\ device[t] \in Devices
  BY <1>0, <1>1 DEF Places
<1>6. /\ tensor' = [u \in Threads |-> tensor'[u]]
      /\ \A u \in Threads : IsTensor(tensor'[u])
      /\ \A u \in Threads \ {t} : tensor'[u] = tensor[u]
  BY <1>1, OneTensor, MovedTensor DEF MemoryInv
<1>7. ContextInv'
  BY <1>1, <1>2, <1>5, <1>6, PlainContext DEF MemoryInv
<1>8. \A u \in Threads : at'[u] \in {"delete", "deleting"} => IsBuffer(old'[u]) /\ old'[u].ptr \in Ptrs
  BY <1>0, <1>2, <1>3, <1>4 DEF MemoryInv, MemoryTypes
<1>9. old' = [u \in Threads |-> old'[u]]
  BY <1>3 DEF MemoryInv, MemoryTypes
<1>10. MemoryTypes'
  BY <1>1, <1>6, <1>8, <1>9 DEF MemoryInv, MemoryTypes, bufferVars
<1> QED
  BY <1>4, <1>7, <1>10 DEF MemoryInv

(* The deleter removes the address from the map, or frees it.               *)
LEMMA DeleterMemory ==
  ASSUME MemoryInv, NEW t \in Threads, RemovePtr(t) \/ Free(t)
  PROVE  MemoryInv'
<1>0. /\ at \in [Threads -> Places] /\ device \in [Threads -> Devices]
  BY DEF MemoryInv, ContextInv, ContextTypes
<1>1. /\ device' = device /\ UNCHANGED <<pos, contexts, takeVars>> /\ tensor' = tensor
      /\ ptr' = ptr /\ origin_dev_' = origin_dev_
  BY DEF RemovePtr, Free
<1>2. \E place \in {"deleting", "idle"} : at' = [at EXCEPT ![t] = place]
  BY RemoveHeld, FreeHeld
<1>3. PICK place \in {"deleting", "idle"} : at' = [at EXCEPT ![t] = place]
  BY <1>2
<1>4. place \in Places \ {"get"} /\ place \notin {"context", "insert"}
      /\ device' = [device EXCEPT ![t] = device[t]] /\ device[t] \in Devices
  BY <1>0, <1>1 DEF Places
<1>5. ContextInv'
  BY <1>1, <1>3, <1>4, PlainContext DEF MemoryInv
<1>6. Held'
  BY RemoveHeld, FreeHeld
<1>7. /\ old' = [u \in Threads |-> old'[u]]
      /\ \A u \in Threads : at'[u] \in {"delete", "deleting"} =>
           IsBuffer(old'[u]) /\ old'[u].ptr \in Ptrs
  <2>1. CASE RemovePtr(t)
    BY <1>0, <2>1, RemoveHeld DEF MemoryInv, MemoryTypes
  <2>2. CASE Free(t)
    BY <1>0, <2>2, FreeHeld DEF MemoryInv, MemoryTypes
  <2> QED
    BY <2>1, <2>2
<1>8. /\ ptr_meta' = [p \in DOMAIN ptr_meta' |-> ptr_meta'[p]] /\ DOMAIN ptr_meta' \subseteq Ptrs
      /\ allocated' \subseteq Ptrs
  BY DEF RemovePtr, Free, MemoryInv, MemoryTypes
<1>9. MemoryTypes'
  BY <1>1, <1>7, <1>8 DEF MemoryInv, MemoryTypes
<1> QED
  BY <1>5, <1>6, <1>9 DEF MemoryInv

(* What clients do to their tensors and contexts.                           *)
LEMMA ClientMemory ==
  ASSUME MemoryInv, NEW t \in Threads,
         \/ \E made \in Made : Construct(t, made[1], made[2])
         \/ \E shape \in Reallocates : Reallocate(t, shape)
         \/ \E shape \in Reshapes : Reshape(t, shape)
         \/ \E u \in Threads \ {t}, view \in Views : ConstructView(t, u, view)
         \/ Data(t)
  PROVE  MemoryInv'
<1>0. IsTensor(tensor[t]) /\ tensor = [u \in Threads |-> tensor[u]]
  BY DEF MemoryInv, MemoryTypes
<1>1. ASSUME NEW made \in Made, Construct(t, made[1], made[2])
      PROVE  MemoryInv'
  <2> DEFINE y == [Moved EXCEPT !.id = made[1]]
             x == Shaped(y, made[2])
  <2>1. made[1] \in Devices
    BY MemoryAssumption
  <2>2. y = Tensor(made[1], <<>>, <<>>, 0, NoBuffer)
    BY DEF Moved, Tensor
  <2>3. IsTensor(y) /\ y.buffer = NoBuffer
    BY <2>1, <2>2 DEF IsTensor, Tensor
  <2> HIDE DEF y
  <2>4. IsTensor(x) /\ x.buffer = NoBuffer
    BY <2>3, ShapedTensor
  <2>5. Idle(t) /\ tensor[t].buffer = NoBuffer /\ Is(t, x)
    BY <1>1, MovedTensor DEF Construct, y
  <2> HIDE DEF x
  <2> QED
    BY <2>4, <2>5, TensorChanges DEF Is
<1>2. ASSUME NEW shape \in Reallocates, Reallocate(t, shape)
      PROVE  MemoryInv'
  <2> DEFINE x == Shaped(tensor[t], shape)
             y == [x EXCEPT !.offset = 0]
  <2>1. IsTensor(x) /\ x.id = tensor[t].id /\ x.buffer = tensor[t].buffer
    BY <1>0, ShapedTensor
  <2>2. Idle(t) /\ (Is(t, y) \/ BeginAllocate(t, x))
    BY <1>2 DEF Reallocate
  <2> HIDE DEF x
  <2>3. y = Tensor(x.id, x.shape, x.stride, 0, x.buffer)
    <3>1. ASSUME NEW i, NEW s, NEW st, NEW o, NEW b
          PROVE  [Tensor(i, s, st, o, b) EXCEPT !.offset = 0] = Tensor(i, s, st, 0, b)
      BY DEF Tensor
    <3>2. [Tensor(x.id, x.shape, x.stride, x.offset, x.buffer) EXCEPT !.offset = 0]
            = Tensor(x.id, x.shape, x.stride, 0, x.buffer)
      BY <3>1
    <3> QED
      BY <2>1, <3>2, Zenon DEF IsTensor
  <2> HIDE DEF y
  <2>4. IsTensor(y) /\ y.buffer = x.buffer
    BY <2>1, <2>3 DEF IsTensor, Tensor
  <2>5. CASE Is(t, y)
    BY <2>1, <2>2, <2>4, <2>5, TensorChanges DEF Is
  <2>6. CASE BeginAllocate(t, x)
    BY <2>1, <2>2, <2>6, BeginAllocateMemory
  <2> QED
    BY <2>2, <2>5, <2>6
<1>3. ASSUME NEW shape \in Reshapes, Reshape(t, shape)
      PROVE  MemoryInv'
  <2> DEFINE x == Reshaped(tensor[t], shape)
  <2>1. IsTensor(x) /\ x.buffer = tensor[t].buffer
    BY <1>0, ShapedTensor DEF Reshaped
  <2>2. Idle(t) /\ tensor' = [tensor EXCEPT ![t] = x] /\ UNCHANGED <<contextVars, bufferVars, localVars>>
    BY <1>3 DEF Reshape
  <2> HIDE DEF x
  <2> QED
    BY <2>1, <2>2, TensorChanges
<1>4. ASSUME NEW u \in Threads \ {t}, NEW view \in Views, ConstructView(t, u, view)
      PROVE  MemoryInv'
  <2> DEFINE b == tensor[u].buffer
             stride == IF view.stride = <<>> THEN shape_to_stride(view.shape) ELSE view.stride
             x == Tensor(b.id, view.shape, stride, view.offset, b)
  <2>1. Idle(t) /\ tensor[t].buffer = NoBuffer /\ b # NoBuffer /\ Is(t, x)
    BY <1>4, MovedTensor DEF ConstructView
  <2>2. IsTensor(tensor[u])
    BY DEF MemoryInv, MemoryTypes
  <2>3. IsBuffer(b) /\ b.id \in Devices
    BY <2>1, <2>2 DEF IsTensor
  <2> HIDE DEF stride, b
  <2>4. x.buffer = b /\ x.id = b.id /\ IsTensor(x)
    BY <2>3 DEF IsTensor, Tensor
  <2>5. x.buffer = tensor[u].buffer
    BY <2>4 DEF b
  <2> HIDE DEF x
  <2> QED
    BY <2>1, <2>4, <2>5, TensorChanges DEF Is
<1>5. ASSUME Data(t)
      PROVE  MemoryInv'
  BY <1>0, <1>5, BeginAllocateMemory DEF Data
<1> QED
  BY <1>1, <1>2, <1>3, <1>4, <1>5

(* The invariant is inductive.                                              *)
LEMMA NextMemory ==
  ASSUME MemoryInv, [Next]_mvars
  PROVE  MemoryInv'
<1>1. ASSUME NEW t \in Threads, ContextStep(t), UNCHANGED <<bufferVars, tensor, torn, localVars>>
      PROVE  MemoryInv'
  BY <1>1, ContextStepMemory
<1>2. ASSUME NEW t \in Threads, TensorStep(t)
      PROVE  MemoryInv'
  <2>1. ASSUME NEW u \in Threads \ {t}, Move(t, u)
        PROVE  MemoryInv'
    BY <2>1, MoveMemory
  <2> QED
    BY <1>2, <2>1, GettingMemory, MallocMemory, MallocFailsMemory, InsertMemory, DeleterMemory,
       DestroyMemory, ClientMemory DEF TensorStep
<1>3. CASE UNCHANGED mvars
  <2>1. Held'
    BY <1>3, HeldStays DEF mvars, contextVars, localVars, MemoryInv
  <2>2. MemoryTypes'
    BY <1>3 DEF mvars, contextVars, localVars, bufferVars, MemoryInv, MemoryTypes
  <2>3. ContextTypes' /\ OwnContexts' /\ Allocating'
    BY <1>3 DEF mvars, contextVars, takeVars, MemoryInv, ContextInv, ContextTypes, OwnContexts, Allocating
  <2> QED
    BY <2>1, <2>2, <2>3 DEF MemoryInv, ContextInv
<1> QED
  BY <1>1, <1>2, <1>3 DEF Next

(* An address is in one live buffer at most, of the device it was allocated *)
(* on, and the allocator's map has it with a context of that device, from   *)
(* the insert until the deleter: no delete meets an address it does not     *)
(* know, and none given out twice, whichever threads allocate, share, move  *)
(* and destroy tensors and whichever call of the driver fails               *)
(* (cuda_allocator.cpp and buffer.cpp of device_managers).                  *)
THEOREM ManagedCorrect == Spec => []Managed
<1>1. MemoryInv => Managed
  <2> SUFFICES ASSUME MemoryInv PROVE Managed
    OBVIOUS
  <2> USE DEF MemoryInv, Held
  <2>1. ASSUME NEW b \in Live
        PROVE  /\ b.ptr \in Ptrs
               /\ \E t \in Threads :
                    \/ InTensor(t, b.ptr) /\ tensor[t].buffer = b
                    \/ Removing(t, b.ptr) /\ old[t] = b
    <3>1. b # NoBuffer /\ b.ptr # NullPtr
      BY DEF Live
    <3>2. \/ \E t \in Threads : tensor[t].buffer = b
          \/ \E t \in Threads : at[t] = "delete" /\ old[t] = b
      BY DEF Live
    <3>3. CASE \E t \in Threads : tensor[t].buffer = b
      BY <3>1, <3>3 DEF InTensor, MemoryTypes, IsTensor, IsBuffer
    <3>4. CASE \E t \in Threads : at[t] = "delete" /\ old[t] = b
      BY <3>1, <3>4 DEF Removing, MemoryTypes
    <3> QED
      BY <3>2, <3>3, <3>4
  <2>2. \A b \in Live : b.ptr \in DOMAIN ptr_meta /\ ptr_meta[b.ptr].id = b.id
    BY <2>1 DEF InMap
  <2>3. \A t \in Threads : tensor[t].buffer # NoBuffer => tensor[t].buffer.id = tensor[t].id
    BY DEF MemoryTypes, IsTensor
  <2>4. ASSUME \A t \in Threads : Idle(t)
        PROVE  allocated = {b.ptr : b \in Live}
    <3>1. \A t \in Threads, p \in Ptrs : ~Given(t, p) /\ ~Removing(t, p) /\ ~Freeing(t, p)
      BY <2>4 DEF Idle, Given, Removing, Freeing
    <3>2. \A p \in Ptrs : p \in allocated <=> \E t \in Threads : InTensor(t, p)
      BY <3>1 DEF Accounted
    <3>3. \A t \in Threads, p \in Ptrs : InTensor(t, p) => tensor[t].buffer \in Live
      BY MemoryAssumption DEF InTensor, Live
    <3>4. \A p \in Ptrs : p \in allocated <=> \E b \in Live : b.ptr = p
      <4>1. ASSUME NEW p \in Ptrs, p \in allocated PROVE \E b \in Live : b.ptr = p
        BY <4>1, <3>2, <3>3 DEF InTensor
      <4>2. ASSUME NEW b \in Live PROVE b.ptr \in allocated
        BY <2>1, <3>1, <3>2
      <4> QED
        BY <4>1, <4>2
    <3> QED
      BY <2>1, <3>4 DEF MemoryTypes
  <2> QED
    BY <2>2, <2>3, <2>4 DEF Managed
<1> QED
  BY <1>1, InitMemory, NextMemory, PTL DEF Spec

-----------------------------------------------------------------------------
(* Folds.                                                                   *)

(* A set of numbers has a least one.                                        *)
LEMMA LeastNumber ==
  ASSUME NEW T \in SUBSET Nat, T # {}
  PROVE  \E n \in T : \A m \in T : n <= m
<1> DEFINE R == OpToRel(<, Nat)
<1>1. IsWellFoundedOn(R, Nat)
  BY NatLessThanWellFounded
<1>2. PICK n \in T : \A m \in T : <<m, n>> \notin R
  <2> HIDE DEF R
  <2> QED BY <1>1, WFMin
<1>3. \A m \in Nat, k \in Nat : m < k => <<m, k>> \in R
  BY DEF OpToRel
<1> HIDE DEF R
<1>4. \A m \in T : ~(m < n)
  BY <1>2, <1>3
<1> QED
  BY <1>4

(* The maximum of a set.                                                    *)
LEMMA MaxIs ==
  ASSUME NEW S, S \subseteq Int, NEW x \in S, \A y \in S : y <= x
  PROVE  Max(S) = x
<1>1. \A z \in S : (\A y \in S : z >= y) => z = x
  OBVIOUS
<1>2. Max(S) \in S /\ \A y \in S : Max(S) >= y
  BY DEF Max
<1> QED
  BY <1>1, <1>2

(* A non-empty set of the first n numbers has its maximum, and less of them *)
(* without it.                                                              *)
LEMMA MaxOf ==
  ASSUME NEW n \in Nat, NEW s \in SUBSET (1 .. n), s # {}
  PROVE  Max(s) \in s /\ s \ {Max(s)} \in SUBSET (1 .. n)
<1> DEFINE T == {n - m : m \in s}
<1>1. T \in SUBSET Nat /\ T # {}
  <2>1. \A m \in s : n - m \in Nat
    OBVIOUS
  <2> QED BY <2>1
<1>2. PICK d \in T : \A e \in T : d <= e
  <2> HIDE DEF T
  <2> QED BY <1>1, LeastNumber
<1>3. PICK x \in s : d = n - x
  OBVIOUS
<1>4. \A y \in s : n - x <= n - y
  BY <1>2, <1>3
<1>5. \A y \in s : y <= x
  BY <1>4
<1>6. Max(s) = x
  <2>1. s \subseteq Int
    OBVIOUS
  <2> QED BY <1>5, <2>1, MaxIs
<1> QED
  BY <1>6

(* A fold of the first n numbers, step by step.                             *)
IsFold(h, n, b, g) ==
  /\ h[{}] = b
  /\ \A s \in SUBSET (1 .. n) : s # {} => h[s] = g[<<Max(s), h[s \ {Max(s)}]>>]

(* Every step function has a fold over the first n numbers: the least n     *)
(* without one would have one, its own put on top of that of n - 1.         *)
LEMMA FoldExists ==
  ASSUME NEW n \in Nat, NEW V, NEW b \in V, NEW g \in [(1 .. n) \X V -> V]
  PROVE  \E h \in [SUBSET (1 .. n) -> V] : IsFold(h, n, b, g)
<1> DEFINE Fold(m) == \E h \in [SUBSET (1 .. m) -> V] : IsFold(h, m, b, g)
           T == {m \in 0 .. n : ~Fold(m)}
<1>1. SUFFICES ASSUME T # {} PROVE FALSE
  <2>1. n \in 0 .. n
    OBVIOUS
  <2> QED BY <2>1
<1>2. PICK m \in T : \A k \in T : m <= k
  <2>1. T \in SUBSET Nat
    OBVIOUS
  <2> HIDE DEF T
  <2> QED BY <1>1, <2>1, LeastNumber
<1>3. m # 0
  <2>1. 1 .. 0 = {}
    OBVIOUS
  <2>2. [s \in SUBSET (1 .. 0) |-> b] \in [SUBSET (1 .. 0) -> V] /\ IsFold([s \in SUBSET (1 .. 0) |-> b], 0, b, g)
    BY <2>1 DEF IsFold
  <2> QED
    BY <2>2
<1>4. PICK k \in 0 .. n : m = k + 1 /\ m \in 1 .. n /\ Fold(k)
  <2>1. m \in 0 .. n
    BY <1>2
  <2>2. m - 1 \in 0 .. n /\ m = (m - 1) + 1 /\ ~(m <= m - 1) /\ m \in 1 .. n
    BY <1>3, <2>1
  <2>3. m - 1 \notin T
    <3> HIDE DEF T
    <3> QED BY <1>2, <2>2
  <2>4. Fold(m - 1)
    <3> HIDE DEF Fold
    <3> QED BY <2>2, <2>3
  <2> HIDE DEF Fold
  <2> QED BY <2>2, <2>4
<1>5. PICK h \in [SUBSET (1 .. k) -> V] : IsFold(h, k, b, g)
  BY <1>4
<1> DEFINE f == [s \in SUBSET (1 .. m) |-> IF m \in s THEN g[<<m, h[s \ {m}]>>] ELSE h[s]]
<1>6. \A s \in SUBSET (1 .. m) : s \ {m} \in SUBSET (1 .. k)
  BY <1>4
<1>7. f \in [SUBSET (1 .. m) -> V]
  <2> SUFFICES ASSUME NEW s \in SUBSET (1 .. m) PROVE f[s] \in V
    OBVIOUS
  <2>1. m \in s => g[<<m, h[s \ {m}]>>] \in V
    BY <1>4, <1>6
  <2>2. m \notin s => s \in SUBSET (1 .. k)
    <3>1. m \notin s => s \ {m} = s
      OBVIOUS
    <3> QED BY <1>6, <3>1
  <2> QED
    BY <2>1, <2>2
<1>8. f[{}] = b
  BY <1>5 DEF IsFold
<1>9. ASSUME NEW s \in SUBSET (1 .. m), s # {}
      PROVE  f[s] = g[<<Max(s), f[s \ {Max(s)}]>>]
  <2>1. CASE m \in s
    <3>1. Max(s) = m
      <4>1. s \subseteq Int /\ \A y \in s : y <= m
        BY <1>4
      <4> QED BY <2>1, <4>1, MaxIs
    <3>2. s \ {m} \in SUBSET (1 .. m) /\ m \notin s \ {m}
      OBVIOUS
    <3>3. f[s \ {m}] = h[s \ {m}]
      BY <3>2
    <3>4. f[s] = g[<<m, h[s \ {m}]>>]
      BY <2>1
    <3> HIDE DEF f
    <3> QED BY <3>1, <3>3, <3>4
  <2>2. CASE m \notin s
    <3>1. s \in SUBSET (1 .. k)
      <4>1. s \ {m} = s
        BY <2>2
      <4> QED BY <1>6, <4>1
    <3>2. Max(s) \in s /\ s \ {Max(s)} \in SUBSET (1 .. k)
      <4>1. k \in Nat
        BY <1>4
      <4> QED BY <1>9, <3>1, <4>1, MaxOf
    <3>3. s \ {Max(s)} \in SUBSET (1 .. m) /\ m \notin s \ {Max(s)}
      BY <2>2
    <3>4. f[s \ {Max(s)}] = h[s \ {Max(s)}] /\ f[s] = h[s]
      BY <2>2, <3>3
    <3>5. h[s] = g[<<Max(s), h[s \ {Max(s)}]>>]
      BY <1>5, <1>9, <3>1 DEF IsFold
    <3> HIDE DEF f
    <3> QED BY <3>4, <3>5
  <2> QED
    BY <2>1, <2>2
<1>10. Fold(m)
  <2> HIDE DEF f
  <2> QED BY <1>7, <1>8, <1>9 DEF IsFold
<1> QED
  BY <1>2, <1>10

(* The values of a fold, one after the other.                               *)
Stepwise(p, n, b, g) ==
  /\ p[0] = b
  /\ \A d \in 1 .. n : p[d] = g[<<d, p[d - 1]>>]

(* How h folds the prefixes of the first n numbers.                         *)
Folding(h, n, V, g) ==
  \A d \in 1 .. n : h[1 .. d - 1] \in V => h[1 .. d] = g[<<d, h[1 .. d - 1]>>]

(* The last of them is the fold of all.                                     *)
EndsIn(p, n, h) == p[n] = h[1 .. n]

(* A fold goes through the prefixes.                                        *)
LEMMA FoldPrefixes ==
  ASSUME NEW n \in Nat, NEW V, NEW b \in V, NEW g \in [(1 .. n) \X V -> V],
         NEW h, h[{}] = b, Folding(h, n, V, g)
  PROVE  \E p \in [0 .. n -> V] : Stepwise(p, n, b, g) /\ EndsIn(p, n, h)
<1> DEFINE p == [d \in 0 .. n |-> h[1 .. d]]
<1>1. p[0] = b
  <2>1. 1 .. 0 = {} /\ 0 \in 0 .. n
    OBVIOUS
  <2> QED BY <2>1
<1>2. ASSUME NEW d \in 1 .. n, p[d - 1] \in V PROVE p[d] = g[<<d, p[d - 1]>>]
  <2>1. p[d] = h[1 .. d] /\ p[d - 1] = h[1 .. d - 1]
    OBVIOUS
  <2> HIDE DEF p
  <2> QED BY <1>2, <2>1 DEF Folding
<1>3. p \in [0 .. n -> V]
  <2> DEFINE T == {d \in 0 .. n : p[d] \notin V}
  <2>1. SUFFICES ASSUME T # {} PROVE FALSE
    OBVIOUS
  <2>2. T \in SUBSET Nat
    OBVIOUS
  <2> HIDE DEF p
  <2>3. PICK d \in T : \A e \in T : d <= e
    <3> HIDE DEF T
    <3> QED BY <2>1, <2>2, LeastNumber
  <2>4. d # 0
    BY <1>1
  <2>5. d \in 1 .. n /\ d - 1 \in 0 .. n /\ ~(d <= d - 1)
    BY <2>4
  <2>6. p[d - 1] \in V
    BY <2>3, <2>5
  <2>7. p[d] \in V
    BY <1>2, <2>5, <2>6
  <2> QED BY <2>7
<1>4. p[n] = h[1 .. n]
  OBVIOUS
<1> QED
  <2>1. \A d \in 1 .. n : d - 1 \in 0 .. n
    OBVIOUS
  <2> HIDE DEF p
  <2> QED BY <1>1, <1>2, <1>3, <1>4, <2>1 DEF Stepwise, EndsIn

(* A prefix is one element longer than the one before.                      *)
LEMMA PrefixSet ==
  ASSUME NEW n \in Nat, NEW d \in 1 .. n
  PROVE  1 .. d \in SUBSET (1 .. n) /\ 1 .. d # {} /\ Max(1 .. d) = d /\ (1 .. d) \ {d} = 1 .. d - 1
<1>1. 1 .. d \in SUBSET (1 .. n) /\ 1 .. d # {} /\ 1 .. d \subseteq Int /\ d \in 1 .. d /\ \A y \in 1 .. d : y <= d
  OBVIOUS
<1>2. Max(1 .. d) = d
  BY <1>1, MaxIs
<1>3. (1 .. d) \ {d} = 1 .. d - 1
  OBVIOUS
<1> QED
  BY <1>1, <1>2, <1>3

(* The product of a shape's dimensions, dimension by dimension.             *)
LEMMA ProductSteps ==
  ASSUME NEW s \in Seq(Int)
  PROVE  \E p \in [0 .. Len(s) -> Int] :
           /\ p[0] = 1
           /\ \A d \in 1 .. Len(s) : p[d] = p[d - 1] * s[d]
           /\ Product(s) = p[Len(s)]
<1> DEFINE n == Len(s)
           g == [x \in (1 .. n) \X Int |-> x[2] * s[x[1]]]
           P(h) == h = [t \in SUBSET DOMAIN s |-> IF t = {} THEN 1 ELSE h[t \ {Max(t)}] * s[Max(t)]]
<1>1. n \in Nat /\ DOMAIN s = 1 .. n /\ \A d \in 1 .. n : s[d] \in Int
  OBVIOUS
<1>2. g \in [(1 .. n) \X Int -> Int]
  BY <1>1
<1>3. \A d \in 1 .. n, v \in Int : g[<<d, v>>] = v * s[d]
  OBVIOUS
<1>4. Product(s) = (CHOOSE h : P(h))[1 .. n]
  BY <1>1 DEF Product, FoldLeft, MapThenFoldSet
<1> HIDE DEF n, g
<1>5. PICK h \in [SUBSET (1 .. n) -> Int] : IsFold(h, n, 1, g)
  <2>1. 1 \in Int
    OBVIOUS
  <2> HIDE DEF P
  <2> QED BY <1>1, <1>2, <2>1, FoldExists
<1>6. P(h)
  <2>1. ASSUME NEW t \in SUBSET (1 .. n), t # {}
        PROVE  h[t] = h[t \ {Max(t)}] * s[Max(t)]
    <3>1. Max(t) \in t /\ t \ {Max(t)} \in SUBSET (1 .. n)
      BY <1>1, <2>1, MaxOf
    <3>2. h[t] = g[<<Max(t), h[t \ {Max(t)}]>>] /\ h[t \ {Max(t)}] \in Int /\ Max(t) \in 1 .. n
      BY <1>5, <2>1, <3>1 DEF IsFold
    <3> QED BY <1>3, <3>2
  <2>2. h[{}] = 1
    BY <1>5 DEF IsFold
  <2>3. h = [t \in SUBSET (1 .. n) |-> h[t]]
    OBVIOUS
  <2> QED BY <1>1, <2>1, <2>2, <2>3
<1> DEFINE f == CHOOSE k : P(k)
<1>7. P(f)
  <2> HIDE DEF P
  <2> QED BY <1>6
<1> HIDE DEF f
<1>8. f[{}] = 1
  BY <1>7
<1>9. ASSUME NEW d \in 1 .. n, f[1 .. d - 1] \in Int
      PROVE  f[1 .. d] = g[<<d, f[1 .. d - 1]>>]
  <2>1. 1 .. d \in SUBSET (1 .. n) /\ 1 .. d # {} /\ Max(1 .. d) = d /\ (1 .. d) \ {d} = 1 .. d - 1
    BY <1>1, PrefixSet
  <2>2. \A t \in SUBSET (1 .. n) : t # {} => f[t] = f[t \ {Max(t)}] * s[Max(t)]
    BY <1>1, <1>7
  <2>3. f[1 .. d] = f[1 .. d - 1] * s[d]
    BY <2>1, <2>2
  <2> QED BY <1>3, <1>9, <2>3
<1>10. PICK p \in [0 .. n -> Int] : Stepwise(p, n, 1, g) /\ EndsIn(p, n, f)
  <2>1. 1 \in Int
    OBVIOUS
  <2> HIDE DEF P
  <2>2. Folding(f, n, Int, g)
    BY <1>9 DEF Folding
  <2> QED BY <1>1, <1>2, <1>8, <2>1, <2>2, FoldPrefixes
<1>11. \A d \in 1 .. n : p[d] = p[d - 1] * s[d]
  <2>1. \A d \in 1 .. n : p[d - 1] \in Int
    BY <1>1
  <2> QED BY <1>3, <1>10, <2>1 DEF Stepwise
<1>12. Product(s) = p[n]
  BY <1>4, <1>10 DEF f, EndsIn
<1> QED
  BY <1>10, <1>11, <1>12 DEF Stepwise, n

(* One step of Remaining.                                                   *)
Divided(rest, dim) ==
  IF dim < 0 THEN rest
  ELSE IF rest > 0 /\ rest % dim = 0 THEN rest \div dim ELSE -1

(* What is left is a number.                                                *)
LEMMA DividedType ==
  ASSUME NEW rest \in Int, NEW dim \in Int \ {0}
  PROVE  Divided(rest, dim) \in Int
<1>1. CASE dim < 0
  BY <1>1 DEF Divided
<1>2. CASE dim > 0
  <2>1. rest \div dim \in Int
    BY <1>2
  <2> QED BY <2>1 DEF Divided
<1> QED
  BY <1>1, <1>2

(* What is left of e once the dimensions are divided out, one by one.       *)
LEMMA RemainingSteps ==
  ASSUME NEW s \in Seq(Int), \A d \in DOMAIN s : s[d] # 0, NEW e \in Int
  PROVE  \E p \in [0 .. Len(s) -> Int] :
           /\ p[0] = e
           /\ \A d \in 1 .. Len(s) : p[d] = Divided(p[d - 1], s[d])
           /\ Remaining(s, e) = p[Len(s)]
<1> DEFINE n == Len(s)
           g == [x \in (1 .. n) \X Int |-> Divided(x[2], s[x[1]])]
           P(h) == h = [t \in SUBSET DOMAIN s |-> IF t = {} THEN e ELSE Divided(h[t \ {Max(t)}], s[Max(t)])]
<1>1. n \in Nat /\ DOMAIN s = 1 .. n /\ \A d \in 1 .. n : s[d] \in Int \ {0}
  OBVIOUS
<1>2. g \in [(1 .. n) \X Int -> Int]
  BY <1>1, DividedType
<1>3. \A d \in 1 .. n, v \in Int : g[<<d, v>>] = Divided(v, s[d])
  OBVIOUS
<1>4. Remaining(s, e) = (CHOOSE h : P(h))[1 .. n]
  BY <1>1 DEF Remaining, Divided, FoldLeft, MapThenFoldSet
<1> HIDE DEF n, g
<1>5. PICK h \in [SUBSET (1 .. n) -> Int] : IsFold(h, n, e, g)
  <2> HIDE DEF P
  <2> QED BY <1>1, <1>2, FoldExists
<1>6. P(h)
  <2>1. ASSUME NEW t \in SUBSET (1 .. n), t # {}
        PROVE  h[t] = Divided(h[t \ {Max(t)}], s[Max(t)])
    <3>1. Max(t) \in t /\ t \ {Max(t)} \in SUBSET (1 .. n)
      BY <1>1, <2>1, MaxOf
    <3>2. h[t] = g[<<Max(t), h[t \ {Max(t)}]>>] /\ h[t \ {Max(t)}] \in Int /\ Max(t) \in 1 .. n
      BY <1>5, <2>1, <3>1 DEF IsFold
    <3> QED BY <1>3, <3>2
  <2>2. h[{}] = e
    BY <1>5 DEF IsFold
  <2>3. h = [t \in SUBSET (1 .. n) |-> h[t]]
    OBVIOUS
  <2> QED BY <1>1, <2>1, <2>2, <2>3
<1> DEFINE f == CHOOSE k : P(k)
<1>7. P(f)
  <2> HIDE DEF P
  <2> QED BY <1>6
<1> HIDE DEF f
<1>8. f[{}] = e
  BY <1>7
<1>9. ASSUME NEW d \in 1 .. n, f[1 .. d - 1] \in Int
      PROVE  f[1 .. d] = g[<<d, f[1 .. d - 1]>>]
  <2>1. 1 .. d \in SUBSET (1 .. n) /\ 1 .. d # {} /\ Max(1 .. d) = d /\ (1 .. d) \ {d} = 1 .. d - 1
    BY <1>1, PrefixSet
  <2>2. \A t \in SUBSET (1 .. n) : t # {} => f[t] = Divided(f[t \ {Max(t)}], s[Max(t)])
    BY <1>1, <1>7
  <2>3. f[1 .. d] = Divided(f[1 .. d - 1], s[d])
    BY <2>1, <2>2
  <2> QED BY <1>3, <1>9, <2>3
<1>10. PICK p \in [0 .. n -> Int] : Stepwise(p, n, e, g) /\ EndsIn(p, n, f)
  <2> HIDE DEF P
  <2>2. Folding(f, n, Int, g)
    BY <1>9 DEF Folding
  <2> QED BY <1>1, <1>2, <1>8, <2>2, FoldPrefixes
<1>11. \A d \in 1 .. n : p[d] = Divided(p[d - 1], s[d])
  <2>1. \A d \in 1 .. n : p[d - 1] \in Int
    BY <1>1
  <2> QED BY <1>3, <1>10, <2>1 DEF Stepwise
<1>12. Remaining(s, e) = p[n]
  BY <1>4, <1>10 DEF f, EndsIn
<1> QED
  BY <1>10, <1>11, <1>12 DEF Stepwise, n

(* The end of a tensor's last element, dimension by dimension.              *)
LEMMA ReachSteps ==
  ASSUME NEW x, x.shape \in Seq(Int), x.stride \in Seq(Int), Len(x.stride) = Len(x.shape),
         x.offset \in Int, element_size(x.shape) # 0
  PROVE  \E p \in [0 .. Len(x.shape) -> Int] :
           /\ p[0] = x.offset + TypeSize
           /\ \A d \in 1 .. Len(x.shape) : p[d] = p[d - 1] + (x.shape[d] - 1) * x.stride[d]
           /\ Reach(x) = p[Len(x.shape)]
<1> DEFINE n == Len(x.shape)
           e == x.offset + TypeSize
           Span(d) == (x.shape[d] - 1) * x.stride[d]
           id == [d \in DOMAIN x.shape |-> d]
           g == [y \in (1 .. n) \X Int |-> y[2] + Span(y[1])]
           P(h) == h = [t \in SUBSET DOMAIN id |-> IF t = {} THEN e ELSE h[t \ {Max(t)}] + Span(id[Max(t)])]
<1>1. n \in Nat /\ e \in Int /\ DOMAIN x.shape = 1 .. n /\ \A d \in 1 .. n : Span(d) \in Int
  BY DEF TypeSize
<1>2. g \in [(1 .. n) \X Int -> Int]
  BY <1>1
<1>3. \A d \in 1 .. n, v \in Int : g[<<d, v>>] = v + Span(d)
  OBVIOUS
<1>4. Reach(x) = (CHOOSE h : P(h))[DOMAIN id]
  BY DEF Reach, FoldLeft, MapThenFoldSet
<1>a. DOMAIN id = 1 .. n /\ \A d \in 1 .. n : id[d] = d
  BY <1>1
<1> HIDE DEF id, n, g, Span, e
<1>5. PICK h \in [SUBSET (1 .. n) -> Int] : IsFold(h, n, e, g)
  <2> HIDE DEF P
  <2> QED BY <1>1, <1>2, FoldExists
<1>6. P(h)
  <2>1. ASSUME NEW t \in SUBSET (1 .. n), t # {}
        PROVE  h[t] = h[t \ {Max(t)}] + Span(Max(t))
    <3>1. Max(t) \in t /\ t \ {Max(t)} \in SUBSET (1 .. n)
      BY <1>1, <2>1, MaxOf
    <3>2. h[t] = g[<<Max(t), h[t \ {Max(t)}]>>] /\ h[t \ {Max(t)}] \in Int /\ Max(t) \in 1 .. n
      BY <1>5, <2>1, <3>1 DEF IsFold
    <3> QED BY <1>3, <3>2
  <2>2. h[{}] = e
    BY <1>5 DEF IsFold
  <2>3. h = [t \in SUBSET (1 .. n) |-> h[t]]
    OBVIOUS
  <2>4. \A t \in SUBSET (1 .. n) : t # {} => id[Max(t)] = Max(t)
    <3> SUFFICES ASSUME NEW t \in SUBSET (1 .. n), t # {} PROVE id[Max(t)] = Max(t)
      OBVIOUS
    <3>1. Max(t) \in t
      BY <1>1, MaxOf
    <3> QED BY <1>a, <3>1
  <2> QED BY <1>a, <2>1, <2>2, <2>3, <2>4
<1> DEFINE f == CHOOSE k : P(k)
<1>7. P(f)
  <2> HIDE DEF P
  <2> QED BY <1>6
<1> HIDE DEF f
<1>8. f[{}] = e
  BY <1>7
<1>9. ASSUME NEW d \in 1 .. n, f[1 .. d - 1] \in Int
      PROVE  f[1 .. d] = g[<<d, f[1 .. d - 1]>>]
  <2>1. 1 .. d \in SUBSET (1 .. n) /\ 1 .. d # {} /\ Max(1 .. d) = d /\ (1 .. d) \ {d} = 1 .. d - 1
    BY <1>1, PrefixSet
  <2>2. \A t \in SUBSET (1 .. n) : t # {} => f[t] = f[t \ {Max(t)}] + Span(id[Max(t)])
    BY <1>7, <1>a
  <2>3. f[1 .. d] = f[1 .. d - 1] + Span(d)
    BY <1>a, <2>1, <2>2
  <2> QED BY <1>3, <1>9, <2>3
<1>10. PICK p \in [0 .. n -> Int] : Stepwise(p, n, e, g) /\ EndsIn(p, n, f)
  <2> HIDE DEF P
  <2>2. Folding(f, n, Int, g)
    BY <1>9 DEF Folding
  <2> QED BY <1>1, <1>2, <1>8, <2>2, FoldPrefixes
<1>11. \A d \in 1 .. n : p[d] = p[d - 1] + Span(d)
  <2>1. \A d \in 1 .. n : p[d - 1] \in Int
    BY <1>1
  <2> QED BY <1>3, <1>10, <2>1 DEF Stepwise
<1>12. Reach(x) = p[n]
  BY <1>4, <1>10, <1>a DEF f, EndsIn
<1> QED
  BY <1>10, <1>11, <1>12 DEF Stepwise, n, e, Span

-----------------------------------------------------------------------------
(* Shapes.                                                                  *)

(* What holds of a and of the next number whenever it holds of one holds    *)
(* from a to n.                                                             *)
LEMMA Upwards ==
  ASSUME NEW a \in Nat, NEW n \in Nat, NEW S, a \in S,
         \A d \in a + 1 .. n : d - 1 \in S => d \in S
  PROVE  \A d \in a .. n : d \in S
<1> DEFINE T == {d \in a .. n : d \notin S}
<1>1. SUFFICES ASSUME T # {} PROVE FALSE
  OBVIOUS
<1>2. T \in SUBSET Nat
  OBVIOUS
<1>3. PICK d \in T : \A e \in T : d <= e
  <2> HIDE DEF T
  <2> QED BY <1>1, <1>2, LeastNumber
<1>4. d # a
  OBVIOUS
<1>5. d \in a + 1 .. n /\ d - 1 \in a .. n /\ ~(d <= d - 1)
  BY <1>4
<1>6. d - 1 \in S
  <2>1. d - 1 \notin T
    BY <1>3, <1>5
  <2> QED BY <1>5, <2>1
<1> QED
  BY <1>5, <1>6

(* The product of dimensions that are not negative is not negative, and not *)
(* zero if none of them is.                                                 *)
LEMMA ProductType ==
  ASSUME NEW s \in Seq(Nat)
  PROVE  /\ Product(s) \in Nat
         /\ Product(s) # 0 => \A d \in DOMAIN s : s[d] # 0
<1> DEFINE n == Len(s)
<1>1. n \in Nat /\ DOMAIN s = 1 .. n /\ s \in Seq(Int) /\ \A d \in 1 .. n : s[d] \in Nat
  OBVIOUS
<1>2. PICK p \in [0 .. n -> Int] : /\ p[0] = 1
                                   /\ \A d \in 1 .. n : p[d] = p[d - 1] * s[d]
                                   /\ Product(s) = p[n]
  BY <1>1, ProductSteps
<1> HIDE DEF n
<1>3. \A d \in 0 .. n : p[d] \in Nat
  <2> DEFINE S == {d \in 0 .. n : p[d] \in Nat}
  <2>1. 0 \in S
    BY <1>1, <1>2
  <2>2. ASSUME NEW d \in 0 + 1 .. n, d - 1 \in S PROVE d \in S
    <3>1. d \in 1 .. n /\ d \in 0 .. n
      BY <1>1
    <3>2. p[d - 1] \in Nat /\ s[d] \in Nat
      BY <1>1, <2>2, <3>1
    <3>3. p[d - 1] * s[d] \in Nat
      BY <3>2
    <3> QED BY <1>2, <3>1, <3>3
  <2>3. \A d \in 0 .. n : d \in S
    <3> HIDE DEF S
    <3> QED BY <1>1, <2>1, <2>2, Upwards
  <2> QED BY <2>3
<1>4. ASSUME NEW a \in 1 .. n, s[a] = 0 PROVE p[n] = 0
  <2> DEFINE S == {d \in 0 .. n : p[d] = 0}
  <2>1. a \in S
    <3>1. a - 1 \in 0 .. n /\ a \in 0 .. n
      BY <1>1
    <3>2. p[a] = p[a - 1] * 0 /\ p[a - 1] \in Int
      BY <1>2, <1>4, <3>1
    <3> QED BY <3>1, <3>2
  <2>2. ASSUME NEW d \in a + 1 .. n, d - 1 \in S PROVE d \in S
    <3>1. d \in 1 .. n /\ d \in 0 .. n
      BY <1>1
    <3>2. p[d - 1] = 0 /\ s[d] \in Nat /\ p[d] = p[d - 1] * s[d]
      BY <1>1, <1>2, <2>2, <3>1
    <3>3. p[d] = 0
      BY <3>2
    <3> QED BY <3>1, <3>3
  <2>3. \A d \in a .. n : d \in S
    <3>1. a \in Nat
      BY <1>1
    <3> HIDE DEF S
    <3> QED BY <1>1, <2>1, <2>2, <3>1, Upwards
  <2>4. n \in a .. n
    BY <1>1
  <2> QED BY <2>3, <2>4
<1> QED
  BY <1>1, <1>2, <1>3, <1>4

(* The first dimension taken out of a product.                              *)
LEMMA ProductTail ==
  ASSUME NEW s \in Seq(Int), s # <<>>
  PROVE  Product(s) = s[1] * Product(SubSeq(s, 2, Len(s)))
<1> DEFINE n == Len(s)
           r == SubSeq(s, 2, n)
<1>1. n \in Nat \ {0} /\ DOMAIN s = 1 .. n /\ \A d \in 1 .. n : s[d] \in Int
  OBVIOUS
<1>2. r \in Seq(Int) /\ Len(r) = n - 1 /\ \A d \in 1 .. n - 1 : r[d] = s[d + 1]
  BY <1>1
<1>3. PICK p \in [0 .. n -> Int] : /\ p[0] = 1
                                   /\ \A d \in 1 .. n : p[d] = p[d - 1] * s[d]
                                   /\ Product(s) = p[n]
  BY ProductSteps
<1> HIDE DEF r
<1>4. PICK q \in [0 .. n - 1 -> Int] : /\ q[0] = 1
                                       /\ \A d \in 1 .. n - 1 : q[d] = q[d - 1] * r[d]
                                       /\ Product(r) = q[n - 1]
  <2>1. \E q \in [0 .. Len(r) -> Int] : /\ q[0] = 1
                                        /\ \A d \in 1 .. Len(r) : q[d] = q[d - 1] * r[d]
                                        /\ Product(r) = q[Len(r)]
    BY <1>2, ProductSteps
  <2> QED BY <1>2, <2>1
<1> HIDE DEF n
<1> DEFINE S == {d \in 1 .. n : p[d] = s[1] * q[d - 1]}
<1>5. 1 \in S
  <2>1. p[1] = p[0] * s[1] /\ 1 \in 1 .. n /\ 1 - 1 = 0 /\ s[1] \in Int
    BY <1>1, <1>3
  <2>2. p[1] = s[1] /\ s[1] * q[1 - 1] = s[1]
    BY <1>3, <1>4, <2>1
  <2> QED BY <2>1, <2>2
<1>6. ASSUME NEW d \in 1 + 1 .. n, d - 1 \in S PROVE d \in S
  <2>1. d \in 1 .. n /\ d - 1 \in 1 .. n /\ d - 1 \in 1 .. n - 1 /\ (d - 1) - 1 \in 0 .. n - 1 /\ (d - 1) + 1 = d
    BY <1>1
  <2>2. p[d] = p[d - 1] * s[d] /\ p[d - 1] = s[1] * q[(d - 1) - 1]
    BY <1>3, <1>6, <2>1
  <2>3. q[d - 1] = q[(d - 1) - 1] * s[d]
    BY <1>2, <1>4, <2>1
  <2>4. s[1] \in Int /\ s[d] \in Int /\ q[(d - 1) - 1] \in Int
    BY <1>1, <1>4, <2>1
  <2>5. (s[1] * q[(d - 1) - 1]) * s[d] = s[1] * (q[(d - 1) - 1] * s[d])
    BY <2>4
  <2>6. p[d] = s[1] * q[d - 1]
    BY <2>2, <2>3, <2>5
  <2> QED BY <2>1, <2>6
<1>7. \A d \in 1 .. n : d \in S
  <2>1. 1 \in Nat /\ n \in Nat
    BY <1>1
  <2> HIDE DEF S
  <2> QED BY <1>5, <1>6, <2>1, Upwards
<1>8. n \in 1 .. n
  BY <1>1
<1> QED
  BY <1>3, <1>4, <1>7, <1>8 DEF r, n

(* The strides of a shape.                                                  *)
LEMMA StrideType ==
  ASSUME NEW s \in Seq(Nat)
  PROVE  /\ shape_to_stride(s) \in Seq(Nat) /\ Len(shape_to_stride(s)) = Len(s)
         /\ s # <<>> => shape_to_stride(s)[Len(s)] = TypeSize
<1> DEFINE n == Len(s)
           t == shape_to_stride(s)
<1>1. n \in Nat /\ DOMAIN s = 1 .. n
  OBVIOUS
<1>2. ASSUME NEW d \in 1 .. n PROVE t[d] \in Nat /\ t[d] = TypeSize * Product(SubSeq(s, d + 1, n))
  <2>1. SubSeq(s, d + 1, n) \in Seq(Nat)
    BY <1>1
  <2>2. Product(SubSeq(s, d + 1, n)) \in Nat
    BY <2>1, ProductType
  <2>3. t[d] = TypeSize * Product(SubSeq(s, d + 1, n))
    BY <1>1 DEF shape_to_stride
  <2> QED BY <2>2, <2>3 DEF TypeSize
<1>3. t = [d \in 1 .. n |-> t[d]]
  BY <1>1 DEF shape_to_stride
<1>4. t \in Seq(Nat) /\ Len(t) = n
  <2>1. \A d \in 1 .. n : t[d] \in Nat
    BY <1>2
  <2> HIDE DEF n, t
  <2>2. t \in [1 .. n -> Nat]
    BY <1>3, <2>1
  <2> QED BY <1>1, <2>2
<1>5. ASSUME s # <<>> PROVE t[n] = TypeSize
  <2>1. n \in 1 .. n /\ n >= 1
    BY <1>1, <1>5
  <2>2. SubSeq(s, n + 1, n) = <<>>
    BY <1>1
  <2>3. Product(<<>>) = 1
    <3>1. <<>> \in Seq(Int) /\ Len(<<>>) = 0
      OBVIOUS
    <3>2. \E p \in [0 .. Len(<<>>) -> Int] : p[0] = 1 /\ Product(<<>>) = p[Len(<<>>)]
      BY <3>1, ProductSteps
    <3> QED BY <3>1, <3>2
  <2>4. t[n] = TypeSize * 1
    BY <1>2, <2>1, <2>2, <2>3
  <2> QED BY <2>4 DEF TypeSize
<1> QED
  BY <1>4, <1>5

(* The bytes of a tensor with the strides of its shape.                     *)
LEMMA BytesOfShape ==
  ASSUME NEW x, x.shape \in Seq(Nat), x.stride = shape_to_stride(x.shape)
  PROVE  BytesOf(x) = TypeSize * element_size(x.shape)
<1>1. CASE x.shape = <<>>
  BY <1>1 DEF BytesOf, element_size, TypeSize
<1>2. CASE x.shape # <<>>
  <2> DEFINE s == x.shape
             r == SubSeq(s, 2, Len(s))
  <2>1. s \in Seq(Int) /\ 1 \in DOMAIN s /\ s[1] \in Nat /\ r \in Seq(Nat) /\ 1 + 1 = 2
    BY <1>2
  <2>2. Product(s) = s[1] * Product(r)
    BY <1>2, <2>1, ProductTail
  <2>3. x.stride[1] = TypeSize * Product(r)
    BY <2>1 DEF shape_to_stride
  <2>4. Product(r) \in Nat
    BY <2>1, ProductType
  <2>5. BytesOf(x) = (TypeSize * Product(r)) * s[1]
    BY <1>2, <2>3 DEF BytesOf
  <2>6. element_size(s) = s[1] * Product(r)
    BY <1>2, <2>2 DEF element_size
  <2> HIDE DEF r, s
  <2>7. (TypeSize * Product(r)) * s[1] = TypeSize * (s[1] * Product(r))
    BY <2>1, <2>4 DEF TypeSize
  <2> QED BY <2>5, <2>6, <2>7 DEF s
<1> QED
  BY <1>1, <1>2

(* A tensor's numbers: its innermost stride is at least an element.         *)
Shapely(x) ==
  /\ x.shape \in Seq(Nat) /\ x.stride \in Seq(Nat)
  /\ Len(x.stride) = Len(x.shape) /\ x.offset \in Nat
  /\ x.shape # <<>> => x.stride[Len(x.shape)] >= TypeSize

(* The bytes a tensor spans are counted in Nat.                             *)
LEMMA BytesType ==
  ASSUME NEW x, Shapely(x)
  PROVE  BytesOf(x) \in Nat
<1>1. ASSUME x.shape # <<>> PROVE BytesOf(x) \in Nat
  <2>1. 1 \in DOMAIN x.shape /\ 1 \in DOMAIN x.stride
    BY <1>1 DEF Shapely
  <2>2. x.shape[1] \in Nat /\ x.stride[1] \in Nat
    BY <2>1 DEF Shapely
  <2>3. x.stride[1] * x.shape[1] \in Nat
    BY <2>2
  <2> QED BY <1>1, <2>3 DEF BytesOf
<1> QED
  BY <1>1 DEF BytesOf

(* The next dimension down: its strides add up to less than one above.      *)
LEMMA NextDimension ==
  ASSUME NEW end \in Int, NEW above \in Int, NEW size \in Int, NEW stride \in Int, NEW b \in Int,
         end + above <= b, above >= stride * size
  PROVE  end + (size - 1) * stride + stride <= b
<1> DEFINE m == (size - 1) * stride
           k == stride * size
<1>1. m + stride = k /\ m \in Int /\ k \in Int /\ above >= k
  OBVIOUS
<1> HIDE DEF m, k
<1>2. end + m + stride <= b
  BY <1>1
<1> QED
  BY <1>2 DEF m

(* A nested tensor reaches no further than its first dimension tells.       *)
LEMMA ReachBound ==
  ASSUME NEW x, Shapely(x), IsNested(x)
  PROVE  Reach(x) \in Int /\ Reach(x) <= x.offset + BytesOf(x)
<1> DEFINE n == Len(x.shape)
           s == x.shape
           t == x.stride
<1>1. n \in Nat /\ s \in Seq(Nat) /\ t \in Seq(Nat) /\ DOMAIN s = 1 .. n /\ DOMAIN t = 1 .. n
      /\ s \in Seq(Int) /\ t \in Seq(Int) /\ x.offset \in Nat /\ BytesOf(x) \in Nat
  BY BytesType DEF Shapely
<1>2. CASE element_size(s) = 0
  <2>1. Reach(x) = x.offset
    BY <1>2, Zenon DEF Reach
  <2> QED BY <1>1, <2>1
<1>3. CASE element_size(s) # 0
  <2>1. s # <<>> /\ Product(s) # 0 /\ n >= 1
    BY <1>1, <1>3 DEF element_size
  <2>2. \A d \in 1 .. n : s[d] \in Nat \ {0} /\ t[d] \in Nat
    BY <1>1, <2>1, ProductType
  <2>3. PICK p \in [0 .. n -> Int] :
          /\ p[0] = x.offset + TypeSize
          /\ \A d \in 1 .. n : p[d] = p[d - 1] + (s[d] - 1) * t[d]
          /\ Reach(x) = p[n]
    BY <1>1, <1>3, ReachSteps DEF Shapely
  <2>4. BytesOf(x) = t[1] * s[1] /\ t[n] >= TypeSize
    BY <2>1 DEF BytesOf, Shapely
  <2>5. \A d \in 1 .. n - 1 : t[d] >= t[d + 1] * s[d + 1]
    BY DEF IsNested
  <2> DEFINE m == x.offset + BytesOf(x) + TypeSize
  <2>6. m \in Int /\ x.offset + TypeSize + BytesOf(x) = m
    BY <1>1 DEF TypeSize
  <2>7. BytesOf(x) \in Int /\ x.offset \in Int /\ TypeSize \in Int
    BY <1>1 DEF TypeSize
  <2> HIDE DEF n, s, t, m
  <2> DEFINE S == {d \in 1 .. n : p[d] + t[d] <= m}
  <2>8. 1 \in S
    <3>1. 1 \in 1 .. n /\ 1 - 1 = 0 /\ s[1] \in Int /\ t[1] \in Int
      BY <1>1, <2>1, <2>2
    <3>2. p[1] = p[0] + (s[1] - 1) * t[1] /\ p[0] \in Int /\ p[0] + BytesOf(x) = m
      BY <2>3, <2>6, <2>7, <3>1
    <3>3. p[0] + (s[1] - 1) * t[1] + t[1] <= m
      <4>1. BytesOf(x) >= t[1] * s[1]
        BY <2>4, <2>7
      <4>2. p[0] + BytesOf(x) <= m
        BY <2>6, <3>2
      <4> QED BY <2>6, <2>7, <3>1, <3>2, <4>1, <4>2, NextDimension
    <3> QED BY <3>1, <3>2, <3>3
  <2>9. ASSUME NEW d \in 1 + 1 .. n, d - 1 \in S PROVE d \in S
    <3>1. d \in 1 .. n /\ d - 1 \in 1 .. n - 1 /\ d - 1 \in 1 .. n /\ (d - 1) + 1 = d /\ d - 1 \in 0 .. n
      BY <1>1
    <3>2. p[d] = p[d - 1] + (s[d] - 1) * t[d] /\ t[d - 1] >= t[d] * s[d]
      BY <2>3, <2>5, <3>1
    <3>3. p[d - 1] + t[d - 1] <= m
      BY <2>9
    <3>4. s[d] \in Int /\ t[d] \in Int /\ t[d - 1] \in Int
      BY <2>2, <3>1
    <3>5. p[d - 1] \in Int
      BY <2>3, <3>1
    <3>6. p[d - 1] + (s[d] - 1) * t[d] + t[d] <= m
      BY <2>6, <3>2, <3>3, <3>4, <3>5, NextDimension
    <3> QED BY <3>1, <3>2, <3>6
  <2>10. \A d \in 1 .. n : d \in S
    <3>1. 1 \in Nat
      OBVIOUS
    <3> HIDE DEF S
    <3> QED BY <1>1, <2>8, <2>9, <3>1, Upwards
  <2>11. n \in 1 .. n /\ n \in 0 .. n
    BY <1>1, <2>1
  <2>12. p[n] + t[n] <= m /\ p[n] \in Int /\ t[n] \in Int /\ t[n] >= TypeSize
    BY <2>2, <2>3, <2>4, <2>10, <2>11
  <2>13. p[n] <= x.offset + BytesOf(x)
    BY <2>6, <2>7, <2>12
  <2> QED BY <2>3, <2>12, <2>13
<1> QED
  BY <1>2, <1>3

(* A dimension that divides what is left.                                   *)
LEMMA DividedExactly ==
  ASSUME NEW rest \in Int, NEW dim \in Int, dim > 0, Divided(rest, dim) >= 0
  PROVE  Divided(rest, dim) * dim = rest
<1>1. rest > 0 /\ rest % dim = 0 /\ Divided(rest, dim) = rest \div dim
  BY DEF Divided
<1> DEFINE q == rest \div dim
           m == rest % dim
<1>2. q \in Int /\ rest = dim * q + m
  OBVIOUS
<1>3. m = 0 /\ Divided(rest, dim) = q
  BY <1>1
<1> HIDE DEF q, m
<1>4. q * dim = dim * q
  BY <1>2
<1> QED
  BY <1>2, <1>3, <1>4

(* There is one dimension to be filled in at most.                          *)
LEMMA OneNegative ==
  ASSUME NEW s \in Seq(Int), Cardinality(Negative(s)) <= 1,
         NEW a \in Negative(s), NEW b \in Negative(s)
  PROVE  a = b
<1> SUFFICES ASSUME a # b PROVE FALSE
  OBVIOUS
<1>1. IsFiniteSet(Negative(s))
  <2>1. IsFiniteSet(1 .. Len(s))
    BY FS_Interval
  <2>2. Negative(s) \subseteq 1 .. Len(s)
    BY DEF Negative
  <2> QED BY <2>1, <2>2, FS_Subset
<1>2. IsFiniteSet({a}) /\ Cardinality({a}) = 1
  BY FS_Singleton
<1>3. Cardinality({a} \cup {b}) = 1 + 1
  <2>1. b \notin {a}
    OBVIOUS
  <2>2. Cardinality({a} \cup {b}) = Cardinality({a}) + 1
    BY <1>2, <2>1, FS_AddElement
  <2> QED BY <1>2, <2>2, Zenon
<1>4. {a} \cup {b} \subseteq Negative(s)
  OBVIOUS
<1>5. Cardinality({a} \cup {b}) <= Cardinality(Negative(s))
  BY <1>1, <1>4, FS_Subset
<1>6. Cardinality(Negative(s)) \in Nat
  BY <1>1, FS_CardinalityType
<1> DEFINE c == Cardinality({a} \cup {b})
           m == Cardinality(Negative(s))
<1>7. c = 1 + 1 /\ c <= m /\ m <= 1 /\ m \in Nat
  BY <1>3, <1>5, <1>6
<1> HIDE DEF c, m
<1> QED
  BY <1>7

(* A shape that a tensor can be given has as many elements as the tensor.   *)
LEMMA ReshapeProduct ==
  ASSUME NEW s \in Seq(Int), NEW e \in Nat, CanReshape(s, e), s # <<>>
  PROVE  /\ remove_negative_dim(s, e) \in Seq(Nat) /\ remove_negative_dim(s, e) # <<>>
         /\ Product(remove_negative_dim(s, e)) = e
<1> DEFINE n == Len(s)
           R == Remaining(s, e)
           N == Negative(s)
           w == remove_negative_dim(s, e)
           u == [d \in 1 .. n |-> IF s[d] < 0 THEN 1 ELSE s[d]]
           F(d) == IF \E k \in N : k <= d THEN R ELSE 1
<1>1. n \in Nat /\ DOMAIN s = 1 .. n /\ n > 0 /\ N = {d \in 1 .. n : s[d] < 0}
      /\ \A d \in 1 .. n : s[d] \in Int /\ s[d] # 0
  BY DEF CanReshape, Negative
<1>2. PICK p \in [0 .. n -> Int] : /\ p[0] = e
                                   /\ \A d \in 1 .. n : p[d] = Divided(p[d - 1], s[d])
                                   /\ R = p[n]
  <2>1. e \in Int /\ \A d \in DOMAIN s : s[d] # 0
    BY <1>1
  <2>2. \E p \in [0 .. Len(s) -> Int] : /\ p[0] = e
                                        /\ \A d \in 1 .. Len(s) : p[d] = Divided(p[d - 1], s[d])
                                        /\ Remaining(s, e) = p[Len(s)]
    BY <2>1, RemainingSteps
  <2> QED BY <2>2
<1>3. R \in Int /\ R >= 0 /\ (N = {} => R = 1)
  <2>1. R \in Int
    BY <1>1, <1>2
  <2> HIDE DEF R, N
  <2>2. IF N = {} THEN R = 1 ELSE R >= 0
    BY DEF CanReshape, R, N
  <2> QED BY <2>1, <2>2
<1>4. \A a, b \in N : a = b
  BY OneNegative DEF CanReshape
<1>5. w = [d \in 1 .. n |-> IF s[d] < 0 THEN R ELSE s[d]]
  BY <1>1 DEF remove_negative_dim
<1> HIDE DEF R, N, w
<1>6. w \in Seq(Nat) /\ Len(w) = n /\ \A d \in 1 .. n : w[d] = IF s[d] < 0 THEN R ELSE s[d]
  <2>1. \A d \in 1 .. n : (IF s[d] < 0 THEN R ELSE s[d]) \in Nat
    BY <1>1, <1>3
  <2>2. w \in [1 .. n -> Nat]
    BY <1>5, <2>1
  <2> HIDE DEF n
  <2> QED BY <1>1, <1>5, <2>2
<1>7. u \in Seq(Int) /\ Len(u) = n /\ \A d \in 1 .. n : u[d] = IF s[d] < 0 THEN 1 ELSE s[d]
  <2>1. \A d \in 1 .. n : (IF s[d] < 0 THEN 1 ELSE s[d]) \in Int
    BY <1>1
  <2>2. u \in [1 .. n -> Int]
    BY <2>1
  <2> HIDE DEF n
  <2> QED BY <1>1, <2>2
<1> HIDE DEF u
<1>8. PICK q \in [0 .. n -> Int] : /\ q[0] = 1
                                   /\ \A d \in 1 .. n : q[d] = q[d - 1] * w[d]
                                   /\ Product(w) = q[n]
  <2>1. w \in Seq(Int)
    BY <1>6
  <2>2. \E q \in [0 .. Len(w) -> Int] : /\ q[0] = 1
                                        /\ \A d \in 1 .. Len(w) : q[d] = q[d - 1] * w[d]
                                        /\ Product(w) = q[Len(w)]
    BY <2>1, ProductSteps
  <2> QED BY <1>6, <2>2
<1>9. PICK v \in [0 .. n -> Int] : /\ v[0] = 1
                                   /\ \A d \in 1 .. n : v[d] = v[d - 1] * u[d]
  <2>1. \E v \in [0 .. Len(u) -> Int] : /\ v[0] = 1
                                        /\ \A d \in 1 .. Len(u) : v[d] = v[d - 1] * u[d]
    BY <1>7, ProductSteps
  <2> QED BY <1>7, <2>1
<1> HIDE DEF n
<1>10. \A d \in 0 .. n : p[d] >= 0 => v[d] * p[d] = e
  <2> DEFINE S == {d \in 0 .. n : p[d] >= 0 => v[d] * p[d] = e}
  <2>1. 0 \in S
    BY <1>1, <1>2, <1>9
  <2>2. ASSUME NEW d \in 0 + 1 .. n, d - 1 \in S PROVE d \in S
    <3>1. d \in 1 .. n /\ d \in 0 .. n /\ d - 1 \in 0 .. n
      BY <1>1
    <3>2. SUFFICES ASSUME p[d] >= 0 PROVE v[d] * p[d] = e
      BY <3>1
    <3>3. p[d] = Divided(p[d - 1], s[d]) /\ v[d] = v[d - 1] * u[d]
      BY <1>2, <1>9, <3>1
    <3>4. p[d] \in Int /\ p[d - 1] \in Int /\ v[d - 1] \in Int /\ s[d] \in Int /\ s[d] # 0
      BY <1>1, <1>2, <1>9, <3>1
    <3>5. CASE s[d] < 0
      <4>1. p[d] = p[d - 1] /\ u[d] = 1
        BY <1>7, <3>1, <3>3, <3>5 DEF Divided
      <4>2. v[d - 1] * p[d - 1] = e
        BY <2>2, <3>2, <4>1
      <4>3. v[d] = v[d - 1]
        BY <3>3, <3>4, <4>1
      <4> QED BY <4>1, <4>2, <4>3
    <3>6. CASE s[d] > 0
      <4>1. p[d] * s[d] = p[d - 1] /\ u[d] = s[d]
        BY <1>7, <3>1, <3>2, <3>3, <3>4, <3>6, DividedExactly
      <4>2. p[d - 1] >= 0
        <5>1. p[d - 1] > 0
          BY <3>2, <3>3, <3>4, <3>6 DEF Divided
        <5> QED BY <3>4, <5>1
      <4>3. v[d - 1] * p[d - 1] = e
        BY <2>2, <4>2
      <4>4. (v[d - 1] * s[d]) * p[d] = v[d - 1] * (p[d] * s[d])
        BY <3>4
      <4> QED BY <3>3, <4>1, <4>3, <4>4
    <3> QED BY <3>4, <3>5, <3>6
  <2>3. \A d \in 0 .. n : d \in S
    <3>1. 0 \in Nat
      OBVIOUS
    <3> HIDE DEF S
    <3> QED BY <1>1, <2>1, <2>2, <3>1, Upwards
  <2> QED BY <2>3
<1>11. \A d \in 0 .. n : F(d) \in Int
  BY <1>3
<1>12. \A d \in 0 .. n : q[d] = v[d] * F(d)
  <2> DEFINE S == {d \in 0 .. n : q[d] = v[d] * F(d)}
  <2>1. 0 \in S
    <3>1. F(0) = 1
      BY <1>1
    <3> HIDE DEF F
    <3> QED BY <1>1, <1>8, <1>9, <3>1
  <2>2. ASSUME NEW d \in 0 + 1 .. n, d - 1 \in S PROVE d \in S
    <3>1. d \in 1 .. n /\ d \in 0 .. n /\ d - 1 \in 0 .. n
      BY <1>1
    <3>2. q[d] = q[d - 1] * w[d] /\ v[d] = v[d - 1] * u[d] /\ q[d - 1] = v[d - 1] * F(d - 1)
      BY <1>8, <1>9, <2>2, <3>1
    <3>3. v[d - 1] \in Int /\ s[d] \in Int /\ s[d] # 0 /\ F(d - 1) \in Int
      BY <1>1, <1>9, <1>11, <3>1
    <3>4. CASE s[d] < 0
      <4>1. d \in N
        BY <1>1, <3>1, <3>4
      <4>2. F(d) = R /\ F(d - 1) = 1
        <5>1. \A k \in N : k = d
          BY <1>4, <4>1
        <5>2. ~(d <= d - 1) /\ d <= d
          BY <3>1
        <5> QED BY <4>1, <5>1, <5>2
      <4>3. w[d] = R /\ u[d] = 1
        BY <1>6, <1>7, <3>1, <3>4
      <4> HIDE DEF F
      <4> QED BY <1>3, <3>1, <3>2, <3>3, <4>2, <4>3
    <3>5. CASE s[d] > 0
      <4>1. d \notin N
        BY <1>1, <3>1, <3>5
      <4>2. F(d) = F(d - 1)
        <5>1. \A k \in N : k \in Int /\ k # d
          BY <1>1, <4>1
        <5>2. \A k \in N : k <= d <=> k <= d - 1
          BY <3>1, <5>1
        <5> QED BY <5>2
      <4>3. w[d] = s[d] /\ u[d] = s[d]
        <5>1. ~(s[d] < 0)
          BY <3>3, <3>5
        <5> QED BY <1>6, <1>7, <3>1, <5>1
      <4> HIDE DEF F
      <4>4. (v[d - 1] * F(d - 1)) * s[d] = (v[d - 1] * s[d]) * F(d - 1)
        BY <3>3
      <4> QED BY <3>1, <3>2, <4>2, <4>3, <4>4
    <3> QED BY <3>3, <3>4, <3>5
  <2>3. \A d \in 0 .. n : d \in S
    <3>1. 0 \in Nat
      OBVIOUS
    <3> HIDE DEF S
    <3> QED BY <1>1, <2>1, <2>2, <3>1, Upwards
  <2> QED BY <2>3
<1>13. F(n) = R
  BY <1>1, <1>3
<1>14. n \in 0 .. n
  BY <1>1
<1>15. Product(w) = v[n] * R
  <2> HIDE DEF F
  <2> QED BY <1>8, <1>12, <1>13, <1>14
<1>16. Product(w) = e
  BY <1>2, <1>3, <1>10, <1>14, <1>15
<1> QED
  BY <1>1, <1>6, <1>16 DEF w

-----------------------------------------------------------------------------
(* Tensors in their buffers.                                                *)

(* A thread between the start of an allocation and its end.                 *)
Pending(t) == at[t] \in {"context", "get", "insert"}

(* The bytes the first dimension spans are in the buffer.                   *)
InBuffer(x) == x.offset + BytesOf(x) <= x.buffer.size

(* A thread's tensor has numbers that make sense, and is in its buffer by   *)
(* the first dimension.                                                     *)
Fit(t) ==
  /\ Shapely(tensor[t])
  /\ tensor[t].buffer # NoBuffer =>
       /\ tensor[t].buffer.size \in Nat
       /\ t \notin torn /\ ~Pending(t) => InBuffer(tensor[t])

(* Every tensor fits its buffer but those that are being allocated and      *)
(* those a reallocation that threw has left.                                *)
ShapeInv == \A t \in Threads : Fit(t)

(* The shape a tensor is given is that of its strides.                      *)
LEMMA ShapedShapely ==
  ASSUME NEW x, IsTensor(x), x.offset \in Nat, NEW s \in Seq(Nat)
  PROVE  /\ Shapely(Shaped(x, s))
         /\ BytesOf(Shaped(x, s)) = TypeSize * element_size(s)
<1> DEFINE y == Shaped(x, s)
<1>1. y.shape = s /\ y.stride = shape_to_stride(s) /\ y.offset = x.offset
  BY ShapedTensor
<1> HIDE DEF y
<1>2. Shapely(y)
  BY <1>1, StrideType DEF Shapely, TypeSize
<1>3. BytesOf(y) = TypeSize * element_size(s)
  BY <1>1, BytesOfShape
<1> QED
  BY <1>2, <1>3 DEF y

(* A thread whose tensor a step leaves alone.                               *)
LEMMA StaysFit ==
  ASSUME NEW t \in Threads, Fit(t), tensor'[t] = tensor[t],
         Pending(t) => Pending(t)' \/ tensor[t].buffer = NoBuffer \/ t \in torn',
         t \in torn => t \in torn'
  PROVE  Fit(t)'
BY DEF Fit, Pending, Shapely, InBuffer, BytesOf

(* A thread that has a tensor x now.                                        *)
LEMMA IsFit ==
  ASSUME NEW t \in Threads, NEW x, tensor'[t] = x, Shapely(x),
         x.buffer # NoBuffer => x.buffer.size \in Nat,
         \/ x.buffer = NoBuffer
         \/ InBuffer(x)
         \/ Pending(t)'
         \/ t \in torn'
  PROVE  Fit(t)'
BY DEF Fit, Pending, Shapely, InBuffer, BytesOf

(* A step of thread t.                                                      *)
LEMMA OneFit ==
  ASSUME ShapeInv, NEW t \in Threads, Fit(t)',
         \A u \in Threads \ {t} : tensor'[u] = tensor[u] /\ at'[u] = at[u] /\ (u \in torn => u \in torn')
  PROVE  ShapeInv'
<1> SUFFICES ASSUME NEW u \in Threads PROVE Fit(u)'
  BY DEF ShapeInv
<1>1. CASE u = t
  BY <1>1
<1>2. CASE u # t
  <2>1. tensor'[u] = tensor[u] /\ at'[u] = at[u] /\ (u \in torn => u \in torn')
    BY <1>2
  <2>2. Pending(u) => Pending(u)'
    BY <2>1 DEF Pending
  <2> QED
    BY <2>1, <2>2, StaysFit DEF ShapeInv
<1> QED
  BY <1>1, <1>2

(* Steps that change no tensor.                                             *)
LEMMA SameTensorsFit ==
  ASSUME MemoryInv, ShapeInv, NEW t \in Threads, tensor' = tensor, torn \subseteq torn',
         NEW place, at' = at \/ at' = [at EXCEPT ![t] = place],
         \/ at' = at
         \/ ~Pending(t)
         \/ place \in {"context", "get", "insert"}
         \/ tensor[t].buffer = NoBuffer \/ t \in torn'
  PROVE  ShapeInv'
<1>1. at \in [Threads -> Places]
  BY DEF MemoryInv, ContextInv, ContextTypes
<1>2. \A u \in Threads \ {t} : tensor'[u] = tensor[u] /\ at'[u] = at[u] /\ (u \in torn => u \in torn')
  BY <1>1
<1>3. Pending(t) => Pending(t)' \/ tensor[t].buffer = NoBuffer \/ t \in torn'
  BY <1>1 DEF Pending
<1>4. Fit(t)'
  BY <1>3, StaysFit DEF ShapeInv
<1> QED
  BY <1>2, <1>4, OneFit

(* Switching devices and taking streams.                                    *)
LEMMA ContextStepFit ==
  ASSUME MemoryInv, ShapeInv, NEW t \in Threads, ContextStep(t),
         UNCHANGED <<bufferVars, tensor, torn, localVars>>
  PROVE  ShapeInv'
<1>1. CASE \E d \in Devices : SetDevice(t, d) \/ PopContext(t, d)
  <2>1. at' = at
    BY <1>1 DEF SetDevice, PopContext
  <2> QED
    BY <2>1, SameTensorsFit
<1>2. CASE \E d \in Devices : PushCreated(t, d)
  <2>1. at[t] = "idle" /\ at' = [at EXCEPT ![t] = "push"]
    BY <1>2 DEF PushCreated, LoadPos
  <2> QED
    BY <2>1, SameTensorsFit DEF Pending
<1>3. CASE Pushed(t)
  <2>1. at[t] = "push" /\ at' = [at EXCEPT ![t] = "idle"]
    BY <1>3 DEF Pushed, Exchange
  <2> QED
    BY <2>1, SameTensorsFit DEF Pending
<1>4. CASE ExchangeFailed(t)
  <2>1. at' = at
    BY <1>4 DEF ExchangeFailed
  <2> QED
    BY <2>1, SameTensorsFit
<1> QED
  BY <1>1, <1>2, <1>3, <1>4 DEF ContextStep

(* An allocation until its end, a delete.                                   *)
LEMMA AllocationFit ==
  ASSUME MemoryInv, ShapeInv, NEW t \in Threads,
         GetContext(t) \/ Got(t) \/ Malloc(t) \/ MallocFails(t) \/ RemovePtr(t) \/ Free(t)
  PROVE  ShapeInv'
<1>1. CASE GetContext(t)
  <2>1. tensor' = tensor /\ torn' = torn /\ at' = [at EXCEPT ![t] = "get"]
    BY <1>1 DEF GetContext, LoadPos
  <2> QED
    BY <2>1, SameTensorsFit
<1>2. CASE Got(t)
  <2>1. tensor' = tensor /\ torn' = torn /\ at' = [at EXCEPT ![t] = "context"]
    BY <1>2 DEF Got, Exchange
  <2> QED
    BY <2>1, SameTensorsFit
<1>3. CASE Malloc(t)
  <2>1. tensor' = tensor /\ torn' = torn /\ at' = [at EXCEPT ![t] = "insert"]
    BY <1>3 DEF Malloc
  <2> QED
    BY <2>1, SameTensorsFit
<1>4. CASE MallocFails(t)
  <2>1. tensor' = tensor /\ at' = [at EXCEPT ![t] = "idle"]
        /\ torn' = IF tensor[t].buffer = NoBuffer THEN torn ELSE torn \cup {t}
    BY <1>4 DEF MallocFails
  <2>2. torn \subseteq torn' /\ (tensor[t].buffer = NoBuffer \/ t \in torn')
    BY <2>1
  <2> QED
    BY <2>1, <2>2, SameTensorsFit
<1>5. CASE RemovePtr(t)
  <2>1. tensor' = tensor /\ torn' = torn /\ at[t] \in {"delete", "deleting"}
        /\ \E place : at' = [at EXCEPT ![t] = place]
    BY <1>5 DEF RemovePtr, StepTaken, At
  <2> QED
    BY <2>1, SameTensorsFit DEF Pending
<1>6. CASE Free(t)
  <2>1. tensor' = tensor /\ torn' = torn /\ at[t] \in {"delete", "deleting"}
        /\ \E place : at' = [at EXCEPT ![t] = place]
    BY <1>6 DEF Free, StepTaken, At
  <2> QED
    BY <2>1, SameTensorsFit DEF Pending
<1> QED
  BY <1>1, <1>2, <1>3, <1>4, <1>5, <1>6

(* A tensor that has changed alone.                                         *)
LEMMA ChangeFit ==
  ASSUME MemoryInv, ShapeInv, NEW t \in Threads, NEW x,
         tensor' = [tensor EXCEPT ![t] = x], torn \ {t} \subseteq torn',
         NEW place, at' = at \/ at' = [at EXCEPT ![t] = place],
         Shapely(x), x.buffer # NoBuffer => x.buffer.size \in Nat,
         \/ x.buffer = NoBuffer
         \/ InBuffer(x)
         \/ place \in {"context", "get", "insert"} /\ at' = [at EXCEPT ![t] = place]
         \/ t \in torn'
  PROVE  ShapeInv'
<1>1. at \in [Threads -> Places] /\ tensor = [u \in Threads |-> tensor[u]]
  BY DEF MemoryInv, ContextInv, ContextTypes, MemoryTypes
<1>2. tensor'[t] = x
  BY <1>1
<1>3. \A u \in Threads \ {t} : tensor'[u] = tensor[u] /\ at'[u] = at[u] /\ (u \in torn => u \in torn')
  BY <1>1
<1>4. \/ x.buffer = NoBuffer \/ InBuffer(x) \/ Pending(t)' \/ t \in torn'
  BY <1>1 DEF Pending
<1>5. Fit(t)'
  BY <1>2, <1>4, IsFit
<1> QED
  BY <1>3, <1>5, OneFit

(* A tensor that was moved from.                                            *)
LEMMA MovedShapely == Shapely(Moved) /\ Moved.buffer = NoBuffer
<1>1. Moved.shape = <<>> /\ Moved.stride = <<>> /\ Moved.offset = 0 /\ Moved.buffer = NoBuffer
  BY DEF Moved, Tensor
<1>2. <<>> \in Seq(Nat) /\ Len(<<>>) = 0
  OBVIOUS
<1>3. ASSUME NEW x, x.shape = <<>>, x.stride = <<>>, x.offset = 0 PROVE Shapely(x)
  BY <1>2, <1>3 DEF Shapely
<1> QED
  BY <1>1, <1>3

(* The fields of a tensor.                                                  *)
LEMMA TensorFields ==
  ASSUME NEW i, NEW s, NEW st, NEW o, NEW b
  PROVE  /\ Tensor(i, s, st, o, b).shape = s /\ Tensor(i, s, st, o, b).stride = st
         /\ Tensor(i, s, st, o, b).offset = o /\ Tensor(i, s, st, o, b).buffer = b
BY DEF Tensor

(* A buffer that was just allocated has the bytes of its tensor.            *)
LEMMA InsertFit ==
  ASSUME MemoryInv, ShapeInv, NEW t \in Threads, Insert(t)
  PROVE  ShapeInv'
<1> DEFINE x == tensor[t]
           b == Buffer(ptr[t], BytesOf(x), MyContext(t).id)
           y == [x EXCEPT !.offset = 0, !.buffer = b]
<1>1. tensor' = [tensor EXCEPT ![t] = y] /\ torn' = torn \ {t}
      /\ \E place : at' = [at EXCEPT ![t] = place]
  <2>1. tensor' = [tensor EXCEPT ![t] = y]
    BY Zenon DEF Insert
  <2>2. torn' = torn \ {t} /\ \E place : at' = [at EXCEPT ![t] = place]
    BY DEF Insert, Drops
  <2> QED BY <2>1, <2>2
<1>2. IsTensor(x) /\ Shapely(x)
  BY DEF MemoryInv, MemoryTypes, ShapeInv, Fit
<1>3. BytesOf(x) \in Nat
  BY <1>2, BytesType
<1>4. b.size = BytesOf(x)
  BY DEF Buffer
<1> HIDE DEF b
<1>5. y = Tensor(x.id, x.shape, x.stride, 0, b)
  <2>1. ASSUME NEW i, NEW s, NEW st, NEW o, NEW c
        PROVE  [Tensor(i, s, st, o, c) EXCEPT !.offset = 0, !.buffer = b] = Tensor(i, s, st, 0, b)
    <3>1. [Tensor(i, s, st, o, c) EXCEPT !.offset = 0, !.buffer = b]
            = [[Tensor(i, s, st, o, c) EXCEPT !.offset = 0] EXCEPT !.buffer = b]
      BY Zenon
    <3>2. [Tensor(i, s, st, o, c) EXCEPT !.offset = 0] = Tensor(i, s, st, 0, c)
      BY DEF Tensor
    <3>3. [Tensor(i, s, st, 0, c) EXCEPT !.buffer = b] = Tensor(i, s, st, 0, b)
      BY DEF Tensor
    <3> QED BY <3>1, <3>2, <3>3, Zenon
  <2>2. [Tensor(x.id, x.shape, x.stride, x.offset, x.buffer) EXCEPT !.offset = 0, !.buffer = b]
          = Tensor(x.id, x.shape, x.stride, 0, b)
    BY <2>1
  <2> QED BY <1>2, <2>2, Zenon DEF IsTensor
<1> HIDE DEF y
<1>6. y.shape = x.shape /\ y.stride = x.stride /\ y.offset = 0 /\ y.buffer = b
  BY <1>5, TensorFields
<1>7. Shapely(y)
  BY <1>2, <1>6 DEF Shapely
<1>8. BytesOf(y) = BytesOf(x)
  BY <1>6 DEF BytesOf
<1>9. InBuffer(y)
  BY <1>3, <1>4, <1>6, <1>8 DEF InBuffer
<1>10. y.buffer.size \in Nat
  BY <1>3, <1>4, <1>6
<1> HIDE DEF x
<1> QED
  BY <1>1, <1>7, <1>9, <1>10, ChangeFit

(* A shape that reallocate or a constructor lets through.                   *)
LEMMA PositiveShape ==
  ASSUME NEW s \in Seq(Nat \ {0})
  PROVE  s \in Seq(Nat)
OBVIOUS

(* A tensor that is made has no buffer.                                     *)
LEMMA ConstructFit ==
  ASSUME MemoryInv, ShapeInv, NEW t \in Threads, NEW d \in Devices, NEW shape \in Seq(Nat),
         Construct(t, d, shape)
  PROVE  ShapeInv'
<1> DEFINE m == [Moved EXCEPT !.id = d]
           x == Shaped(m, shape)
<1>1. m = Tensor(d, <<>>, <<>>, 0, NoBuffer)
  BY DEF Moved, Tensor
<1>2. IsTensor(m)
  BY <1>1 DEF IsTensor, Tensor
<1> HIDE DEF m
<1>3. m.offset = 0 /\ m.buffer = NoBuffer
  BY <1>1, TensorFields
<1>4. Shapely(x) /\ x.buffer = NoBuffer
  BY <1>2, <1>3, ShapedShapely, ShapedTensor
<1>5. tensor' = [tensor EXCEPT ![t] = x] /\ torn' = torn \ {t} /\ at' = at
  BY DEF Construct, Is, contextVars, m
<1> HIDE DEF x
<1> QED
  BY <1>4, <1>5, ChangeFit

(* A view passed the constructor's checks: its strides are at least those   *)
(* of its shape, and the first dimension ends in the buffer.                *)
LEMMA ConstructViewFit ==
  ASSUME MemoryInv, ShapeInv, NEW t \in Threads, NEW u \in Threads, NEW view \in Views,
         ConstructView(t, u, view)
  PROVE  ShapeInv'
<1> DEFINE b == tensor[u].buffer
           stride == IF view.stride = <<>> THEN shape_to_stride(view.shape) ELSE view.stride
           x == Tensor(b.id, view.shape, stride, view.offset, b)
           s == view.shape
<1>1. b # NoBuffer /\ CanView(s, stride, view.offset, b.size)
  BY DEF ConstructView
<1>2. tensor' = [tensor EXCEPT ![t] = x] /\ torn' = torn \ {t} /\ at' = at
  BY DEF ConstructView, Is, contextVars
<1>3. b.size \in Nat
  BY <1>1 DEF ShapeInv, Fit
<1>4. s \in Seq(Int) /\ view.stride \in Seq(Int) /\ view.offset \in Nat
  BY MemoryAssumption
<1>5. s \in Seq(Nat) /\ s # <<>>
  <2>1. \A d \in DOMAIN s : s[d] \in Nat
    BY <1>1, <1>4 DEF CanView, is_valid_shape_and_stride, is_valid_shape
  <2> QED BY <1>1, <1>4, <2>1 DEF CanView
<1> DEFINE r == shape_to_stride(s)
<1>6. r \in Seq(Nat) /\ Len(r) = Len(s) /\ r[Len(s)] = TypeSize
  BY <1>5, StrideType
<1>7. stride \in Seq(Int) /\ Len(stride) = Len(s) /\ \A d \in DOMAIN stride : stride[d] >= r[d]
  <2>1. stride \in Seq(Int)
    BY <1>4, <1>6
  <2> QED BY <1>1, <2>1 DEF CanView, is_valid_shape_and_stride
<1>8. s[1] * stride[1] + view.offset <= b.size /\ s[1] \in Nat /\ stride[1] \in Int
  <2>1. 1 \in DOMAIN s /\ 1 \in DOMAIN stride
    BY <1>5, <1>7
  <2>2. s[1] \in Nat /\ stride[1] \in Int
    BY <1>5, <1>7, <2>1
  <2>3. view.offset + s[1] * stride[1] <= b.size
    BY <1>1 DEF CanView
  <2> QED BY <1>3, <1>4, <2>2, <2>3
<1>9. x.shape = s /\ x.stride = stride /\ x.offset = view.offset /\ x.buffer = b
  BY TensorFields
<1> HIDE DEF r, stride, x, b
<1>10. stride \in Seq(Nat)
  <2>1. \A d \in DOMAIN stride : stride[d] \in Nat
    BY <1>6, <1>7
  <2> QED BY <1>7, <2>1
<1>11. stride[Len(s)] >= TypeSize
  BY <1>5, <1>6, <1>7
<1>12. Shapely(x)
  BY <1>4, <1>5, <1>7, <1>9, <1>10, <1>11 DEF Shapely
<1>13. InBuffer(x)
  <2>1. BytesOf(x) = stride[1] * s[1]
    BY <1>5, <1>9 DEF BytesOf
  <2>2. view.offset + stride[1] * s[1] <= b.size
    BY <1>3, <1>4, <1>8
  <2> QED BY <1>9, <2>1, <2>2 DEF InBuffer
<1> QED
  BY <1>2, <1>3, <1>9, <1>12, <1>13, ChangeFit

(* The buffer at hand is used again, or another is asked for.               *)
LEMMA ReallocateFit ==
  ASSUME MemoryInv, ShapeInv, NEW t \in Threads, NEW shape \in Seq(Nat), Reallocate(t, shape)
  PROVE  ShapeInv'
<1> DEFINE x == Shaped(tensor[t], shape)
           z == [x EXCEPT !.offset = 0]
<1>1. IsTensor(tensor[t]) /\ Fit(t)
  BY DEF MemoryInv, MemoryTypes, ShapeInv
<1>2. tensor[t].offset \in Nat
  BY <1>1 DEF Fit, Shapely
<1>3. Shapely(x) /\ BytesOf(x) = TypeSize * element_size(shape) /\ x.buffer = tensor[t].buffer
      /\ x.shape = shape /\ IsTensor(x)
  BY <1>1, <1>2, ShapedShapely, ShapedTensor
<1>4. x.buffer # NoBuffer => x.buffer.size \in Nat
  BY <1>1, <1>3 DEF Fit
<1>5. CASE BeginAllocate(t, x)
  <2>1. tensor' = [tensor EXCEPT ![t] = x] /\ torn' = torn /\ at' = [at EXCEPT ![t] = "context"]
    BY <1>5 DEF BeginAllocate
  <2> HIDE DEF x
  <2> QED BY <2>1, <1>3, <1>4, ChangeFit
<1>6. CASE x.buffer # NoBuffer /\ Fits(x) /\ Is(t, z)
  <2> HIDE DEF x
  <2>1. z = Tensor(x.id, x.shape, x.stride, 0, x.buffer)
    <3>1. ASSUME NEW i, NEW s, NEW st, NEW o, NEW c
          PROVE  [Tensor(i, s, st, o, c) EXCEPT !.offset = 0] = Tensor(i, s, st, 0, c)
      BY DEF Tensor
    <3>2. [Tensor(x.id, x.shape, x.stride, x.offset, x.buffer) EXCEPT !.offset = 0]
            = Tensor(x.id, x.shape, x.stride, 0, x.buffer)
      BY <3>1
    <3> QED BY <1>3, <3>2, Zenon DEF IsTensor
  <2>2. tensor' = [tensor EXCEPT ![t] = z] /\ torn' = torn \ {t} /\ at' = at
    BY <1>6 DEF Is, contextVars
  <2> HIDE DEF z
  <2>3. z.shape = x.shape /\ z.stride = x.stride /\ z.offset = 0 /\ z.buffer = x.buffer
    BY <2>1, TensorFields
  <2>4. Shapely(z) /\ BytesOf(z) = BytesOf(x)
    BY <1>3, <2>3 DEF Shapely, BytesOf
  <2>5. BytesOf(x) \in Nat /\ BytesOf(x) = element_size(shape) * TypeSize
    <3>1. BytesOf(x) \in Nat
      BY <1>3, BytesType
    <3>2. element_size(shape) \in Nat
      BY ProductType DEF element_size
    <3> QED BY <1>3, <3>1, <3>2 DEF TypeSize
  <2>6. BytesOf(x) <= x.buffer.size
    BY <1>3, <1>4, <1>6, <2>5 DEF Fits
  <2>7. InBuffer(z)
    BY <2>3, <2>4, <2>5, <2>6 DEF InBuffer
  <2> QED BY <1>4, <2>2, <2>3, <2>4, <2>7, ChangeFit
<1> QED
  BY <1>3, <1>5, <1>6 DEF Reallocate

(* A buffer is asked for with the first use.                                *)
LEMMA DataFit ==
  ASSUME MemoryInv, ShapeInv, NEW t \in Threads, Data(t)
  PROVE  ShapeInv'
<1>1. tensor' = [tensor EXCEPT ![t] = tensor[t]] /\ torn' = torn
      /\ at' = [at EXCEPT ![t] = "context"] /\ tensor[t].buffer = NoBuffer
  BY DEF Data, BeginAllocate
<1>2. Shapely(tensor[t])
  BY DEF ShapeInv, Fit
<1> QED
  BY <1>1, <1>2, ChangeFit

(* A tensor that is destroyed leaves one without a buffer.                  *)
LEMMA DestroyFit ==
  ASSUME MemoryInv, ShapeInv, NEW t \in Threads, Destroy(t)
  PROVE  ShapeInv'
<1>1. tensor' = [tensor EXCEPT ![t] = Moved] /\ torn' = torn \ {t}
      /\ \E place : at' = [at EXCEPT ![t] = place]
  BY DEF Destroy, Drops
<1> QED
  BY <1>1, MovedShapely, ChangeFit

(* A tensor that is reshaped spans as many bytes as before.                 *)
LEMMA ReshapedFit ==
  ASSUME NEW x, IsTensor(x), Shapely(x), NEW shape \in Seq(Int)
  PROVE  /\ Shapely(Reshaped(x, shape))
         /\ Reshaped(x, shape).buffer = x.buffer /\ Reshaped(x, shape).offset = x.offset
         /\ BytesOf(Reshaped(x, shape)) <= BytesOf(x)
<1> DEFINE e == element_size(x.shape)
           r == remove_negative_dim(shape, e)
<1>1. BytesOf(x) \in Nat
  BY BytesType
<1>2. CASE ~(is_continuous(x) /\ CanReshape(shape, e))
  <2>1. Reshaped(x, shape) = x
    BY <1>2 DEF Reshaped
  <2> QED BY <1>1, <2>1
<1>3. CASE is_continuous(x) /\ CanReshape(shape, e)
  <2>1. Reshaped(x, shape) = Shaped(x, r)
    BY <1>3 DEF Reshaped
  <2>2. x.shape \in Seq(Nat) /\ x.stride = shape_to_stride(x.shape) /\ x.offset \in Nat
    BY <1>3 DEF is_continuous, Shapely
  <2>3. e \in Nat
    BY <2>2, ProductType DEF element_size
  <2>4. BytesOf(x) = TypeSize * e
    BY <2>2, BytesOfShape
  <2>5. r \in Seq(Nat) /\ element_size(r) <= e /\ element_size(r) \in Nat
    <3>1. CASE shape = <<>>
      <4>1. r = <<>>
        BY <3>1 DEF remove_negative_dim
      <4> HIDE DEF e, r
      <4>2. element_size(r) = 0 /\ r \in Seq(Nat)
        BY <4>1 DEF element_size
      <4> QED BY <2>3, <4>2
    <3>2. CASE shape # <<>>
      <4> HIDE DEF e
      <4>1. r \in Seq(Nat) /\ r # <<>> /\ Product(r) = e
        BY <1>3, <2>3, <3>2, ReshapeProduct
      <4> QED BY <2>3, <4>1 DEF element_size
    <3> QED BY <3>1, <3>2
  <2> HIDE DEF e, r
  <2>6. Shapely(Shaped(x, r)) /\ BytesOf(Shaped(x, r)) = TypeSize * element_size(r)
        /\ Shaped(x, r).buffer = x.buffer /\ Shaped(x, r).offset = x.offset
    BY <2>2, <2>5, ShapedShapely, ShapedTensor
  <2>7. TypeSize * element_size(r) <= TypeSize * e
    BY <2>3, <2>5 DEF TypeSize
  <2> QED BY <2>1, <2>4, <2>6, <2>7
<1> QED
  BY <1>2, <1>3

(* A tensor is reshaped in its buffer.                                      *)
LEMMA ReshapeFit ==
  ASSUME MemoryInv, ShapeInv, NEW t \in Threads, NEW shape \in Seq(Int), Reshape(t, shape)
  PROVE  ShapeInv'
<1> DEFINE x == tensor[t]
           y == Reshaped(x, shape)
<1>1. tensor' = [tensor EXCEPT ![t] = y] /\ torn' = torn /\ at' = at /\ ~Pending(t)
  BY DEF Reshape, contextVars, Pending, Idle
<1>2. IsTensor(x) /\ Fit(t) /\ Shapely(x)
  BY DEF MemoryInv, MemoryTypes, ShapeInv, Fit
<1>3. Shapely(y) /\ y.buffer = x.buffer /\ y.offset = x.offset /\ BytesOf(y) <= BytesOf(x)
  BY <1>2, ReshapedFit
<1>4. BytesOf(x) \in Nat /\ BytesOf(y) \in Nat /\ x.offset \in Nat
  BY <1>2, <1>3, BytesType DEF Shapely
<1>5. y.buffer # NoBuffer => y.buffer.size \in Nat
  BY <1>2, <1>3 DEF Fit
<1>6. y.buffer = NoBuffer \/ InBuffer(y) \/ t \in torn'
  BY <1>1, <1>2, <1>3, <1>4 DEF Fit, InBuffer
<1> HIDE DEF x, y
<1> QED
  BY <1>1, <1>3, <1>5, <1>6, ChangeFit

(* Two tensors are swapped, and what was torn goes with the tensor.         *)
LEMMA MoveFit ==
  ASSUME MemoryInv, ShapeInv, NEW t \in Threads, NEW u \in Threads, Move(t, u)
  PROVE  ShapeInv'
<1>1. tensor = [v \in Threads |-> tensor[v]]
  BY DEF MemoryInv, MemoryTypes
<1>2. ~Pending(t) /\ ~Pending(u) /\ at' = at
  BY DEF Move, Idle, Pending, contextVars
<1>3. tensor' = [tensor EXCEPT ![t] = tensor[u], ![u] = tensor[t]]
      /\ torn' = {v \in Threads : (CASE v = t -> u [] v = u -> t [] OTHER -> v) \in torn}
  BY DEF Move
<1>4. ASSUME NEW v \in Threads, NEW w \in Threads, tensor'[v] = tensor[w],
             w \in torn => v \in torn', Pending(w) => Pending(v)'
      PROVE  Fit(v)'
  <2>1. Fit(w)
    BY DEF ShapeInv
  <2>2. Shapely(tensor[w]) /\ (tensor[w].buffer # NoBuffer => tensor[w].buffer.size \in Nat)
        /\ (tensor[w].buffer = NoBuffer \/ InBuffer(tensor[w]) \/ Pending(v)' \/ v \in torn')
    BY <1>4, <2>1 DEF Fit
  <2> QED BY <1>4, <2>2, IsFit
<1>5. ASSUME NEW v \in Threads PROVE Fit(v)'
  <2>1. CASE v = t
    <3>1. tensor'[v] = tensor[u]
      BY <1>1, <1>3, <2>1
    <3>2. u \in torn => v \in torn'
      BY <1>3, <2>1
    <3> QED BY <1>2, <1>4, <3>1, <3>2
  <2>2. CASE v # t /\ v = u
    <3>1. tensor'[v] = tensor[t]
      BY <1>1, <1>3, <2>2
    <3>2. t \in torn => v \in torn'
      BY <1>3, <2>2
    <3> QED BY <1>2, <1>4, <3>1, <3>2
  <2>3. CASE v # t /\ v # u
    <3>1. tensor'[v] = tensor[v]
      BY <1>1, <1>3, <2>3
    <3>2. v \in torn => v \in torn'
      BY <1>3, <2>3
    <3>3. Pending(v) => Pending(v)'
      BY <1>2 DEF Pending
    <3> QED BY <1>4, <3>1, <3>2, <3>3
  <2> QED BY <2>1, <2>2, <2>3
<1> QED
  BY <1>5 DEF ShapeInv

(* At first there is no tensor.                                             *)
LEMMA InitShape == MInit => ShapeInv
<1> SUFFICES ASSUME MInit, NEW t \in Threads PROVE Fit(t)
  BY DEF ShapeInv
<1>1. tensor[t] = Moved
  BY DEF MInit
<1> QED
  BY <1>1, MovedShapely DEF Fit

(* Every step keeps every tensor in its buffer.                             *)
LEMMA NextShape ==
  ASSUME MemoryInv, ShapeInv, [Next]_mvars
  PROVE  ShapeInv'
<1>1. ASSUME NEW t \in Threads, ContextStep(t), UNCHANGED <<bufferVars, tensor, torn, localVars>>
      PROVE  ShapeInv'
  BY <1>1, ContextStepFit
<1>2. ASSUME NEW t \in Threads, TensorStep(t)
      PROVE  ShapeInv'
  <2>1. ASSUME NEW made \in Made, Construct(t, made[1], made[2]) PROVE ShapeInv'
    BY <2>1, MemoryAssumption, PositiveShape, ConstructFit
  <2>2. ASSUME NEW shape \in Reallocates, Reallocate(t, shape) PROVE ShapeInv'
    BY <2>2, MemoryAssumption, PositiveShape, ReallocateFit
  <2>3. ASSUME NEW shape \in Reshapes, Reshape(t, shape) PROVE ShapeInv'
    BY <2>3, MemoryAssumption, ReshapeFit
  <2>4. ASSUME NEW u \in Threads, Move(t, u) PROVE ShapeInv'
    BY <2>4, MoveFit
  <2>5. ASSUME NEW u \in Threads, NEW view \in Views, ConstructView(t, u, view) PROVE ShapeInv'
    BY <2>5, ConstructViewFit
  <2> QED
    BY <1>2, <2>1, <2>2, <2>3, <2>4, <2>5, AllocationFit, InsertFit, DataFit, DestroyFit
    DEF TensorStep
<1>3. CASE UNCHANGED mvars
  BY <1>3 DEF mvars, contextVars, ShapeInv, Fit, Pending, Shapely, InBuffer, BytesOf
<1> QED
  BY <1>1, <1>2, <1>3 DEF Next

(* A tensor whose strides are nested reaches no byte outside its buffer, in *)
(* whatever order tensors are made, shared, moved, reshaped and             *)
(* reallocated, unless a reallocate threw: the bound that looks at the      *)
(* first dimension alone is enough (tensor/tensor.cpp).  For any shapes,    *)
(* with any number of dimensions of any size, in unbounded integers.        *)
THEOREM WithinBufferCorrect == Spec => []WithinBuffer
<1>1. MemoryInv /\ ShapeInv => WithinBuffer
  <2> SUFFICES ASSUME ShapeInv, NEW t \in Threads \ torn, Idle(t), tensor[t].buffer # NoBuffer,
                      IsNested(tensor[t])
               PROVE  Reach(tensor[t]) <= tensor[t].buffer.size
    BY DEF WithinBuffer
  <2> DEFINE x == tensor[t]
  <2>1. Shapely(x) /\ InBuffer(x) /\ x.buffer.size \in Nat
    BY DEF ShapeInv, Fit, Pending, Idle
  <2> HIDE DEF x
  <2>2. Reach(x) \in Int /\ Reach(x) <= x.offset + BytesOf(x)
    BY <2>1, ReachBound DEF x
  <2>3. x.offset \in Nat /\ BytesOf(x) \in Nat /\ x.offset + BytesOf(x) <= x.buffer.size
    BY <2>1, BytesType DEF Shapely, InBuffer
  <2> HIDE DEF Idle
  <2>4. Reach(x) <= x.buffer.size
    BY <2>1, <2>2, <2>3
  <2> QED BY <2>4 DEF x
<1> QED
  BY <1>1, InitMemory, NextMemory, InitShape, NextShape, PTL DEF Spec
=============================================================================
