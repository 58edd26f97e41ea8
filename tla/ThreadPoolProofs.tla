-------------------------- MODULE ThreadPoolProofs --------------------------
(***************************************************************************)
(* Proofs about the thread pool and the clients of parallel_run, for any    *)
(* number of workers, clients and tasks, and whatever tasks enqueue: no     *)
(* wakeup is lost, every task is in one place, what is enqueued from        *)
(* outside has run when the pool is gone, and parallel_run returns with its *)
(* interval worked on.                                                      *)
(***************************************************************************)
EXTENDS ParallelRun, FiniteSetTheorems, TLAPS

(* The variables have their types; a thread within enqueue has a task to    *)
(* enqueue, and a worker that runs none has none.                           *)
TypeOK ==
  /\ next_worker_ \in Workers
  /\ local_queue \in [Workers -> Seq(Tasks)]
  /\ sleeping \subseteq Workers
  /\ stop \subseteq Workers
  /\ worker \in [Workers -> Tasks \cup {"idle", "exited"}]
  /\ plan \in [Threads -> Seq(Tasks)]
  /\ at \in [Threads -> {"out", "claim", "push", "notify"}]
  /\ idx \in [Threads -> Workers]
  /\ dtor \in {"no", "stopping", "destroyed"}
  /\ \A a \in Threads : plan[a] = <<>> => at[a] = "out"
  /\ \A w \in Workers : worker[w] \notin Tasks => plan[w] = <<>>

Listed(s, t) == \E i \in 1 .. Len(s) : s[i] = t

(* A task is not forgotten: it has run, or runs, or is in the queue of a    *)
(* worker that has not left its loop.                                       *)
Kept(t) ==
  \/ t \in done
  \/ \E w \in Workers : worker[w] = t
  \/ \E w \in Workers : worker[w] # "exited" /\ Listed(local_queue[w], t)

(* No worker leaves before the destructor, which waits for the clients.     *)
Shutdown ==
  /\ dtor = "no" => ~shutting_down_ /\ stop = {}
  /\ dtor # "no" => \A c \in Clients : plan[c] = <<>>
  /\ \A w \in Workers : worker[w] = "exited" => w \in stop
  /\ dtor = "destroyed" => \A w \in Workers : worker[w] = "exited"

(* What a client wanted to enqueue is kept, or still to be enqueued.        *)
Accounted ==
  \A c \in Clients : \A i \in 1 .. Len(Outside[c]) :
    Listed(plan[c], Outside[c][i]) \/ Kept(Outside[c][i])

(* A client that is about to notify has handed its task over.               *)
Handed ==
  \A c \in Clients : at[c] = "notify" => Kept(Head(plan[c]))

Inv == TypeOK /\ NoLostWakeup /\ Shutdown /\ Accounted /\ Handed

-----------------------------------------------------------------------------
LEMMA NextWorkerType ==
  ASSUME NEW n \in Workers
  PROVE  NextWorker(n) \in Workers
  BY ThreadPoolAssumption, SMT DEF NextWorker, Workers

(* Taking the head of a sequence leaves the rest of its elements.           *)
LEMMA ListedTail ==
  ASSUME NEW S, NEW s \in Seq(S), s # <<>>, NEW t
  PROVE  /\ Head(s) \in S /\ Tail(s) \in Seq(S)
         /\ Listed(s, t) => t = Head(s) \/ Listed(Tail(s), t)
<1>1. Head(s) \in S /\ Tail(s) \in Seq(S)
  BY SMT
<1>2. ASSUME NEW i \in 1 .. Len(s), s[i] = t, t # Head(s)
      PROVE  Listed(Tail(s), t)
  <2>1. i # 1
    BY <1>2, SMT
  <2>2. i - 1 \in 1 .. Len(Tail(s)) /\ Tail(s)[i - 1] = s[i]
    BY <2>1, SMT
  <2>3. QED
    BY <2>2, <1>2 DEF Listed
<1>3. QED
  BY <1>1, <1>2 DEF Listed

(* Appending keeps the elements there were and adds one.                    *)
LEMMA ListedAppend ==
  ASSUME NEW S, NEW s \in Seq(S), NEW e \in S, NEW t
  PROVE  /\ Append(s, e) \in Seq(S) /\ Append(s, e) # <<>>
         /\ Listed(s, t) => Listed(Append(s, e), t)
         /\ Listed(Append(s, e), e)
<1>1. Append(s, e) \in Seq(S)
  BY SMT
<1>2. Len(Append(s, e)) = Len(s) + 1 /\ Append(s, e)[Len(s) + 1] = e /\ Len(s) \in Nat
  BY SMT
<1>3. \A i \in 1 .. Len(s) : i \in 1 .. Len(Append(s, e)) /\ Append(s, e)[i] = s[i]
  BY SMT
<1>4. Len(s) + 1 \in 1 .. Len(Append(s, e))
  BY <1>2, SMT
<1>5. Append(s, e) # <<>>
  BY <1>1, <1>2, SMT
<1>6. QED
  BY <1>1, <1>2, <1>3, <1>4, <1>5 DEF Listed

-----------------------------------------------------------------------------
LEMMA InitInv ==
  Init => Inv
<1> SUFFICES ASSUME Init PROVE Inv
  OBVIOUS
<1> USE DEF Init
<1>1. 0 \in Workers
  BY ThreadPoolAssumption, SMT DEF Workers
<1>2. \A c \in Clients : Outside[c] \in Seq(Tasks)
  BY ThreadPoolAssumption
<1>3. <<>> \in Seq(Tasks)
  BY SMT
<1>4. TypeOK
  <2>1. plan \in [Threads -> Seq(Tasks)]
    BY <1>2, <1>3
  <2>2. local_queue \in [Workers -> Seq(Tasks)]
    BY <1>3
  <2>3. \A w \in Workers : w \notin Clients
    BY ThreadPoolAssumption
  <2>4. QED
    BY <1>1, <2>1, <2>2, <2>3 DEF TypeOK, Threads
<1>5. NoLostWakeup
  BY DEF NoLostWakeup
<1>6. Shutdown
  BY DEF Shutdown
<1>7. Accounted
  BY DEF Accounted, Listed, Threads
<1>8. Handed
  BY DEF Handed, Threads
<1>9. QED
  BY <1>4, <1>5, <1>6, <1>7, <1>8 DEF Inv

-----------------------------------------------------------------------------
(* Types, action by action.                                                 *)
LEMMA TypeStep ==
  ASSUME TypeOK, [Next]_vars
  PROVE  TypeOK'
<1> USE DEF TypeOK, Threads
<1> USE DEF poolVars, callVars
<1>1. ASSUME NEW a \in Threads, Check(a) PROVE TypeOK'
  BY <1>1 DEF Check
<1>2. ASSUME NEW a \in Threads, Refuse(a) PROVE TypeOK'
  <2>1. <<>> \in Seq(Tasks)
    BY SMT
  <2>2. QED
    BY <1>2, <2>1 DEF Refuse
<1>3. ASSUME NEW a \in Threads, Claim(a) PROVE TypeOK'
  BY <1>3, NextWorkerType DEF Claim
<1>4. ASSUME NEW a \in Threads, Push(a) PROVE TypeOK'
  <2>1. plan[a] \in Seq(Tasks) /\ plan[a] # <<>>
    BY <1>4 DEF Push
  <2>2. Head(plan[a]) \in Tasks
    BY <2>1, ListedTail
  <2>3. Append(local_queue[idx[a]], Head(plan[a])) \in Seq(Tasks)
    BY <2>2, ListedAppend
  <2>4. local_queue' \in [Workers -> Seq(Tasks)]
    BY <1>4, <2>3 DEF Push
  <2>5. QED
    BY <1>4, <2>4 DEF Push
<1>5. ASSUME NEW a \in Threads, Notify(a) PROVE TypeOK'
  <2>1. plan[a] \in Seq(Tasks) /\ plan[a] # <<>>
    BY <1>5 DEF Notify
  <2>2. Tail(plan[a]) \in Seq(Tasks)
    BY <2>1, ListedTail
  <2>3. \A w \in Workers : w = a => worker[w] \in Tasks
    BY <2>1
  <2>4. plan' \in [Threads -> Seq(Tasks)] /\ at' \in [Threads -> {"out", "claim", "push", "notify"}]
    BY <1>5, <2>2 DEF Notify
  <2>5. \A b \in Threads : plan'[b] = <<>> => at'[b] = "out"
    BY <1>5 DEF Notify
  <2>6. \A w \in Workers : worker'[w] \notin Tasks => plan'[w] = <<>>
    BY <1>5, <2>3 DEF Notify
  <2>7. QED
    BY <1>5, <2>4, <2>5, <2>6 DEF Notify, AfterNotify
<1>6. ASSUME NEW w \in Workers, Take(w) PROVE TypeOK'
  <2>1. local_queue[w] \in Seq(Tasks) /\ local_queue[w] # <<>>
    BY <1>6 DEF Take
  <2>2. Head(local_queue[w]) \in Tasks /\ Tail(local_queue[w]) \in Seq(Tasks)
    BY <2>1, ListedTail
  <2>3. Inside[Head(local_queue[w])] \in Seq(Tasks)
    BY <2>2, ThreadPoolAssumption
  <2>4. worker[w] \notin Tasks
    BY <1>6, ThreadPoolAssumption DEF Take, Awake
  <2>5. at[w] = "out"
    BY <2>4
  <2>6. /\ local_queue' \in [Workers -> Seq(Tasks)]
        /\ plan' \in [Threads -> Seq(Tasks)]
        /\ worker' \in [Workers -> Tasks \cup {"idle", "exited"}]
    BY <1>6, <2>2, <2>3 DEF Take, AfterTake
  <2>7. \A b \in Threads : plan'[b] = <<>> => at'[b] = "out"
    BY <1>6, <2>5 DEF Take
  <2>8. \A v \in Workers : worker'[v] \notin Tasks => plan'[v] = <<>>
    BY <1>6, <2>2 DEF Take
  <2>9. QED
    BY <1>6, <2>6, <2>7, <2>8 DEF Take
<1>7. ASSUME NEW w \in Workers, Sleep(w) PROVE TypeOK'
  BY <1>7 DEF Sleep
<1>8. ASSUME NEW w \in Workers, Exit(w) PROVE TypeOK'
  <2>1. worker[w] \notin Tasks
    BY <1>8, ThreadPoolAssumption DEF Exit, Awake
  <2>2. QED
    BY <1>8, <2>1 DEF Exit
<1>9. ASSUME NEW w \in Workers, Finish(w) PROVE TypeOK'
  BY <1>9 DEF Finish
<1>10. ASSUME NEW w \in Workers, WakeSpuriously(w) PROVE TypeOK'
  BY <1>10 DEF WakeSpuriously
<1>11. ASSUME BeginDestroy PROVE TypeOK'
  BY <1>11 DEF BeginDestroy
<1>12. ASSUME NEW w \in Workers, RequestStop(w) PROVE TypeOK'
  BY <1>12 DEF RequestStop, AfterStop
<1>13. ASSUME Joined PROVE TypeOK'
  BY <1>13 DEF Joined
<1>14. ASSUME UNCHANGED vars PROVE TypeOK'
  BY <1>14 DEF vars
<1>15. QED
  BY <1>1, <1>2, <1>3, <1>4, <1>5, <1>6, <1>7, <1>8, <1>9, <1>10, <1>11, <1>12, <1>13, <1>14
     DEF Next, Enqueue, Work, Stop

(* Whoever adds a task to the queue of a sleeping worker is on the way to   *)
(* notify it, and a worker goes to sleep on an empty queue only.            *)
LEMMA WakeupStep ==
  ASSUME TypeOK, NoLostWakeup, [Next]_vars
  PROVE  NoLostWakeup'
<1> DEFINE Coming(w) == \E a \in Threads : at[a] = "notify" /\ idx[a] = w
           Slept(w) == w \notin stop /\ (local_queue[w] # <<>> => Coming(w))
<1> USE DEF TypeOK, poolVars, callVars
<1>0. \A w \in sleeping : w \in Workers /\ Slept(w)
  BY DEF NoLostWakeup
<1>1. ASSUME NEW a \in Threads, Check(a) PROVE NoLostWakeup'
  <2>1. \A w \in sleeping : Coming(w) => Coming(w)'
    BY <1>1 DEF Check
  <2>2. QED
    BY <1>0, <1>1, <2>1 DEF Check, NoLostWakeup
<1>2. ASSUME NEW a \in Threads, Refuse(a) PROVE NoLostWakeup'
  BY <1>0, <1>2 DEF Refuse, NoLostWakeup
<1>3. ASSUME NEW a \in Threads, Claim(a) PROVE NoLostWakeup'
  <2>1. \A w \in sleeping : Coming(w) => Coming(w)'
    BY <1>3 DEF Claim
  <2>2. QED
    BY <1>0, <1>3, <2>1 DEF Claim, NoLostWakeup
<1>4. ASSUME NEW a \in Threads, Push(a) PROVE NoLostWakeup'
  <2>1. \A w \in sleeping : Coming(w) => Coming(w)'
    BY <1>4 DEF Push
  <2>2. Coming(idx[a])'
    BY <1>4 DEF Push
  <2>3. \A w \in Workers : w # idx[a] => local_queue'[w] = local_queue[w]
    BY <1>4 DEF Push
  <2>4. \A w \in sleeping : Slept(w)'
    BY <1>0, <1>4, <2>1, <2>2, <2>3 DEF Push
  <2>5. QED
    BY <1>4, <2>4 DEF Push, NoLostWakeup
<1>5. ASSUME NEW a \in Threads, Notify(a) PROVE NoLostWakeup'
  <2>1. \A w \in sleeping \ {idx[a]} : Coming(w) => Coming(w)'
    BY <1>5 DEF Notify
  <2>2. QED
    BY <1>0, <1>5, <2>1 DEF Notify, AfterNotify, NoLostWakeup
<1>6. ASSUME NEW w \in Workers, Take(w) PROVE NoLostWakeup'
  <2>1. \A v \in sleeping : local_queue'[v] = local_queue[v]
    BY <1>6 DEF Take, Awake, AfterTake
  <2>2. QED
    BY <1>0, <1>6, <2>1 DEF Take, NoLostWakeup
<1>7. ASSUME NEW w \in Workers, Sleep(w) PROVE NoLostWakeup'
  BY <1>0, <1>7 DEF Sleep, NoLostWakeup
<1>8. ASSUME NEW w \in Workers, Exit(w) PROVE NoLostWakeup'
  BY <1>0, <1>8 DEF Exit, NoLostWakeup
<1>9. ASSUME NEW w \in Workers, Finish(w) PROVE NoLostWakeup'
  BY <1>0, <1>9 DEF Finish, NoLostWakeup
<1>10. ASSUME NEW w \in Workers, WakeSpuriously(w) PROVE NoLostWakeup'
  BY <1>0, <1>10 DEF WakeSpuriously, NoLostWakeup
<1>11. ASSUME BeginDestroy PROVE NoLostWakeup'
  BY <1>0, <1>11 DEF BeginDestroy, NoLostWakeup
<1>12. ASSUME NEW w \in Workers, RequestStop(w) PROVE NoLostWakeup'
  BY <1>0, <1>12 DEF RequestStop, AfterStop, NoLostWakeup
<1>13. ASSUME Joined PROVE NoLostWakeup'
  BY <1>0, <1>13 DEF Joined, NoLostWakeup
<1>14. ASSUME UNCHANGED vars PROVE NoLostWakeup'
  BY <1>0, <1>14 DEF vars, NoLostWakeup
<1>15. QED
  BY <1>1, <1>2, <1>3, <1>4, <1>5, <1>6, <1>7, <1>8, <1>9, <1>10, <1>11, <1>12, <1>13, <1>14
     DEF Next, Enqueue, Work, Stop

(* The order of the shutdown.                                               *)
LEMMA ShutdownStep ==
  ASSUME TypeOK, Shutdown, [Next]_vars
  PROVE  Shutdown'
<1> USE DEF TypeOK, poolVars, callVars, Shutdown, Threads
<1>0. \A w \in Workers : w \notin Clients
  BY ThreadPoolAssumption
<1>1. ASSUME NEW a \in Threads, Check(a) PROVE Shutdown'
  BY <1>1 DEF Check
<1>2. ASSUME NEW a \in Threads, Refuse(a) PROVE Shutdown'
  BY <1>2 DEF Refuse
<1>3. ASSUME NEW a \in Threads, Claim(a) PROVE Shutdown'
  BY <1>3 DEF Claim
<1>4. ASSUME NEW a \in Threads, Push(a) PROVE Shutdown'
  BY <1>4 DEF Push
<1>5. ASSUME NEW a \in Threads, Notify(a) PROVE Shutdown'
  <2>1. \A c \in Clients : plan[c] = <<>> => plan'[c] = <<>>
    BY <1>5 DEF Notify
  <2>2. QED
    BY <1>5, <2>1 DEF Notify
<1>6. ASSUME NEW w \in Workers, Take(w) PROVE Shutdown'
  <2>1. \A c \in Clients : plan'[c] = plan[c]
    BY <1>0, <1>6 DEF Take
  <2>2. dtor # "destroyed"
    BY <1>6 DEF Take, Awake
  <2>3. \A v \in Workers : worker'[v] = "exited" => worker[v] = "exited"
    <3>1. Head(local_queue[w]) \in Tasks
      BY <1>6, ListedTail DEF Take
    <3>2. QED
      BY <1>6, <3>1, ThreadPoolAssumption DEF Take
  <2>4. QED
    BY <1>6, <2>1, <2>2, <2>3 DEF Take
<1>7. ASSUME NEW w \in Workers, Sleep(w) PROVE Shutdown'
  BY <1>7 DEF Sleep
<1>8. ASSUME NEW w \in Workers, Exit(w) PROVE Shutdown'
  BY <1>8 DEF Exit, MayExit
<1>9. ASSUME NEW w \in Workers, Finish(w) PROVE Shutdown'
  <2>1. worker[w] # "exited"
    BY <1>9, ThreadPoolAssumption DEF Finish
  <2>2. QED
    BY <1>9, <2>1 DEF Finish
<1>10. ASSUME NEW w \in Workers, WakeSpuriously(w) PROVE Shutdown'
  BY <1>10 DEF WakeSpuriously
<1>11. ASSUME BeginDestroy PROVE Shutdown'
  BY <1>11 DEF BeginDestroy
<1>12. ASSUME NEW w \in Workers, RequestStop(w) PROVE Shutdown'
  BY <1>12 DEF RequestStop
<1>13. ASSUME Joined PROVE Shutdown'
  BY <1>13 DEF Joined
<1>14. ASSUME UNCHANGED vars PROVE Shutdown'
  BY <1>14 DEF vars
<1>15. QED
  BY <1>1, <1>2, <1>3, <1>4, <1>5, <1>6, <1>7, <1>8, <1>9, <1>10, <1>11, <1>12, <1>13, <1>14
     DEF Next, Enqueue, Work, Stop

(* A task that is kept stays kept: in particular, a worker leaves its loop  *)
(* with an empty queue.                                                     *)
LEMMA KeptStep ==
  ASSUME TypeOK, [Next]_vars, NEW t \in Tasks, Kept(t)
  PROVE  Kept(t)'
<1> USE DEF TypeOK, poolVars, callVars
<1>1. ASSUME NEW a \in Threads, Push(a) PROVE Kept(t)'
  <2>1. Head(plan[a]) \in Tasks
    BY <1>1, ListedTail DEF Push
  <2>2. \A w \in Workers : Listed(local_queue[w], t) => Listed(local_queue'[w], t)
    BY <1>1, <2>1, ListedAppend DEF Push
  <2>3. QED
    BY <1>1, <2>2 DEF Push, Kept
<1>2. ASSUME NEW w \in Workers, Take(w) PROVE Kept(t)'
  <2>1. Head(local_queue[w]) \in Tasks
    BY <1>2, ListedTail DEF Take
  <2>2. worker'[w] # "exited" /\ worker[w] = "idle"
    BY <1>2, <2>1, ThreadPoolAssumption DEF Take, Awake
  <2>3. CASE t \in done
    BY <1>2, <2>3 DEF Take, Kept
  <2>4. ASSUME NEW v \in Workers, worker[v] = t
        PROVE  Kept(t)'
    <3>1. CASE v # w
      BY <1>2, <2>4, <3>1 DEF Take, Kept
    <3>2. CASE v = w
      BY <2>2, <2>4, <3>2, ThreadPoolAssumption
    <3>3. QED
      BY <3>1, <3>2
  <2>5. ASSUME NEW v \in Workers, worker[v] # "exited", Listed(local_queue[v], t)
        PROVE  Kept(t)'
    <3>1. CASE v # w
      <4>1. local_queue'[v] = local_queue[v] /\ worker'[v] = worker[v]
        BY <1>2, <3>1 DEF Take, AfterTake
      <4>2. QED
        BY <2>5, <4>1 DEF Kept
    <3>2. CASE v = w
      <4>1. t = Head(local_queue[w]) \/ Listed(Tail(local_queue[w]), t)
        BY <1>2, <2>5, <3>2, ListedTail DEF Take
      <4>2. worker'[w] = Head(local_queue[w]) /\ local_queue'[w] = Tail(local_queue[w])
        BY <1>2 DEF Take, AfterTake
      <4>3. QED
        BY <2>2, <4>1, <4>2 DEF Kept
    <3>3. QED
      BY <3>1, <3>2
  <2>6. QED
    BY <2>3, <2>4, <2>5 DEF Kept
<1>3. ASSUME NEW w \in Workers, Exit(w) PROVE Kept(t)'
  <2>1. ~Listed(local_queue[w], t)
    BY <1>3, SMT DEF Exit, MayExit, Listed
  <2>2. \A v \in Workers : v # w => worker'[v] = worker[v]
    BY <1>3 DEF Exit
  <2>3. worker[w] # t
    BY <1>3, ThreadPoolAssumption DEF Exit, Awake
  <2>4. QED
    BY <1>3, <2>1, <2>2, <2>3 DEF Exit, Kept
<1>4. ASSUME NEW w \in Workers, Finish(w) PROVE Kept(t)'
  <2>1. \A v \in Workers : v # w => worker'[v] = worker[v]
    BY <1>4 DEF Finish
  <2>2. worker'[w] # "exited"
    BY <1>4 DEF Finish
  <2>3. QED
    BY <1>4, <2>1, <2>2 DEF Finish, Kept
<1>5. ASSUME UNCHANGED <<local_queue, worker, done>> PROVE Kept(t)'
  BY <1>5 DEF Kept
<1>6. QED
  BY <1>1, <1>2, <1>3, <1>4, <1>5
     DEF Next, Enqueue, Work, Stop, Check, Refuse, Claim, Notify, Sleep, WakeSpuriously,
         BeginDestroy, RequestStop, Joined, vars

(* What a client pushes is kept, since no worker has left yet.              *)
LEMMA PushKeeps ==
  ASSUME Inv, NEW c \in Clients, Push(c)
  PROVE  Kept(Head(plan[c]))'
<1> USE DEF Inv, TypeOK, Threads
<1>1. plan[c] # <<>> /\ Head(plan[c]) \in Tasks
  BY ListedTail DEF Push
<1>2. worker'[idx[c]] # "exited"
  BY <1>1 DEF Shutdown, Push, poolVars
<1>3. local_queue'[idx[c]] = Append(local_queue[idx[c]], Head(plan[c])) /\ plan' = plan
  BY DEF Push
<1>4. Listed(local_queue'[idx[c]], Head(plan[c]))
  BY <1>1, <1>3, ListedAppend
<1>5. QED
  BY <1>2, <1>3, <1>4 DEF Kept

LEMMA HandedStep ==
  ASSUME Inv, [Next]_vars
  PROVE  Handed'
<1> SUFFICES ASSUME NEW c \in Clients, (at[c] = "notify")'
             PROVE  Kept(Head(plan[c]))'
  BY DEF Handed
<1> USE DEF TypeOK, Threads, poolVars, callVars
<1>0. TypeOK /\ c \notin Workers
  BY ThreadPoolAssumption DEF Inv
<1>1. CASE Push(c)
  BY <1>1, PushKeeps
<1>2. CASE ~Push(c)
  <2>1. at[c] = "notify" /\ plan'[c] = plan[c]
    BY <1>0, <1>2
       DEF Next, Enqueue, Work, Stop, Check, Refuse, Claim, Push, Notify, Take, Sleep, Exit, Finish,
           WakeSpuriously, BeginDestroy, RequestStop, Joined, vars
  <2>2. Kept(Head(plan[c]))
    BY <2>1 DEF Inv, Handed
  <2>3. PICK t \in Tasks : t = Head(plan[c])
    BY <1>0, <2>1, ListedTail
  <2>4. Kept(t)'
    BY <1>0, <2>2, <2>3, KeptStep
  <2>5. QED
    BY <2>1, <2>3, <2>4 DEF Kept
<1>3. QED
  BY <1>1, <1>2

LEMMA AccountedStep ==
  ASSUME Inv, [Next]_vars
  PROVE  Accounted'
<1> SUFFICES ASSUME NEW c \in Clients, NEW i \in 1 .. Len(Outside[c])
             PROVE  (Listed(plan[c], Outside[c][i]) \/ Kept(Outside[c][i]))'
  BY DEF Accounted
<1>0. TypeOK /\ c \in Threads /\ c \notin Workers /\ Outside[c] \in Seq(Tasks)
  BY ThreadPoolAssumption DEF Inv, Threads
<1>1. PICK t \in Tasks : t = Outside[c][i]
  BY <1>0, SMT
<1>2. CASE Kept(t)
  BY <1>0, <1>1, <1>2, KeptStep
<1>3. CASE Listed(plan[c], t)
  <2>1. plan[c] \in Seq(Tasks) /\ plan[c] # <<>>
    BY <1>0, <1>3, SMT DEF TypeOK, Listed
  <2>2. dtor = "no" /\ ~shutting_down_
    BY <1>0, <2>1 DEF Inv, Shutdown, TypeOK
  <2>3. CASE Notify(c)
    <3>1. plan'[c] = Tail(plan[c])
      BY <1>0, <2>3 DEF Notify, TypeOK
    <3>2. t = Head(plan[c]) \/ Listed(plan'[c], t)
      BY <1>3, <2>1, <3>1, ListedTail
    <3>3. t = Head(plan[c]) => Kept(t)'
      BY <1>0, <2>3, KeptStep DEF Inv, Handed, Notify
    <3>4. QED
      BY <1>1, <3>2, <3>3
  <2>4. CASE ~Notify(c)
    <3>1. plan'[c] = plan[c]
      BY <1>0, <2>2, <2>4
         DEF TypeOK, Next, Enqueue, Work, Stop, Check, Refuse, Claim, Push, Notify, Take, Sleep,
             Exit, Finish, WakeSpuriously, BeginDestroy, RequestStop, Joined, vars, poolVars, callVars
    <3>2. QED
      BY <1>1, <1>3, <3>1
  <2>5. QED
    BY <2>3, <2>4
<1>4. QED
  BY <1>1, <1>2, <1>3 DEF Inv, Accounted

LEMMA InvStep ==
  ASSUME Inv, [Next]_vars
  PROVE  Inv'
BY TypeStep, WakeupStep, ShutdownStep, AccountedStep, HandedStep DEF Inv

(* The clients of parallel_run do nothing to the pool but what any do.      *)
LEMMA CallersAreClients ==
  [RNext]_rvars => [Next]_vars
BY DEF RNext, Others, FinishPiece, Get, Next, Work, rvars

-----------------------------------------------------------------------------
(* The invariant of the pool, whatever tasks its clients enqueue and        *)
(* however enqueue, the workers and the destructor interleave.              *)
THEOREM InvCorrect ==
  RSpec => []Inv
<1>1. RInit => Inv
  BY InitInv DEF RInit
<1>2. Inv /\ [RNext]_rvars => Inv'
  BY InvStep, CallersAreClients
<1>3. QED
  BY <1>1, <1>2, PTL DEF RSpec

(* No wakeup is lost, although enqueue notifies after it has released the   *)
(* lock, and the destructor stops workers that are about to sleep.          *)
THEOREM WakeupCorrect ==
  RSpec => []NoLostWakeup
<1>1. Inv => NoLostWakeup
  BY DEF Inv
<1>2. QED
  BY <1>1, InvCorrect, PTL

(* When the pool is gone, every task that was enqueued from outside has     *)
(* run: the destructor stops no worker that has work, even if tasks enqueue *)
(* others while it runs.                                                    *)
THEOREM DrainCorrect ==
  RSpec => []OutsideDrained
<1>1. Inv => OutsideDrained
  <2> SUFFICES ASSUME Inv, dtor = "destroyed", NEW c \in Clients, NEW i \in DOMAIN Outside[c]
               PROVE  Outside[c][i] \in done
    BY DEF OutsideDrained, OutsideTasks
  <2>1. Outside[c] \in Seq(Tasks) /\ i \in 1 .. Len(Outside[c])
    BY ThreadPoolAssumption, SMT
  <2>2. Outside[c][i] \in Tasks
    BY <2>1, SMT
  <2>3. plan[c] = <<>> /\ \A w \in Workers : worker[w] = "exited"
    BY DEF Inv, Shutdown
  <2>4. ~Listed(plan[c], Outside[c][i])
    BY <2>3, SMT DEF Listed
  <2>5. Kept(Outside[c][i])
    BY <2>1, <2>4 DEF Inv, Accounted
  <2>6. QED
    BY <2>2, <2>3, <2>5, ThreadPoolAssumption DEF Kept
<1>2. QED
  BY <1>1, InvCorrect, PTL

-----------------------------------------------------------------------------
(* Every task is in one place.  A task is started when a worker has taken   *)
(* it; the tasks of a plan wait, but for the first when its thread is about *)
(* to notify, which has been pushed already.                                *)
Started(t) == t \in done \/ \E w \in Workers : worker[w] = t

Waiting(a, i) == i \in 1 .. Len(plan[a]) /\ (at[a] = "notify" => i # 1)

Accepted ==
  /\ done \subseteq accepted /\ accepted \subseteq Tasks
  /\ \A w \in Workers : worker[w] \in Tasks => worker[w] \in accepted \ done

RunOnce ==
  \A v, w \in Workers : worker[v] \in Tasks /\ worker[v] = worker[w] => v = w

QueuedFresh ==
  \A w \in Workers : \A i \in 1 .. Len(local_queue[w]) :
    local_queue[w][i] \in accepted /\ ~Started(local_queue[w][i])

QueuedOnce ==
  \A v, w \in Workers : \A i \in 1 .. Len(local_queue[v]), j \in 1 .. Len(local_queue[w]) :
    local_queue[v][i] = local_queue[w][j] => v = w /\ i = j

Placed ==
  \A t \in accepted : Started(t) \/ \E w \in Workers : Listed(local_queue[w], t)

(* What waits was not pushed yet, and waits once.                           *)
WaitingFresh == \A a \in Threads : \A i \in Nat : Waiting(a, i) => plan[a][i] \notin accepted

WaitingOnce ==
  \A a, b \in Threads : \A i, j \in Nat :
    Waiting(a, i) /\ Waiting(b, j) /\ plan[a][i] = plan[b][j] => a = b /\ i = j

(* What a task will enqueue that was not started is nowhere yet.            *)
InsideFresh ==
  \A t \in Tasks : ~Started(t) =>
    \A k \in 1 .. Len(Inside[t]) :
      /\ Inside[t][k] \notin accepted
      /\ \A a \in Threads : \A i \in Nat : Waiting(a, i) => plan[a][i] # Inside[t][k]

Places == Accepted /\ RunOnce /\ QueuedFresh /\ QueuedOnce /\ Placed
Plans == WaitingFresh /\ WaitingOnce /\ InsideFresh
OnceInv == TypeOK /\ Places /\ Plans

LEMMA TailElements ==
  ASSUME NEW S, NEW s \in Seq(S), s # <<>>
  PROVE  /\ 1 \in 1 .. Len(s) /\ Head(s) = s[1]
         /\ Len(s) \in Nat /\ Len(Tail(s)) = Len(s) - 1
         /\ \A i \in 1 .. Len(Tail(s)) : i + 1 \in 1 .. Len(s) /\ Tail(s)[i] = s[i + 1]
<1>1. Len(s) \in Nat /\ Len(s) # 0
  BY SMT
<1>2. Len(Tail(s)) = Len(s) - 1 /\ Head(s) = s[1]
  BY SMT
<1>3. \A i \in 1 .. Len(Tail(s)) : i + 1 \in 1 .. Len(s) /\ Tail(s)[i] = s[i + 1]
  BY <1>2, SMT
<1>4. QED
  BY <1>1, <1>2, <1>3, SMT

LEMMA AppendElements ==
  ASSUME NEW S, NEW s \in Seq(S), NEW e \in S, NEW i \in 1 .. Len(Append(s, e))
  PROVE  \/ i \in 1 .. Len(s) /\ Append(s, e)[i] = s[i]
         \/ i = Len(s) + 1 /\ Append(s, e)[i] = e
<1>1. Len(s) \in Nat /\ Len(Append(s, e)) = Len(s) + 1
  BY SMT
<1>2. Append(s, e)[Len(s) + 1] = e
  BY SMT
<1>3. i \in 1 .. Len(s) => Append(s, e)[i] = s[i]
  BY SMT
<1>4. QED
  BY <1>1, <1>2, <1>3, SMT

LEMMA InitOnce ==
  Init => OnceInv
<1> SUFFICES ASSUME Init PROVE OnceInv
  OBVIOUS
<1>1. TypeOK
  BY InitInv DEF Inv
<1>2. Places
  <2>1. \A w \in Workers : worker[w] \notin Tasks /\ local_queue[w] = <<>>
    BY ThreadPoolAssumption DEF Init
  <2>2. \A w \in Workers : 1 .. Len(local_queue[w]) = {}
    BY <2>1, SMT
  <2>3. accepted = {} /\ done = {}
    BY DEF Init
  <2>4. QED
    BY <2>1, <2>2, <2>3 DEF Places, Accepted, RunOnce, QueuedFresh, QueuedOnce, Placed
<1>3. \A a \in Threads : \A i \in Nat : Waiting(a, i) =>
        a \in Clients /\ i \in 1 .. Len(Outside[a]) /\ plan[a][i] = Outside[a][i]
  <2> SUFFICES ASSUME NEW a \in Threads, NEW i \in Nat, Waiting(a, i)
               PROVE  a \in Clients /\ i \in 1 .. Len(Outside[a]) /\ plan[a][i] = Outside[a][i]
    OBVIOUS
  <2>1. i \in 1 .. Len(plan[a])
    BY DEF Waiting
  <2>2. a \in Clients => plan[a] = Outside[a]
    BY DEF Init
  <2>3. a \notin Clients => plan[a] = <<>>
    BY DEF Init
  <2>4. 1 .. Len(<<>>) = {}
    BY SMT
  <2>5. QED
    BY <2>1, <2>2, <2>3, <2>4
<1>4. \A c \in Clients : DOMAIN Outside[c] = 1 .. Len(Outside[c])
  BY ThreadPoolAssumption, SMT
<1>5. \A t \in Tasks : DOMAIN Inside[t] = 1 .. Len(Inside[t])
  BY ThreadPoolAssumption, SMT
<1>6. Plans
  <2>1. WaitingFresh
    BY DEF WaitingFresh, Init
  <2>2. WaitingOnce
    BY <1>3, <1>4, TasksAssumption DEF WaitingOnce
  <2>3. InsideFresh
    <3>1. accepted = {}
      BY DEF Init
    <3>2. QED
      BY <1>3, <1>4, <1>5, <3>1, TasksAssumption DEF InsideFresh
  <2>4. QED
    BY <2>1, <2>2, <2>3 DEF Plans
<1>7. QED
  BY <1>1, <1>2, <1>6 DEF OnceInv

(* A task is started by the worker that takes it, and stays so.             *)
LEMMA StartedTake ==
  ASSUME TypeOK, NEW w \in Workers, Take(w), NEW t \in Tasks
  PROVE  Started(t)' <=> (Started(t) \/ t = Head(local_queue[w]))
<1> USE DEF TypeOK
<1>1. worker[w] # t /\ worker'[w] = Head(local_queue[w]) /\ done' = done
  BY ThreadPoolAssumption DEF Take, Awake
<1>2. \A v \in Workers : v # w => worker'[v] = worker[v]
  BY DEF Take
<1>3. QED
  BY <1>1, <1>2 DEF Started

LEMMA StartedExit ==
  ASSUME TypeOK, NEW w \in Workers, Exit(w), NEW t \in Tasks
  PROVE  Started(t)' <=> Started(t)
<1> USE DEF TypeOK
<1>1. worker[w] # t /\ worker'[w] # t /\ done' = done
  BY ThreadPoolAssumption DEF Exit, Awake
<1>2. \A v \in Workers : v # w => worker'[v] = worker[v]
  BY DEF Exit
<1>3. QED
  BY <1>1, <1>2 DEF Started

LEMMA StartedFinish ==
  ASSUME TypeOK, NEW w \in Workers, Finish(w), NEW t \in Tasks
  PROVE  Started(t)' <=> Started(t)
<1> USE DEF TypeOK
<1>1. worker'[w] # t /\ done' = done \cup {worker[w]}
  BY ThreadPoolAssumption DEF Finish
<1>2. \A v \in Workers : v # w => worker'[v] = worker[v]
  BY DEF Finish
<1>3. QED
  BY <1>1, <1>2 DEF Started

LEMMA PlacesPush ==
  ASSUME OnceInv, NEW a \in Threads, Push(a)
  PROVE  Places'
<1> DEFINE x == idx[a]
           h == Head(plan[a])
<1>1. plan[a] \in Seq(Tasks) /\ plan[a] # <<>> /\ x \in Workers
  BY DEF OnceInv, TypeOK, Push
<1>2. h \in Tasks /\ h = plan[a][1] /\ Waiting(a, 1)
  BY <1>1, TailElements, ListedTail DEF Waiting, Push
<1>3. h \notin accepted
  BY <1>2, SMT DEF OnceInv, Plans, WaitingFresh
<1>4. \A w \in Workers : local_queue[w] \in Seq(Tasks)
  BY DEF OnceInv, TypeOK
<1>5. /\ worker' = worker /\ done' = done /\ accepted' = accepted \cup {h}
      /\ local_queue'[x] = Append(local_queue[x], h)
      /\ \A w \in Workers : w # x => local_queue'[w] = local_queue[w]
  BY <1>1 DEF OnceInv, TypeOK, Push
<1>6. \A t : Started(t)' <=> Started(t)
  BY <1>5 DEF Started
<1>7. Places
  BY DEF OnceInv
<1>8. ~Started(h)
  BY <1>2, <1>3, <1>7 DEF Started, Places, Accepted
<1>9. \A w \in Workers : \A i \in 1 .. Len(local_queue'[w]) :
        \/ i \in 1 .. Len(local_queue[w]) /\ local_queue'[w][i] = local_queue[w][i]
        \/ w = x /\ i = Len(local_queue[x]) + 1 /\ local_queue'[w][i] = h
  BY <1>2, <1>4, <1>5, AppendElements
<1>10. Accepted' /\ RunOnce'
  BY <1>2, <1>5, <1>7 DEF Places, Accepted, RunOnce
<1>11. QueuedFresh'
  BY <1>5, <1>6, <1>7, <1>8, <1>9 DEF Places, QueuedFresh
<1>12. QueuedOnce'
  <2>1. \A w \in Workers : \A i \in 1 .. Len(local_queue[w]) : local_queue[w][i] # h
    BY <1>3, <1>7 DEF Places, QueuedFresh
  <2>2. QED
    BY <1>7, <1>9, <2>1 DEF Places, QueuedOnce
<1>13. Placed'
  <2>1. \A t : \A w \in Workers : Listed(local_queue[w], t) => Listed(local_queue'[w], t)
    BY <1>2, <1>4, <1>5, ListedAppend
  <2>2. Listed(local_queue'[x], h)
    BY <1>1, <1>2, <1>4, <1>5, ListedAppend
  <2>3. QED
    BY <1>1, <1>5, <1>6, <1>7, <2>1, <2>2 DEF Places, Placed
<1>14. QED
  BY <1>10, <1>11, <1>12, <1>13 DEF Places

LEMMA PlacesTake ==
  ASSUME OnceInv, NEW w \in Workers, Take(w)
  PROVE  Places'
<1> DEFINE h == Head(local_queue[w])
<1>1. local_queue[w] \in Seq(Tasks) /\ local_queue[w] # <<>> /\ TypeOK /\ Places
  BY DEF OnceInv, TypeOK, Take
<1>2. h \in Tasks /\ h = local_queue[w][1] /\ 1 \in 1 .. Len(local_queue[w])
  BY <1>1, TailElements, ListedTail
<1>3. h \in accepted /\ ~Started(h)
  BY <1>1, <1>2 DEF Places, QueuedFresh
<1>4. /\ done' = done /\ accepted' = accepted
      /\ local_queue'[w] = Tail(local_queue[w]) /\ worker'[w] = h
      /\ \A v \in Workers : v # w => local_queue'[v] = local_queue[v] /\ worker'[v] = worker[v]
  BY <1>1 DEF TypeOK, Take, AfterTake
<1>5. \A t \in Tasks : Started(t)' <=> (Started(t) \/ t = h)
  BY <1>1, StartedTake
<1>6. Accepted'
  BY <1>1, <1>2, <1>3, <1>4 DEF Places, Accepted, Started
<1>7. RunOnce'
  <2>1. \A v \in Workers : worker[v] # h
    BY <1>3 DEF Started
  <2>2. QED
    BY <1>1, <1>4, <2>1 DEF Places, RunOnce
<1>8. \A v \in Workers : \A i \in 1 .. Len(local_queue'[v]) :
        \E k \in 1 .. Len(local_queue[v]) :
          /\ local_queue'[v][i] = local_queue[v][k]
          /\ k = IF v = w THEN i + 1 ELSE i
  <2> SUFFICES ASSUME NEW v \in Workers, NEW i \in 1 .. Len(local_queue'[v])
               PROVE  \E k \in 1 .. Len(local_queue[v]) :
                        /\ local_queue'[v][i] = local_queue[v][k]
                        /\ k = IF v = w THEN i + 1 ELSE i
    OBVIOUS
  <2>1. CASE v = w
    <3>1. i \in 1 .. Len(Tail(local_queue[w])) /\ local_queue'[v] = Tail(local_queue[w])
      BY <1>4, <2>1
    <3>2. i + 1 \in 1 .. Len(local_queue[w]) /\ Tail(local_queue[w])[i] = local_queue[w][i + 1]
      BY <1>1, <3>1, TailElements
    <3>3. QED
      BY <2>1, <3>1, <3>2
  <2>2. CASE v # w
    BY <1>4, <2>2
  <2>3. QED
    BY <2>1, <2>2
<1>9. \A v \in Workers : \A i \in 1 .. Len(local_queue'[v]) : local_queue'[v][i] # h
  <2> SUFFICES ASSUME NEW v \in Workers, NEW i \in 1 .. Len(local_queue'[v]), local_queue'[v][i] = h
               PROVE  FALSE
    OBVIOUS
  <2>1. PICK k \in 1 .. Len(local_queue[v]) :
           local_queue'[v][i] = local_queue[v][k] /\ k = IF v = w THEN i + 1 ELSE i
    BY <1>8
  <2>2. v = w /\ k = 1
    BY <1>1, <1>2, <2>1 DEF Places, QueuedOnce
  <2>3. i \in 1 .. Len(local_queue'[v]) /\ i + 1 = 1
    BY <2>1, <2>2
  <2>4. QED
    BY <2>3, SMT
<1>10. QueuedFresh'
  <2> SUFFICES ASSUME NEW v \in Workers, NEW i \in 1 .. Len(local_queue'[v])
               PROVE  local_queue'[v][i] \in accepted' /\ ~Started(local_queue[v][i])'
    BY DEF QueuedFresh, Started
  <2>1. PICK k \in 1 .. Len(local_queue[v]) : local_queue'[v][i] = local_queue[v][k]
    BY <1>8
  <2>2. PICK t : t = local_queue[v][k]
    OBVIOUS
  <2>3. t \in accepted /\ t \in Tasks /\ ~Started(t) /\ t # h
    <3>1. t \in accepted /\ ~Started(t)
      BY <1>1, <2>2 DEF Places, QueuedFresh
    <3>2. t # h
      BY <1>9, <2>1, <2>2
    <3>3. QED
      BY <1>1, <3>1, <3>2 DEF Places, Accepted
  <2>4. ~Started(t)'
    BY <1>5, <2>3
  <2>5. local_queue'[v][i] = t
    BY <2>1, <2>2
  <2>6. QED
    BY <1>4, <2>3, <2>4, <2>5 DEF Started
<1>11. QueuedOnce'
  <2> SUFFICES ASSUME NEW u \in Workers, NEW v \in Workers,
                      NEW i \in 1 .. Len(local_queue'[u]), NEW j \in 1 .. Len(local_queue'[v]),
                      local_queue'[u][i] = local_queue'[v][j]
               PROVE  u = v /\ i = j
    BY DEF QueuedOnce
  <2>1. PICK k \in 1 .. Len(local_queue[u]) :
           local_queue'[u][i] = local_queue[u][k] /\ k = IF u = w THEN i + 1 ELSE i
    BY <1>8
  <2>2. PICK l \in 1 .. Len(local_queue[v]) :
           local_queue'[v][j] = local_queue[v][l] /\ l = IF v = w THEN j + 1 ELSE j
    BY <1>8
  <2>3. u = v /\ k = l
    <3>1. local_queue[u][k] = local_queue[v][l]
      BY <2>1, <2>2
    <3>2. QED
      BY <1>1, <3>1 DEF Places, QueuedOnce
  <2>4. IF u = w THEN i + 1 = j + 1 ELSE i = j
    BY <2>1, <2>2, <2>3
  <2>5. QED
    BY <2>3, <2>4, SMT
<1>12. Placed'
  <2> SUFFICES ASSUME NEW t \in accepted', ~Started(t)'
               PROVE  \E v \in Workers : Listed(local_queue'[v], t)
    BY DEF Placed
  <2>1. t \in accepted /\ t \in Tasks
    BY <1>1, <1>4 DEF Places, Accepted
  <2>2. ~Started(t) /\ t # h
    BY <1>5, <2>1
  <2>3. PICK v \in Workers : Listed(local_queue[v], t)
    BY <1>1, <2>1, <2>2 DEF Places, Placed
  <2>4. Listed(local_queue'[v], t)
    BY <1>1, <1>4, <2>2, <2>3, ListedTail
  <2>5. QED
    BY <2>4
<1>13. QED
  BY <1>6, <1>7, <1>10, <1>11, <1>12 DEF Places

LEMMA PlacesStep ==
  ASSUME OnceInv, [Next]_vars
  PROVE  Places'
<1>1. ASSUME NEW a \in Threads, Push(a) PROVE Places'
  BY <1>1, PlacesPush
<1>2. ASSUME NEW w \in Workers, Take(w) PROVE Places'
  BY <1>2, PlacesTake
<1>3. ASSUME NEW w \in Workers, Exit(w) PROVE Places'
  <2>1. /\ accepted' = accepted /\ done' = done /\ local_queue' = local_queue
        /\ \A v \in Workers : worker'[v] \in Tasks => worker'[v] = worker[v]
    BY <1>3, ThreadPoolAssumption DEF Exit, OnceInv, TypeOK
  <2>2. \A t \in Tasks : Started(t)' <=> Started(t)
    BY <1>3, StartedExit DEF OnceInv
  <2>3. QED
    BY <2>1, <2>2 DEF OnceInv, Places, Accepted, RunOnce, QueuedFresh, QueuedOnce, Placed
<1>4. ASSUME NEW w \in Workers, Finish(w) PROVE Places'
  <2>1. /\ accepted' = accepted /\ done' = done \cup {worker[w]} /\ local_queue' = local_queue
        /\ worker[w] \in Tasks
        /\ \A v \in Workers : worker'[v] \in Tasks => worker'[v] = worker[v] /\ v # w
    BY <1>4, ThreadPoolAssumption DEF Finish, OnceInv, TypeOK
  <2>2. \A t \in Tasks : Started(t)' <=> Started(t)
    BY <1>4, StartedFinish DEF OnceInv
  <2>3. Accepted' /\ RunOnce'
    BY <2>1 DEF OnceInv, Places, Accepted, RunOnce
  <2>4. QueuedFresh' /\ QueuedOnce' /\ Placed'
    BY <2>1, <2>2 DEF OnceInv, Places, Accepted, QueuedFresh, QueuedOnce, Placed
  <2>5. QED
    BY <2>3, <2>4 DEF Places
<1>5. ASSUME UNCHANGED <<local_queue, worker, accepted, done>> PROVE Places'
  BY <1>5 DEF OnceInv, Places, Accepted, RunOnce, QueuedFresh, QueuedOnce, Placed, Started
<1>6. QED
  BY <1>1, <1>2, <1>3, <1>4, <1>5
     DEF Next, Enqueue, Work, Stop, Check, Refuse, Claim, Notify, Sleep, WakeSpuriously,
         BeginDestroy, RequestStop, Joined, vars

(* Plans that only get shorter at the front, with nothing newly accepted.   *)
LEMMA PlansShrink ==
  ASSUME Plans, accepted' = accepted,
         \A t \in Tasks : Started(t) => Started(t)',
         NEW s \in [Threads -> Nat],
         \A a \in Threads : \A i \in Nat :
           Waiting(a, i)' => Waiting(a, i + s[a]) /\ plan'[a][i] = plan[a][i + s[a]]
  PROVE  Plans'
<1>1. \A a \in Threads : \A i \in Nat : i + s[a] \in Nat
  BY SMT
<1>2. \A a \in Threads : \A i, j \in Nat : i + s[a] = j + s[a] => i = j
  BY SMT
<1>3. WaitingFresh'
  BY <1>1 DEF Plans, WaitingFresh
<1>4. WaitingOnce'
  <2> SUFFICES ASSUME NEW a \in Threads, NEW b \in Threads, NEW i \in Nat, NEW j \in Nat,
                      Waiting(a, i)', Waiting(b, j)', plan'[a][i] = plan'[b][j]
               PROVE  a = b /\ i = j
    BY DEF WaitingOnce
  <2>1. /\ Waiting(a, i + s[a]) /\ Waiting(b, j + s[b])
        /\ plan[a][i + s[a]] = plan[b][j + s[b]]
    OBVIOUS
  <2>2. a = b /\ i + s[a] = j + s[b]
    <3>1. PICK k \in Nat, l \in Nat : k = i + s[a] /\ l = j + s[b]
      BY <1>1
    <3>2. Waiting(a, k) /\ Waiting(b, l) /\ plan[a][k] = plan[b][l]
      BY <2>1, <3>1
    <3>3. QED
      BY <3>1, <3>2 DEF Plans, WaitingOnce
  <2>3. QED
    BY <1>2, <2>2
<1>5. InsideFresh'
  <2> SUFFICES ASSUME NEW t \in Tasks, ~Started(t)', NEW k \in 1 .. Len(Inside[t])
               PROVE  /\ Inside[t][k] \notin accepted'
                      /\ \A a \in Threads : \A i \in Nat :
                           Waiting(a, i)' => plan'[a][i] # Inside[t][k]
    BY DEF InsideFresh
  <2>1. ~Started(t)
    OBVIOUS
  <2>2. ASSUME NEW a \in Threads, NEW i \in Nat, Waiting(a, i)'
        PROVE  plan'[a][i] # Inside[t][k]
    <3>1. PICK l \in Nat : l = i + s[a]
      BY <1>1
    <3>2. Waiting(a, l) /\ plan'[a][i] = plan[a][l]
      BY <2>2, <3>1
    <3>3. QED
      BY <2>1, <3>2 DEF Plans, InsideFresh
  <2>3. QED
    BY <2>1, <2>2 DEF Plans, InsideFresh
<1>6. QED
  BY <1>3, <1>4, <1>5 DEF Plans

LEMMA PlansPush ==
  ASSUME OnceInv, NEW a \in Threads, Push(a)
  PROVE  Plans'
<1> DEFINE h == Head(plan[a])
<1>1. plan[a] \in Seq(Tasks) /\ plan[a] # <<>> /\ Plans
  BY DEF OnceInv, TypeOK, Push
<1>2. h = plan[a][1] /\ Waiting(a, 1) /\ 1 \in Nat
  BY <1>1, TailElements DEF Waiting, Push
<1>3. /\ plan' = plan /\ accepted' = accepted \cup {h} /\ worker' = worker /\ done' = done
      /\ at'[a] = "notify" /\ \A b \in Threads : b # a => at'[b] = at[b]
  BY DEF OnceInv, TypeOK, Push
<1>4. \A b \in Threads : \A i \in Nat :
        Waiting(b, i)' => Waiting(b, i) /\ ~(b = a /\ i = 1)
  BY <1>3 DEF Waiting, Push
<1>5. \A t : Started(t)' <=> Started(t)
  BY <1>3 DEF Started
<1>6. WaitingFresh'
  BY <1>1, <1>2, <1>3, <1>4 DEF Plans, WaitingFresh, WaitingOnce
<1>7. WaitingOnce'
  BY <1>1, <1>3, <1>4 DEF Plans, WaitingOnce
<1>8. InsideFresh'
  BY <1>1, <1>2, <1>3, <1>4, <1>5 DEF Plans, InsideFresh
<1>9. QED
  BY <1>6, <1>7, <1>8 DEF Plans

LEMMA PlansTake ==
  ASSUME OnceInv, NEW w \in Workers, Take(w)
  PROVE  Plans'
<1> DEFINE h == Head(local_queue[w])
<1>1. TypeOK /\ Plans /\ Places /\ w \in Threads
  BY DEF OnceInv, Threads
<1>2. h \in Tasks /\ h = local_queue[w][1] /\ 1 \in 1 .. Len(local_queue[w])
  BY <1>1, TailElements, ListedTail DEF TypeOK, Take
<1>3. ~Started(h)
  BY <1>1, <1>2 DEF Places, QueuedFresh
<1>4. /\ accepted' = accepted /\ at' = at /\ plan'[w] = Inside[h]
      /\ \A b \in Threads : b # w => plan'[b] = plan[b]
  BY <1>1 DEF TypeOK, Take
<1>5. \A t \in Tasks : Started(t)' <=> (Started(t) \/ t = h)
  BY <1>1, StartedTake
<1>6. \A b \in Threads : \A i \in Nat : Waiting(b, i)' =>
        IF b = w THEN i \in 1 .. Len(Inside[h]) /\ plan'[b][i] = Inside[h][i]
        ELSE Waiting(b, i) /\ plan'[b][i] = plan[b][i]
  BY <1>4 DEF Waiting
<1>7. WaitingFresh'
  BY <1>1, <1>2, <1>3, <1>4, <1>6 DEF Plans, WaitingFresh, InsideFresh
<1>8. \A t \in Tasks : DOMAIN Inside[t] = 1 .. Len(Inside[t])
  BY ThreadPoolAssumption, SMT
<1>9. WaitingOnce'
  <2> SUFFICES ASSUME NEW a \in Threads, NEW b \in Threads, NEW i \in Nat, NEW j \in Nat,
                      Waiting(a, i)', Waiting(b, j)', plan'[a][i] = plan'[b][j]
               PROVE  a = b /\ i = j
    BY DEF WaitingOnce
  <2>1. CASE a = w /\ b = w
    BY <1>2, <1>6, <1>8, <2>1, TasksAssumption
  <2>2. CASE a = w /\ b # w
    BY <1>1, <1>2, <1>3, <1>6, <2>2 DEF Plans, InsideFresh
  <2>3. CASE a # w /\ b = w
    BY <1>1, <1>2, <1>3, <1>6, <2>3 DEF Plans, InsideFresh
  <2>4. CASE a # w /\ b # w
    BY <1>1, <1>6, <2>4 DEF Plans, WaitingOnce
  <2>5. QED
    BY <2>1, <2>2, <2>3, <2>4
<1>10. InsideFresh'
  <2> SUFFICES ASSUME NEW t \in Tasks, ~Started(t)', NEW k \in 1 .. Len(Inside[t])
               PROVE  /\ Inside[t][k] \notin accepted'
                      /\ \A a \in Threads : \A i \in Nat :
                           Waiting(a, i)' => plan'[a][i] # Inside[t][k]
    BY DEF InsideFresh
  <2>1. ~Started(t) /\ t # h
    BY <1>5
  <2>2. Inside[t][k] \notin accepted'
    BY <1>1, <1>4, <2>1 DEF Plans, InsideFresh
  <2>3. ASSUME NEW a \in Threads, NEW i \in Nat, Waiting(a, i)'
        PROVE  plan'[a][i] # Inside[t][k]
    <3>1. CASE a = w
      BY <1>2, <1>6, <1>8, <2>1, <2>3, <3>1, TasksAssumption
    <3>2. CASE a # w
      BY <1>1, <1>6, <2>1, <2>3, <3>2 DEF Plans, InsideFresh
    <3>3. QED
      BY <3>1, <3>2
  <2>4. QED
    BY <2>2, <2>3
<1>11. QED
  BY <1>7, <1>9, <1>10 DEF Plans

LEMMA PlansStep ==
  ASSUME OnceInv, [Next]_vars
  PROVE  Plans'
<1> DEFINE same == [a \in Threads |-> 0]
<1>0. TypeOK /\ Plans /\ same \in [Threads -> Nat] /\ \A i \in Nat : i + 0 = i
  BY SMT DEF OnceInv
<1>1. ASSUME NEW a \in Threads, Push(a) PROVE Plans'
  BY <1>1, PlansPush
<1>2. ASSUME NEW w \in Workers, Take(w) PROVE Plans'
  BY <1>2, PlansTake
<1>3. ASSUME NEW a \in Threads, Notify(a) PROVE Plans'
  <2> DEFINE s == [b \in Threads |-> IF b = a THEN 1 ELSE 0]
  <2>1. s \in [Threads -> Nat]
    BY SMT
  <2>2. plan[a] \in Seq(Tasks) /\ plan[a] # <<>> /\ at[a] = "notify"
    BY <1>0, <1>3 DEF TypeOK, Notify
  <2>3. /\ accepted' = accepted /\ worker' = worker /\ done' = done
        /\ plan'[a] = Tail(plan[a])
        /\ \A b \in Threads : b # a => plan'[b] = plan[b] /\ at'[b] = at[b]
    BY <1>0, <1>3 DEF TypeOK, Notify
  <2>4. ASSUME NEW b \in Threads, NEW i \in Nat, Waiting(b, i)'
        PROVE  Waiting(b, i + s[b]) /\ plan'[b][i] = plan[b][i + s[b]]
    <3>1. CASE b = a
      <4>1. i \in 1 .. Len(Tail(plan[a]))
        BY <2>3, <2>4, <3>1 DEF Waiting
      <4>2. i + 1 \in 1 .. Len(plan[a]) /\ Tail(plan[a])[i] = plan[a][i + 1]
        BY <2>2, <4>1, TailElements
      <4>3. i + 1 # 1
        BY <4>1, SMT
      <4>4. QED
        BY <2>3, <3>1, <4>2, <4>3 DEF Waiting
    <3>2. CASE b # a
      BY <1>0, <2>3, <2>4, <3>2 DEF Waiting
    <3>3. QED
      BY <3>1, <3>2
  <2>5. \A t \in Tasks : Started(t) => Started(t)'
    BY <2>3 DEF Started
  <2>6. QED
    BY <1>0, <2>1, <2>3, <2>4, <2>5, PlansShrink
<1>4. ASSUME NEW a \in Threads, Refuse(a) PROVE Plans'
  <2>1. /\ accepted' = accepted /\ worker' = worker /\ done' = done /\ at' = at
        /\ plan'[a] = <<>> /\ \A b \in Threads : b # a => plan'[b] = plan[b]
    BY <1>0, <1>4 DEF TypeOK, Refuse
  <2>2. 1 .. Len(<<>>) = {}
    BY SMT
  <2>3. \A b \in Threads : \A i \in Nat :
          Waiting(b, i)' => Waiting(b, i + same[b]) /\ plan'[b][i] = plan[b][i + same[b]]
    BY <1>0, <2>1, <2>2 DEF Waiting
  <2>4. \A t \in Tasks : Started(t) => Started(t)'
    BY <2>1 DEF Started
  <2>5. QED
    BY <1>0, <2>1, <2>3, <2>4, PlansShrink
<1>5. ASSUME NEW w \in Workers, Exit(w) \/ Finish(w) PROVE Plans'
  <2>1. plan' = plan /\ at' = at /\ accepted' = accepted
    BY <1>5 DEF Exit, Finish, callVars
  <2>2. \A t \in Tasks : Started(t) => Started(t)'
    BY <1>0, <1>5, StartedExit, StartedFinish
  <2>3. \A b \in Threads : \A i \in Nat :
          Waiting(b, i)' => Waiting(b, i + same[b]) /\ plan'[b][i] = plan[b][i + same[b]]
    BY <1>0, <2>1 DEF Waiting
  <2>4. QED
    BY <1>0, <2>1, <2>2, <2>3, PlansShrink
<1>6. ASSUME UNCHANGED <<plan, worker, accepted, done>>,
             \A b \in Threads : at'[b] = "notify" <=> at[b] = "notify"
      PROVE  Plans'
  <2>1. \A t \in Tasks : Started(t) => Started(t)'
    BY <1>6 DEF Started
  <2>2. \A b \in Threads : \A i \in Nat :
          Waiting(b, i)' => Waiting(b, i + same[b]) /\ plan'[b][i] = plan[b][i + same[b]]
    BY <1>0, <1>6 DEF Waiting
  <2>3. QED
    BY <1>0, <1>6, <2>1, <2>2, PlansShrink
<1>7. ASSUME NEW a \in Threads, Check(a) \/ Claim(a) PROVE Plans'
  <2>1. /\ UNCHANGED <<plan, worker, accepted, done>>
        /\ \A b \in Threads : at'[b] = "notify" <=> at[b] = "notify"
    BY <1>0, <1>7 DEF TypeOK, Check, Claim
  <2>2. QED
    BY <1>6, <2>1
<1>8. ASSUME UNCHANGED <<plan, at, worker, accepted, done>> PROVE Plans'
  BY <1>6, <1>8
<1>9. QED
  BY <1>1, <1>2, <1>3, <1>4, <1>5, <1>7, <1>8
     DEF Next, Enqueue, Work, Stop, Sleep, WakeSpuriously, BeginDestroy, RequestStop, Joined,
         vars, callVars

LEMMA OnceStep ==
  ASSUME OnceInv, [Next]_vars
  PROVE  OnceInv'
BY TypeStep, PlacesStep, PlansStep DEF OnceInv

(* No queue is longer than there are tasks.                                 *)
LEMMA QueueBound ==
  ASSUME OnceInv, NEW w \in Workers
  PROVE  Len(local_queue[w]) <= Cardinality(Tasks)
<1> DEFINE q == local_queue[w]
<1>1. q \in Seq(Tasks) /\ Len(q) \in Nat
  BY SMT DEF OnceInv, TypeOK
<1>2. q \in [1 .. Len(q) -> Tasks]
  BY <1>1, SMT
<1>3. \A i, j \in 1 .. Len(q) : q[i] = q[j] => i = j
  BY DEF OnceInv, Places, QueuedOnce
<1>4. q \in Injection(1 .. Len(q), Tasks)
  BY <1>2, <1>3 DEF Injection, IsInjective
<1>5. Cardinality(1 .. Len(q)) <= Cardinality(Tasks)
  BY <1>4, FS_Injection, TasksAssumption
<1>6. Cardinality(1 .. Len(q)) = Len(q)
  <2>1. 1 \in Int /\ Len(q) \in Int
    BY <1>1, SMT
  <2>2. Cardinality(1 .. Len(q)) = IF 1 > Len(q) THEN 0 ELSE Len(q) - 1 + 1
    BY <2>1, FS_Interval
  <2>3. QED
    BY <1>1, <2>2, SMT
<1>7. QED
  BY <1>5, <1>6

LEMMA OnceImpliesOnePlace ==
  OnceInv => OnePlace
<1> SUFFICES ASSUME OnceInv, NEW t \in Tasks
             PROVE  Cardinality(InQueues(t)) + Cardinality(WithWorkers(t))
                      + (IF t \in done THEN 1 ELSE 0) = IF t \in accepted THEN 1 ELSE 0
  BY DEF OnePlace
<1>0. Cardinality({}) = 0 /\ \A x : Cardinality({x}) = 1
  BY FS_EmptySet, FS_Singleton
<1>1. Places /\ \A w \in Workers : Len(local_queue[w]) \in Nat
  BY SMT DEF OnceInv, TypeOK
<1>2. ASSUME Started(t) \/ t \notin accepted PROVE InQueues(t) = {}
  <2> SUFFICES ASSUME NEW p \in InQueues(t) PROVE FALSE
    OBVIOUS
  <2>1. /\ p[1] \in Workers /\ p[2] \in 1 .. Cardinality(Tasks)
        /\ p[2] <= Len(local_queue[p[1]]) /\ local_queue[p[1]][p[2]] = t
    BY DEF InQueues
  <2>2. p[2] \in 1 .. Len(local_queue[p[1]])
    <3>1. Cardinality(Tasks) \in Nat
      BY FS_CardinalityType, TasksAssumption
    <3>2. QED
      BY <1>1, <2>1, <3>1, SMT
  <2>3. QED
    BY <1>1, <1>2, <2>1, <2>2 DEF Places, QueuedFresh
<1>3. CASE t \notin accepted
  <2>1. t \notin done /\ WithWorkers(t) = {}
    BY <1>1, <1>3 DEF Places, Accepted, WithWorkers
  <2>2. QED
    BY <1>0, <1>2, <1>3, <2>1, SMT
<1>4. CASE t \in done
  <2>1. t \in accepted /\ WithWorkers(t) = {}
    BY <1>1, <1>4 DEF Places, Accepted, WithWorkers
  <2>2. InQueues(t) = {}
    BY <1>2, <1>4 DEF Started
  <2>3. QED
    BY <1>0, <1>4, <2>1, <2>2, SMT
<1>5. ASSUME NEW w \in Workers, worker[w] = t
      PROVE  Cardinality(InQueues(t)) + Cardinality(WithWorkers(t))
               + (IF t \in done THEN 1 ELSE 0) = IF t \in accepted THEN 1 ELSE 0
  <2>1. t \in accepted /\ t \notin done /\ WithWorkers(t) = {w}
    BY <1>1, <1>5 DEF Places, Accepted, RunOnce, WithWorkers
  <2>2. InQueues(t) = {}
    BY <1>2, <1>5 DEF Started
  <2>3. Cardinality(InQueues(t)) = 0 /\ Cardinality(WithWorkers(t)) = 1
    BY <1>0, <2>1, <2>2
  <2>4. QED
    BY <2>1, <2>3, SMT
<1>6. CASE ~Started(t) /\ t \in accepted
  <2>1. WithWorkers(t) = {} /\ t \notin done
    BY <1>6 DEF Started, WithWorkers
  <2>2. PICK w \in Workers : Listed(local_queue[w], t)
    BY <1>1, <1>6 DEF Places, Placed
  <2>3. PICK i \in 1 .. Len(local_queue[w]) : local_queue[w][i] = t
    BY <2>2 DEF Listed
  <2>4. Cardinality(Tasks) \in Nat
    BY FS_CardinalityType, TasksAssumption
  <2>5. i \in 1 .. Cardinality(Tasks) /\ i <= Len(local_queue[w])
    BY <1>1, <2>3, <2>4, QueueBound, SMT
  <2>6. <<w, i>> \in InQueues(t)
    BY <2>3, <2>5 DEF InQueues
  <2>7. ASSUME NEW p \in InQueues(t) PROVE p = <<w, i>>
    <3>1. /\ p \in Workers \X (1 .. Cardinality(Tasks))
          /\ p[2] <= Len(local_queue[p[1]]) /\ local_queue[p[1]][p[2]] = t
      BY DEF InQueues
    <3>2. p[1] \in Workers /\ p[2] \in 1 .. Cardinality(Tasks) /\ p = <<p[1], p[2]>>
      BY <3>1
    <3>3. p[2] \in 1 .. Len(local_queue[p[1]])
      BY <1>1, <2>4, <3>1, <3>2, SMT
    <3>4. p[1] = w /\ p[2] = i
      BY <1>1, <2>3, <3>1, <3>2, <3>3 DEF Places, QueuedOnce
    <3>5. QED
      BY <3>2, <3>4
  <2>8. InQueues(t) = {<<w, i>>}
    BY <2>6, <2>7
  <2>9. Cardinality(InQueues(t)) = 1 /\ Cardinality(WithWorkers(t)) = 0
    BY <1>0, <2>1, <2>8
  <2>10. QED
    BY <1>6, <2>1, <2>9, SMT
<1>7. QED
  BY <1>3, <1>4, <1>5, <1>6 DEF Started

(* Every accepted task is in exactly one place, so that none is lost and    *)
(* none runs twice, however many threads enqueue to a queue at once and     *)
(* whichever tasks enqueue others.                                          *)
THEOREM OnePlaceCorrect ==
  RSpec => []OnePlace
<1>1. RInit => OnceInv
  BY InitOnce DEF RInit
<1>2. OnceInv /\ [RNext]_rvars => OnceInv'
  BY OnceStep, CallersAreClients
<1>3. QED
  BY <1>1, <1>2, OnceImpliesOnePlace, PTL DEF RSpec

-----------------------------------------------------------------------------
(* How parallel_run cuts an interval.                                       *)
LEMMA Products ==
  /\ \A a, b, c \in Nat : a <= b => a * c <= b * c
  /\ \A a, b, c \in Nat : a < b => a * c + c <= b * c
<1>1. ASSUME NEW a \in Nat, NEW b \in Nat, NEW c \in Nat, a <= b PROVE a * c <= b * c
  BY <1>1, SMT
<1>2. ASSUME NEW a \in Nat, NEW b \in Nat, NEW c \in Nat, a < b PROVE a * c + c <= b * c
  BY <1>2, SMT
<1>3. QED
  BY <1>1, <1>2

LEMMA Division ==
  ASSUME NEW n \in Nat, NEW d \in Nat \ {0}
  PROVE  n \div d \in Nat /\ (n \div d) * d \in Nat /\ (n \div d) * d <= n /\ n < (n \div d) * d + d
BY SMT

(* The number of elements a piece but the last has, and of such pieces.     *)
LEMMA Intervals ==
  ASSUME NEW n \in Nat \ {0}, NEW T \in Nat \ {0}, NEW I, I = (n + T - 1) \div T,
         NEW q, q = (n - 1) \div I
  PROVE  /\ I \in Nat \ {0} /\ q \in Nat
         /\ q * I \in Nat /\ q * I <= n - 1 /\ n - 1 < q * I + I
         /\ q <= n - 1 /\ q < T
<1>1. n + T - 1 \in Nat /\ n - 1 \in Nat
  BY SMT
<1>2. I \in Nat /\ I * T \in Nat /\ n + T - 1 < I * T + T
  BY <1>1, Division
<1>3. n <= I * T
  BY <1>1, <1>2, SMT
<1>4. I # 0
  BY <1>3, SMT
<1>5. q \in Nat /\ q * I \in Nat /\ q * I <= n - 1 /\ n - 1 < q * I + I
  BY <1>1, <1>2, <1>4, Division
<1>6. q <= q * I
  BY <1>2, <1>4, <1>5, SMT
<1>7. q < T
  <2>1. T <= q => T * I <= q * I
    BY <1>2, <1>5, Products
  <2>2. T * I = I * T
    BY <1>2, SMT
  <2>3. QED
    BY <1>2, <1>3, <1>5, <2>1, <2>2, SMT
<1>8. QED
  BY <1>1, <1>2, <1>4, <1>5, <1>6, <1>7, SMT

LEMMA CardinalityFrom ==
  ASSUME NEW a \in Nat, NEW m \in Nat
  PROVE  Cardinality(a .. a + m - 1) = m
<1> DEFINE b == a + m - 1
<1>1. a \in Int /\ b \in Int /\ (IF a > b THEN 0 ELSE b - a + 1) = m
  BY SMT
<1> HIDE DEF b
<1>2. Cardinality(a .. b) = IF a > b THEN 0 ELSE b - a + 1
  BY <1>1, FS_Interval
<1>3. QED
  BY <1>1, <1>2 DEF b

LEMMA LengthOf ==
  ASSUME NEW S, NEW m \in Nat, NEW f \in [1 .. m -> S]
  PROVE  Len(f) = m
<1>1. f \in Seq(S)
  BY SMT
<1>2. QED
  BY <1>1, SMT

(* An interval of n elements from beg is cut into q + 1 pieces.               *)
CutInto(beg, n, T, q) ==
  /\ q \in Nat /\ q = (n - 1) \div Interval(beg, beg + n, T)
  /\ Interval(beg, beg + n, T) = (n + T - 1) \div T
  /\ DOMAIN Pieces(beg, beg + n, T) = 1 .. q + 1
  /\ Len(Pieces(beg, beg + n, T)) = q + 1
  /\ \A k \in 1 .. q + 1 :
       Pieces(beg, beg + n, T)[k] =
         <<beg + (k - 1) * Interval(beg, beg + n, T),
           IF k <= q THEN beg + k * Interval(beg, beg + n, T) ELSE beg + n>>

LEMMA PiecesAre ==
  ASSUME NEW beg \in Nat, NEW n \in Nat \ {0}, NEW T \in Nat \ {0}
  PROVE  \E q : CutInto(beg, n, T, q)
<1>0. PICK q : q = (n - 1) \div Interval(beg, beg + n, T)
  OBVIOUS
<1> DEFINE I == Interval(beg, beg + n, T)
<1> DEFINE whole == {k \in 0 .. beg + n - beg : beg + (k + 1) * I < beg + n}
<1>1. Interval(beg, beg + n, T) = (n + T - 1) \div T
  <2>1. beg + n - beg + T - 1 = n + T - 1
    BY SMT
  <2>2. QED
    BY <2>1 DEF Interval
<1>2. /\ I \in Nat \ {0} /\ q \in Nat
      /\ q * I \in Nat /\ q * I <= n - 1 /\ n - 1 < q * I + I
      /\ q <= n - 1 /\ q < T
  BY <1>0, <1>1, Intervals
<1> HIDE DEF I
<1>3. whole = 0 .. q - 1
  <2>1. ASSUME NEW k \in Nat
        PROVE  beg + (k + 1) * I < beg + n <=> k < q
    <3>1. k + 1 \in Nat /\ (k + 1) * I \in Nat
      BY <1>2, SMT
    <3>2. CASE k < q
      <4>1. k + 1 <= q
        BY <1>2, <3>2, SMT
      <4>2. (k + 1) * I <= q * I
        BY <1>2, <3>1, <4>1, Products
      <4>3. QED
        BY <1>2, <3>1, <3>2, <4>2, SMT
    <3>3. CASE ~(k < q)
      <4>1. q < k + 1
        BY <1>2, <3>3, SMT
      <4>2. q * I + I <= (k + 1) * I
        BY <1>2, <3>1, <4>1, Products
      <4>3. QED
        BY <1>2, <3>1, <3>3, <4>2, SMT
    <3>4. QED
      BY <3>2, <3>3
  <2>2. \A k : k \in 0 .. q - 1 <=> k \in Nat /\ k < q
    BY <1>2, SMT
  <2>3. \A k : k \in 0 .. beg + n - beg <=> k \in Nat /\ k <= n
    BY SMT
  <2>4. \A k \in Nat : k < q => k <= n
    BY <1>2, SMT
  <2>5. QED
    BY <2>1, <2>2, <2>3, <2>4
<1>4. Cardinality(whole) = q
  <2>1. 0 + q - 1 = q - 1
    BY <1>2, SMT
  <2>2. Cardinality(0 .. 0 + q - 1) = q
    BY <1>2, CardinalityFrom
  <2>3. QED
    BY <1>3, <2>1, <2>2
<1> DEFINE pieces == Pieces(beg, beg + n, T)
<1>5. pieces = [k \in 1 .. Cardinality(whole) + 1 |->
                  <<beg + (k - 1) * I, IF k - 1 \in whole THEN beg + k * I ELSE beg + n>>]
  BY DEF Pieces, I
<1> HIDE DEF whole, pieces
<1>6. \A k \in 1 .. q + 1 : k - 1 \in whole <=> k <= q
  <2>1. q \in Nat
    BY <1>2
  <2>2. QED
    BY <1>3, <2>1, SMT
<1>7. DOMAIN pieces = 1 .. q + 1
  BY <1>4, <1>5
<1>8. \A k \in 1 .. q + 1 :
        pieces[k] = <<beg + (k - 1) * I, IF k <= q THEN beg + k * I ELSE beg + n>>
  BY <1>4, <1>5, <1>6
<1>9. Len(pieces) = q + 1
  <2>1. q + 1 \in Nat
    BY <1>2, SMT
  <2>2. pieces \in [1 .. q + 1 -> {pieces[k] : k \in 1 .. q + 1}]
    BY <1>4, <1>5, <1>7
  <2>3. QED
    BY <2>1, <2>2, LengthOf
<1>10. CutInto(beg, n, T, q)
  BY <1>0, <1>1, <1>2, <1>7, <1>8, <1>9 DEF CutInto, I, pieces
<1>11. QED
  BY <1>10

(* Vectors and the rest share the elements of a piece.                      *)
LEMMA ElementsShared ==
  ASSUME NEW lo \in Nat, NEW hi \in Nat, lo <= hi, NEW e \in Nat, NEW piece, piece = <<lo, hi>>
  PROVE  /\ (e \in VectorElements(piece) \/ e \in ScalarElements(piece)) <=> (lo <= e /\ e < hi)
         /\ ~(e \in VectorElements(piece) /\ e \in ScalarElements(piece))
<1> DEFINE L == ((hi - lo) \div Lanes) * Lanes
<1>1. piece[1] = lo /\ piece[2] = hi
  OBVIOUS
<1>2. hi - lo \in Nat /\ Lanes \in Nat \ {0}
  BY CallsAssumption, SMT
<1>3. L \in Nat /\ L <= hi - lo
  BY <1>2, Division
<1>4. VectorElements(piece) = lo .. lo + L - 1
  BY <1>1 DEF VectorElements
<1> HIDE DEF L
<1>5. Cardinality(VectorElements(piece)) = L
  BY <1>3, <1>4, CardinalityFrom
<1>6. ScalarElements(piece) = lo + L .. hi - 1
  BY <1>1, <1>5 DEF ScalarElements
<1>7. QED
  BY <1>3, <1>4, <1>6, SMT

(* An element of the interval is in one piece, and any other in none.       *)
LEMMA CutIsWhole ==
  ASSUME NEW beg \in Nat, NEW n \in Nat \ {0}, NEW T \in Nat \ {0}
  PROVE  Whole(beg, beg + n, T)
<1> DEFINE I == Interval(beg, beg + n, T)
           pieces == Pieces(beg, beg + n, T)
<1>0. PICK q : CutInto(beg, n, T, q)
  BY PiecesAre
<1> DEFINE lo(k) == beg + (k - 1) * I
           hi(k) == IF k <= q THEN beg + k * I ELSE beg + n
           In(e, k) == lo(k) <= e /\ e < hi(k)
<1>1. /\ q = (n - 1) \div I /\ I = (n + T - 1) \div T
      /\ DOMAIN pieces = 1 .. q + 1 /\ Len(pieces) = q + 1
      /\ \A k \in 1 .. q + 1 : pieces[k] = <<lo(k), hi(k)>>
  BY <1>0 DEF CutInto
<1>2. /\ I \in Nat \ {0} /\ q \in Nat
      /\ q * I \in Nat /\ q * I <= n - 1 /\ n - 1 < q * I + I
      /\ q <= n - 1 /\ q < T
  BY <1>1, Intervals
<1> HIDE DEF I, pieces
<1>3. \A k \in 1 .. q + 1 : /\ k - 1 \in Nat /\ k \in Nat /\ (k - 1) * I \in Nat /\ k * I \in Nat
                            /\ (k - 1) * I + I = k * I
  <2> SUFFICES ASSUME NEW k \in 1 .. q + 1
               PROVE  /\ k - 1 \in Nat /\ k \in Nat /\ (k - 1) * I \in Nat /\ k * I \in Nat
                      /\ (k - 1) * I + I = k * I
    OBVIOUS
  <2>1. k \in Nat /\ k - 1 \in Nat /\ I \in Nat
    BY <1>2, SMT
  <2>2. QED
    BY <2>1, SMT
<1>4. \A k \in 1 .. q + 1 : (k - 1) * I <= q * I /\ (k <= q => k * I <= q * I)
  <2> SUFFICES ASSUME NEW k \in 1 .. q + 1
               PROVE  (k - 1) * I <= q * I /\ (k <= q => k * I <= q * I)
    OBVIOUS
  <2>1. q \in Nat /\ I \in Nat /\ k - 1 <= q /\ k \in Nat /\ k - 1 \in Nat
    <3>1. q \in Nat
      BY <1>2
    <3>2. QED
      BY <1>2, <3>1, SMT
  <2>2. QED
    BY <2>1, Products
<1>5. \A k \in 1 .. q + 1 :
        lo(k) \in Nat /\ hi(k) \in Nat /\ beg <= lo(k) /\ lo(k) <= hi(k) /\ hi(k) <= beg + n
  <2> SUFFICES ASSUME NEW k \in 1 .. q + 1
               PROVE  lo(k) \in Nat /\ hi(k) \in Nat /\ beg <= lo(k) /\ lo(k) <= hi(k)
                      /\ hi(k) <= beg + n
    OBVIOUS
  <2>1. PICK a \in Nat, b \in Nat, c \in Nat : a = (k - 1) * I /\ b = k * I /\ c = q * I
    BY <1>2, <1>3
  <2>2. a + I = b /\ a <= c /\ (k <= q => b <= c) /\ c <= n - 1 /\ I \in Nat
    BY <1>2, <1>3, <1>4, <2>1
  <2>3. lo(k) = beg + a /\ hi(k) = IF k <= q THEN beg + b ELSE beg + n
    BY <2>1
  <2>4. QED
    BY <2>2, <2>3, SMT
<1>6. ASSUME NEW e \in Nat, beg <= e, e < beg + n
      PROVE  \E k \in 1 .. q + 1 : In(e, k) /\ \A l \in 1 .. q + 1 : In(e, l) => l = k
  <2> DEFINE d == (e - beg) \div I
  <2>1. e - beg \in Nat /\ I \in Nat \ {0}
    BY <1>2, <1>6, SMT
  <2>2. d \in Nat /\ d * I \in Nat /\ d * I <= e - beg /\ e - beg < d * I + I
    BY <2>1, Division
  <2> HIDE DEF d
  <2>3. d <= q
    <3>1. q < d => q * I + I <= d * I
      BY <1>2, <2>2, Products
    <3>2. QED
      BY <1>2, <1>6, <2>2, <3>1, SMT
  <2>4. PICK m : m = d + 1
    OBVIOUS
  <2>5. m \in 1 .. q + 1 /\ m - 1 = d
    BY <1>2, <2>2, <2>3, <2>4, SMT
  <2>6. In(e, m)
    <3>1. PICK a \in Nat, b \in Nat : a = (m - 1) * I /\ b = m * I
      BY <1>3, <2>5
    <3>2. a + I = b /\ a <= e - beg /\ e - beg < a + I /\ I \in Nat
      BY <1>2, <1>3, <2>2, <2>5, <3>1
    <3>3. PICK x, y : x = lo(m) /\ y = hi(m)
      OBVIOUS
    <3>4. x = beg + a /\ y = IF m <= q THEN beg + b ELSE beg + n
      BY <3>1, <3>3
    <3>5. x <= e /\ e < y
      BY <1>6, <3>2, <3>4, SMT
    <3>6. QED
      BY <3>3, <3>5
  <2>7. ASSUME NEW l \in 1 .. q + 1, In(e, l) PROVE l = m
    <3>1. PICK a \in Nat, b \in Nat, c \in Nat : a = (l - 1) * I /\ b = l * I /\ c = d * I
      BY <1>3, <2>2
    <3>2. a + I = b /\ I \in Nat \ {0} /\ c <= e - beg /\ e - beg < c + I
      BY <1>2, <1>3, <2>2, <3>1
    <3>3. beg + a <= e /\ (l <= q => e < beg + b)
      BY <2>7, <3>1
    <3>4. l \in Nat /\ l - 1 \in Nat
      BY <1>3
    <3>5. CASE l - 1 < d
      <4>1. b <= c
        <5>1. l <= d
          BY <2>2, <3>4, <3>5, SMT
        <5>2. QED
          BY <2>1, <2>2, <3>1, <3>4, <5>1, Products
      <4>2. l <= q
        BY <1>2, <2>2, <2>3, <3>4, <3>5, SMT
      <4>3. QED
        BY <3>2, <3>3, <4>1, <4>2, SMT
    <3>6. CASE d < l - 1
      <4>1. c + I <= a
        BY <2>1, <2>2, <3>1, <3>4, <3>6, Products
      <4>2. QED
        BY <3>2, <3>3, <4>1, SMT
    <3>7. QED
      BY <2>2, <2>4, <3>4, <3>5, <3>6, SMT
  <2>8. QED
    BY <2>5, <2>6, <2>7
<1>7. ASSUME NEW e \in Nat, ~(beg <= e /\ e < beg + n), NEW k \in 1 .. q + 1
      PROVE  ~In(e, k)
  <2>1. PICK a \in Nat, b \in Nat : a = lo(k) /\ b = hi(k)
    BY <1>5
  <2>2. beg <= a /\ b <= beg + n
    BY <1>5, <2>1
  <2>3. ~(a <= e /\ e < b)
    BY <1>7, <2>2, SMT
  <2>4. QED
    BY <2>1, <2>3
<1>8. ASSUME NEW e \in Nat, NEW k \in 1 .. q + 1
      PROVE  /\ (e \in VectorElements(pieces[k]) \/ e \in ScalarElements(pieces[k])) <=> In(e, k)
             /\ ~(e \in VectorElements(pieces[k]) /\ e \in ScalarElements(pieces[k]))
  <2>1. PICK a \in Nat, b \in Nat : a = lo(k) /\ b = hi(k)
    BY <1>5
  <2>2. a <= b /\ pieces[k] = <<a, b>>
    BY <1>1, <1>5, <2>1
  <2>3. /\ (e \in VectorElements(pieces[k]) \/ e \in ScalarElements(pieces[k])) <=> (a <= e /\ e < b)
        /\ ~(e \in VectorElements(pieces[k]) /\ e \in ScalarElements(pieces[k]))
    BY <2>2, ElementsShared
  <2>4. QED
    BY <2>1, <2>3
<1>9. ASSUME NEW e \in Nat
      PROVE  Times(e, pieces) = IF e \in beg .. beg + n - 1 THEN 1 ELSE 0
  <2> DEFINE InV(k) == e \in VectorElements(pieces[k])
             InS(k) == e \in ScalarElements(pieces[k])
             V == {k \in DOMAIN pieces : InV(k)}
             S == {k \in DOMAIN pieces : InS(k)}
  <2>a. \A k \in 1 .. q + 1 : ((InV(k) \/ InS(k)) <=> In(e, k)) /\ ~(InV(k) /\ InS(k))
    BY <1>8, <1>9
  <2>0. Cardinality({}) = 0 /\ \A x : Cardinality({x}) = 1
    BY FS_EmptySet, FS_Singleton
  <2>1. e \in beg .. beg + n - 1 <=> beg <= e /\ e < beg + n
    BY SMT
  <2>2. CASE beg <= e /\ e < beg + n
    <3>1. PICK k \in 1 .. q + 1 : In(e, k) /\ \A l \in 1 .. q + 1 : In(e, l) => l = k
      BY <1>6, <1>9, <2>2
    <3>2. (V = {k} /\ S = {}) \/ (V = {} /\ S = {k})
      <4> HIDE DEF InV, InS, In
      <4>1. \A l \in 1 .. q + 1 : l # k => ~InV(l) /\ ~InS(l)
        BY <2>a, <3>1
      <4>2. DOMAIN pieces = 1 .. q + 1
        BY <1>1
      <4>3. CASE InV(k)
        BY <2>a, <4>1, <4>2, <4>3
      <4>4. CASE ~InV(k)
        BY <2>a, <3>1, <4>1, <4>2, <4>4
      <4>5. QED
        BY <4>3, <4>4
    <3>3. Cardinality(V) + Cardinality(S) = 1
      <4>1. \/ Cardinality(V) = 1 /\ Cardinality(S) = 0
            \/ Cardinality(V) = 0 /\ Cardinality(S) = 1
        BY <2>0, <3>2
      <4>2. QED
        BY <4>1, SMT
    <3>4. QED
      BY <2>1, <2>2, <3>3 DEF Times
  <2>3. CASE ~(beg <= e /\ e < beg + n)
    <3>1. V = {} /\ S = {}
      <4>1. \A k \in 1 .. q + 1 : ~In(e, k)
        BY <1>7, <1>9, <2>3
      <4> HIDE DEF InV, InS, In
      <4>2. QED
        BY <1>1, <2>a, <4>1
    <3>2. Cardinality(V) = 0 /\ Cardinality(S) = 0
      BY <2>0, <3>1
    <3>3. Cardinality(V) + Cardinality(S) = 0
      BY <3>2, SMT
    <3>4. QED
      BY <2>1, <2>3, <3>3 DEF Times
  <2>4. QED
    BY <2>2, <2>3
<1>10. Len(pieces) <= T
  BY <1>1, <1>2, SMT
<1>11. \A e \in 0 .. beg + n + Lanes : e \in Nat
  BY SMT
<1>12. QED
  BY <1>9, <1>10, <1>11 DEF Whole, pieces

LEMMA AlwaysWhole ==
  AllWhole
<1> SUFFICES ASSUME NEW beg \in 0 .. 1, NEW length \in 1 .. MaxElements,
                    NEW task_num \in 1 .. MaxElements + 1
             PROVE  Whole(beg, beg + length, task_num)
  BY DEF AllWhole
<1>1. MaxElements \in Nat
  BY CallsAssumption
<1>2. beg \in Nat /\ length \in Nat \ {0} /\ task_num \in Nat \ {0}
  BY <1>1, SMT
<1>3. QED
  BY <1>2, CutIsWhole

-----------------------------------------------------------------------------
(* A caller that waits for a future has found the ones before it ready, and *)
(* none of them failed; a piece that has thrown has run.                    *)
Ran(t) == t \in done /\ t \notin failed

Gets ==
  /\ failed \subseteq done
  /\ returned \subseteq Callers /\ threw \subseteq Callers
  /\ next_get \in [Callers -> Nat]
  /\ \A c \in Callers : next_get[c] \in 1 .. Len(Outside[c])
  /\ \A c \in Callers : \A i \in 1 .. Len(Outside[c]) : i < next_get[c] => Ran(Outside[c][i])
  /\ \A c \in returned : \A i \in 1 .. Len(Outside[c]) : Ran(Outside[c][i])
  /\ \A c \in threw : \E i \in 1 .. Len(Outside[c]) : Outside[c][i] \in failed

LEMMA FuturesAre ==
  ASSUME NEW c \in Callers
  PROVE  Futures(c) = 1 .. Len(Outside[c]) /\ Len(Outside[c]) \in Nat
<1>1. Outside[c] \in Seq(Tasks)
  BY ThreadPoolAssumption, CallsAssumption
<1>2. QED
  BY <1>1, SMT DEF Futures

(* parallel_run enqueues at least one piece.                                *)
LEMMA SomeFuture ==
  ASSUME NEW c \in Callers
  PROVE  1 \in 1 .. Len(Outside[c])
<1>1. PICK beg, end : beg = Calls[c][1] /\ end = Calls[c][2]
  OBVIOUS
<1>2. beg \in Nat /\ end \in Nat /\ beg < end
  BY <1>1, CallsAssumption
<1>3. PICK n \in Nat \ {0} : end = beg + n
  <2>1. end - beg \in Nat \ {0} /\ end = beg + (end - beg)
    BY <1>2, SMT
  <2>2. QED
    BY <2>1
<1>4. NumWorkers \in Nat \ {0}
  BY ThreadPoolAssumption
<1>5. PICK q : CutInto(beg, n, NumWorkers, q)
  BY <1>2, <1>4, PiecesAre
<1>6. DOMAIN Pieces(beg, end, NumWorkers) = 1 .. q + 1 /\ q \in Nat
  BY <1>3, <1>5 DEF CutInto
<1>7. [i \in DOMAIN Outside[c] |-> PieceOf[Outside[c][i]]] = Pieces(beg, end, NumWorkers)
  BY <1>1, CallsAssumption
<1>8. DOMAIN Outside[c] = 1 .. q + 1
  BY <1>6, <1>7
<1>9. QED
  BY <1>6, <1>8, FuturesAre, SMT DEF Futures

(* A task runs once, so what has run without throwing never throws.         *)
LEMMA RanStays ==
  ASSUME OnceInv, failed \subseteq done, [RNext]_rvars
  PROVE  /\ \A t : Ran(t) => Ran(t)'
         /\ failed \subseteq failed' /\ failed' \subseteq done'
<1>1. ASSUME NEW w \in Workers, FinishPiece(w)
      PROVE  /\ \A t : Ran(t) => Ran(t)'
             /\ failed \subseteq failed' /\ failed' \subseteq done'
  <2>1. worker[w] \notin done /\ done' = done \cup {worker[w]}
    BY <1>1 DEF FinishPiece, Finish, OnceInv, Places, Accepted
  <2>2. failed' = failed \/ failed' = failed \cup {worker[w]}
    BY <1>1 DEF FinishPiece
  <2>3. QED
    BY <2>1, <2>2 DEF Ran
<1>2. ASSUME Others, UNCHANGED <<runVars, failed>>
      PROVE  /\ \A t : Ran(t) => Ran(t)'
             /\ failed \subseteq failed' /\ failed' \subseteq done'
  <2>1. done' = done
    BY <1>2 DEF Others, Enqueue, Check, Refuse, Claim, Push, Notify, Take, Sleep, Exit,
                WakeSpuriously, BeginDestroy, Stop, RequestStop, Joined
  <2>2. QED
    BY <1>2, <2>1 DEF Ran
<1>3. ASSUME NEW c \in Callers, Get(c)
      PROVE  /\ \A t : Ran(t) => Ran(t)'
             /\ failed \subseteq failed' /\ failed' \subseteq done'
  BY <1>3 DEF Get, vars, Ran
<1>4. CASE UNCHANGED rvars
  BY <1>4 DEF rvars, vars, Ran
<1>5. QED
  BY <1>1, <1>2, <1>3, <1>4 DEF RNext

LEMMA InitGets ==
  RInit => Gets
<1> SUFFICES ASSUME RInit PROVE Gets
  OBVIOUS
<1>1. next_get = [c \in Callers |-> 1] /\ returned = {} /\ threw = {} /\ failed = {}
  BY DEF RInit
<1>2. \A c \in Callers : next_get[c] = 1
  BY <1>1
<1>3. \A c \in Callers : next_get[c] \in 1 .. Len(Outside[c])
  BY <1>2, SomeFuture
<1>4. \A c \in Callers : \A i \in 1 .. Len(Outside[c]) : ~(i < next_get[c])
  BY <1>2, SMT
<1>5. next_get \in [Callers -> Nat]
  BY <1>1, SMT
<1>6. QED
  BY <1>1, <1>3, <1>4, <1>5 DEF Gets

LEMMA GetsStep ==
  ASSUME OnceInv, Gets, [RNext]_rvars
  PROVE  Gets'
<1>1. /\ \A t : Ran(t) => Ran(t)'
      /\ failed \subseteq failed' /\ failed' \subseteq done'
  BY RanStays DEF Gets
<1>2. CASE UNCHANGED runVars
  BY <1>1, <1>2 DEF Gets, runVars
<1>3. ASSUME NEW c \in Callers, Get(c)
      PROVE  Gets'
  <2> DEFINE n == next_get[c]
             m == Len(Outside[c])
  <2>1. n \in 1 .. m /\ m \in Nat /\ Futures(c) = 1 .. m
    BY FuturesAre DEF Gets
  <2>2. Outside[c][n] \in done
    BY <1>3 DEF Get, Ready
  <2>3. CASE Outside[c][n] \in failed
    <3>1. threw' = threw \cup {c} /\ UNCHANGED <<next_get, returned>>
      BY <1>3, <2>3 DEF Get
    <3>2. Outside[c][n] \in failed'
      BY <1>1, <2>3
    <3>3. \A d \in threw' : \E i \in 1 .. Len(Outside[d]) : Outside[d][i] \in failed'
      BY <1>1, <2>1, <3>1, <3>2 DEF Gets
    <3>4. QED
      BY <1>1, <3>1, <3>3 DEF Gets
  <2>4. CASE Outside[c][n] \notin failed /\ n \in Futures(c) \ {m}
    <3>1. next_get' = [next_get EXCEPT ![c] = n + 1] /\ UNCHANGED <<returned, threw>>
      BY <1>3, <2>4 DEF Get
    <3>2. n + 1 \in 1 .. m /\ n + 1 \in Nat
      BY <2>1, <2>4, SMT
    <3>3. next_get' \in [Callers -> Nat] /\ next_get'[c] = n + 1
      BY <3>1, <3>2 DEF Gets
    <3>4. \A d \in Callers : d # c => next_get'[d] = next_get[d]
      BY <3>1 DEF Gets
    <3>5. \A i \in 1 .. m : i < n + 1 => Ran(Outside[c][i])
      <4>1. \A i \in 1 .. m : i < n + 1 => i < n \/ i = n
        BY <2>1, SMT
      <4>2. QED
        BY <2>2, <2>4, <4>1 DEF Gets, Ran
    <3>6. \A d \in Callers : next_get'[d] \in 1 .. Len(Outside[d])
      BY <3>2, <3>3, <3>4 DEF Gets
    <3>7. \A d \in Callers : \A i \in 1 .. Len(Outside[d]) :
            i < next_get'[d] => Ran(Outside[d][i])'
      BY <1>1, <3>3, <3>4, <3>5 DEF Gets
    <3>8. QED
      BY <1>1, <3>1, <3>3, <3>6, <3>7 DEF Gets
  <2>5. CASE Outside[c][n] \notin failed /\ n \notin Futures(c) \ {m}
    <3>1. returned' = returned \cup {c} /\ UNCHANGED <<next_get, threw>>
      BY <1>3, <2>5 DEF Get
    <3>2. \A i \in 1 .. m : i < n \/ i = n
      BY <2>1, <2>5, SMT
    <3>3. \A i \in 1 .. m : Ran(Outside[c][i])
      BY <2>2, <2>5, <3>2 DEF Gets, Ran
    <3>4. \A d \in returned' : \A i \in 1 .. Len(Outside[d]) : Ran(Outside[d][i])'
      BY <1>1, <3>1, <3>3 DEF Gets
    <3>5. QED
      BY <1>1, <3>1, <3>4 DEF Gets
  <2>6. QED
    BY <2>3, <2>4, <2>5
<1>4. QED
  BY <1>2, <1>3 DEF RNext, FinishPiece, rvars

(* A call of parallel_run returns only when all its pieces have run without *)
(* throwing, throws only when one has thrown, and its pieces work on every  *)
(* element of the interval once, for any number of workers.                 *)
THEOREM ReturnsCorrect ==
  RSpec => []ReturnsWhole
<1>1. RInit => OnceInv /\ Gets
  BY InitOnce, InitGets DEF RInit
<1>2. OnceInv /\ Gets /\ [RNext]_rvars => (OnceInv /\ Gets)'
  BY OnceStep, CallersAreClients, GetsStep
<1>3. OnceInv /\ Gets => ReturnsWhole
  BY FuturesAre, AlwaysWhole DEF Gets, Ran, ReturnsWhole
<1>4. QED
  BY <1>1, <1>2, <1>3, PTL DEF RSpec
=============================================================================
