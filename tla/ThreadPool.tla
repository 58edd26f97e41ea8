----------------------------- MODULE ThreadPool -----------------------------
(***************************************************************************)
(* The pool the CPU operators run on (tiny_llm/thread_pool/thread_pool.hpp):*)
(* a queue, a mutex and a condition variable for each worker, an atomic     *)
(* counter that deals tasks out, and a destructor that stops the workers.   *)
(*                                                                         *)
(* What a mutex protects is one step: the push in enqueue, and a worker's   *)
(* test of its queue with what follows from it.  Everything else a thread   *)
(* does between two shared accesses is a step of its own.                   *)
(*                                                                         *)
(* Threads outside the pool finish their calls of enqueue before the        *)
(* destructor begins, as a C++ program must; a task may call enqueue at any *)
(* time, since the workers are joined before the rest of the pool goes.     *)
(***************************************************************************)
EXTENDS Naturals, Sequences, FiniteSets

CONSTANTS
  NumWorkers,  \* the constructor's argument
  Clients,     \* threads outside the pool
  Tasks,
  Outside,     \* for each client, the tasks it enqueues
  Inside       \* for each task, the tasks it enqueues while it runs

Workers == 0 .. NumWorkers - 1
Threads == Clients \cup Workers

ASSUME ThreadPoolAssumption ==
  /\ NumWorkers \in Nat \ {0}
  /\ Clients \cap Workers = {} /\ Tasks \cap {"idle", "exited"} = {}
  /\ Outside \in [Clients -> Seq(Tasks)]
  /\ Inside \in [Tasks -> Seq(Tasks)]

(* A task stands for one call of enqueue, by a client or by another task.   *)
ASSUME TasksAssumption ==
  /\ IsFiniteSet(Tasks)
  /\ \A c, d \in Clients : \A i \in DOMAIN Outside[c], j \in DOMAIN Outside[d] :
       Outside[c][i] = Outside[d][j] => c = d /\ i = j
  /\ \A t, u \in Tasks : \A i \in DOMAIN Inside[t], j \in DOMAIN Inside[u] :
       Inside[t][i] = Inside[u][j] => t = u /\ i = j
  /\ \A c \in Clients, t \in Tasks : \A i \in DOMAIN Outside[c], j \in DOMAIN Inside[t] :
       Outside[c][i] # Inside[t][j]

VARIABLES
  next_worker_,    \* modulo the number of workers
  shutting_down_,
  local_queue,     \* WorkerContext::local_queue of each worker
  sleeping,        \* the workers waiting in cv.wait
  stop,            \* the workers whose stop_token is set
  worker,          \* for each worker "idle", "exited" or the task it runs
  plan,            \* for each thread, the tasks it has yet to enqueue
  at,              \* for each thread, where in enqueue it is
  idx,             \* its local idx
  dtor,            \* "no", "stopping" or "destroyed"
  accepted, done   \* tasks pushed, and tasks that have run

poolVars == <<next_worker_, shutting_down_, stop, dtor>>
callVars == <<plan, at, idx>>
vars == <<poolVars, callVars, local_queue, sleeping, worker, accepted, done>>

Init ==
  /\ next_worker_ = 0
  /\ shutting_down_ = FALSE
  /\ local_queue = [w \in Workers |-> <<>>]
  /\ sleeping = {} /\ stop = {}
  /\ worker = [w \in Workers |-> "idle"]
  /\ plan = [a \in Threads |-> IF a \in Clients THEN Outside[a] ELSE <<>>]
  /\ at = [a \in Threads |-> "out"]
  /\ idx = [a \in Threads |-> 0]
  /\ dtor = "no"
  /\ accepted = {} /\ done = {}

-----------------------------------------------------------------------------
(* enqueue, called by thread a for the first task of its plan.              *)

Check(a) ==
  /\ at[a] = "out" /\ plan[a] # <<>>
  /\ ~shutting_down_
  /\ at' = [at EXCEPT ![a] = "claim"]
  /\ UNCHANGED <<poolVars, plan, idx, local_queue, sleeping, worker, accepted, done>>

(* The pool is shutting down: enqueue throws, and ends the calling task.    *)
Refuse(a) ==
  /\ at[a] = "out" /\ plan[a] # <<>>
  /\ shutting_down_
  /\ plan' = [plan EXCEPT ![a] = <<>>]
  /\ UNCHANGED <<poolVars, at, idx, local_queue, sleeping, worker, accepted, done>>

NextWorker(n) == (n + 1) % NumWorkers

Claim(a) ==
  /\ at[a] = "claim"
  /\ idx' = [idx EXCEPT ![a] = next_worker_]
  /\ next_worker_' = NextWorker(next_worker_)
  /\ at' = [at EXCEPT ![a] = "push"]
  /\ UNCHANGED <<shutting_down_, stop, dtor, plan, local_queue, sleeping, worker, accepted, done>>

Push(a) ==
  /\ at[a] = "push"
  /\ local_queue' = [local_queue EXCEPT ![idx[a]] = Append(@, Head(plan[a]))]
  /\ accepted' = accepted \cup {Head(plan[a])}
  /\ at' = [at EXCEPT ![a] = "notify"]
  /\ UNCHANGED <<poolVars, plan, idx, sleeping, worker, done>>

(* (fault) notify_one is left out.                                          *)
AfterNotify_Lost(a) == sleeping

AfterNotify(a) == sleeping \ {idx[a]}

Notify(a) ==
  /\ at[a] = "notify"
  /\ sleeping' = AfterNotify(a)
  /\ plan' = [plan EXCEPT ![a] = Tail(@)]
  /\ at' = [at EXCEPT ![a] = "out"]
  /\ UNCHANGED <<poolVars, idx, local_queue, worker, accepted, done>>

-----------------------------------------------------------------------------
(* The loop of a worker.  cv.wait returns true when the queue has a task,   *)
(* even after a stop was requested, and false when it is empty then.        *)

Awake(w) == worker[w] = "idle" /\ w \notin sleeping

(* (fault) the task is run but not popped.                                  *)
AfterTake_NotPopped(w) == local_queue

AfterTake(w) == [local_queue EXCEPT ![w] = Tail(@)]

Take(w) ==
  /\ Awake(w) /\ local_queue[w] # <<>>
  /\ worker' = [worker EXCEPT ![w] = Head(local_queue[w])]
  /\ plan' = [plan EXCEPT ![w] = Inside[Head(local_queue[w])]]
  /\ local_queue' = AfterTake(w)
  /\ UNCHANGED <<poolVars, at, idx, sleeping, accepted, done>>

Sleep(w) ==
  /\ Awake(w) /\ local_queue[w] = <<>>
  /\ w \notin stop
  /\ sleeping' = sleeping \cup {w}
  /\ UNCHANGED <<poolVars, callVars, local_queue, worker, accepted, done>>

(* (fault) a stop request ends the worker although its queue has tasks.     *)
MayExit_Undrained(w) == w \in stop

MayExit(w) == w \in stop /\ local_queue[w] = <<>>

Exit(w) ==
  /\ Awake(w) /\ MayExit(w)
  /\ worker' = [worker EXCEPT ![w] = "exited"]
  /\ UNCHANGED <<poolVars, callVars, local_queue, sleeping, accepted, done>>

(* The task has enqueued all it wanted to and returns.                      *)
Finish(w) ==
  /\ worker[w] \in Tasks
  /\ plan[w] = <<>> /\ at[w] = "out"
  /\ done' = done \cup {worker[w]}
  /\ worker' = [worker EXCEPT ![w] = "idle"]
  /\ UNCHANGED <<poolVars, callVars, local_queue, sleeping, accepted>>

(* Condition variables may wake without being notified.                     *)
WakeSpuriously(w) ==
  /\ w \in sleeping
  /\ sleeping' = sleeping \ {w}
  /\ UNCHANGED <<poolVars, callVars, local_queue, worker, accepted, done>>

-----------------------------------------------------------------------------
(* ~ThreadPool, and the destruction of workers_ and then contexts_.         *)

BeginDestroy ==
  /\ dtor = "no"
  /\ \A c \in Clients : plan[c] = <<>>
  /\ dtor' = "stopping"
  /\ shutting_down_' = TRUE
  /\ UNCHANGED <<next_worker_, stop, callVars, local_queue, sleeping, worker, accepted, done>>

(* (fault) a stop request does not wake the worker it is for.               *)
AfterStop_StillAsleep(w) == sleeping

AfterStop(w) == sleeping \ {w}

(* request_stop on the workers in turn, each of which wakes if it waits.    *)
RequestStop(w) ==
  /\ dtor = "stopping"
  /\ w = Cardinality(stop)
  /\ stop' = stop \cup {w}
  /\ sleeping' = AfterStop(w)
  /\ UNCHANGED <<next_worker_, shutting_down_, dtor, callVars, local_queue, worker, accepted, done>>

(* All workers have been joined; the queues are destroyed.                  *)
Joined ==
  /\ dtor = "stopping"
  /\ stop = Workers
  /\ \A w \in Workers : worker[w] = "exited"
  /\ dtor' = "destroyed"
  /\ UNCHANGED <<next_worker_, shutting_down_, stop, callVars, local_queue, sleeping, worker, accepted, done>>

Enqueue(a) == Check(a) \/ Refuse(a) \/ Claim(a) \/ Push(a) \/ Notify(a)
Work(w) == Take(w) \/ Sleep(w) \/ Exit(w) \/ Finish(w)
Stop == (\E w \in Workers : RequestStop(w)) \/ Joined

Next ==
  \/ \E a \in Threads : Enqueue(a)
  \/ \E w \in Workers : Work(w) \/ WakeSpuriously(w)
  \/ BeginDestroy
  \/ Stop

(* Every thread that can go on does; whether and when the pool is destroyed *)
(* is the program's choice, but the destructor, once begun, goes on.        *)
Fairness ==
  /\ \A a \in Threads : WF_vars(Enqueue(a))
  /\ \A w \in Workers : WF_vars(Work(w))
  /\ WF_vars(Stop)

Spec == Init /\ [][Next]_vars /\ Fairness

-----------------------------------------------------------------------------
OutsideTasks == UNION {{Outside[c][i] : i \in DOMAIN Outside[c]} : c \in Clients}

(* Every accepted task is in exactly one place: once in one queue, with one *)
(* worker, or done.  So no task is lost before the pool goes, and none runs *)
(* twice, however enqueue and the workers interleave.                       *)
InQueues(t) ==
  {p \in Workers \X (1 .. Cardinality(Tasks)) :
     p[2] <= Len(local_queue[p[1]]) /\ local_queue[p[1]][p[2]] = t}

WithWorkers(t) == {w \in Workers : worker[w] = t}

OnePlace ==
  \A t \in Tasks :
    Cardinality(InQueues(t)) + Cardinality(WithWorkers(t)) + (IF t \in done THEN 1 ELSE 0)
      = IF t \in accepted THEN 1 ELSE 0

(* No wakeup is lost: a worker only sleeps on tasks while a thread is on    *)
(* its way to notify it, and never sleeps through a stop request.           *)
NoLostWakeup ==
  \A w \in sleeping :
    /\ w \notin stop
    /\ local_queue[w] # <<>> => \E a \in Threads : at[a] = "notify" /\ idx[a] = w

(* The drain policy for the tasks that threads outside the pool enqueued:   *)
(* all have run when the pool is gone.                                      *)
OutsideDrained == dtor = "destroyed" => OutsideTasks \subseteq done

(* The drain policy as thread_pool.hpp announces it, for every task that    *)
(* enqueue accepted.                                                        *)
DrainPolicy == dtor = "destroyed" => accepted \subseteq done

(* Every task enqueued from outside is run, whether or not the pool is ever *)
(* destroyed ...                                                            *)
OutsideRun == \A t \in OutsideTasks : t \in accepted ~> t \in done

(* ... and the destructor returns.                                          *)
DestructionEnds == dtor = "stopping" ~> dtor = "destroyed"
=============================================================================
