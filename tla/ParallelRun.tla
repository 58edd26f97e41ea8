------------------------------ MODULE ParallelRun ------------------------------
(***************************************************************************)
(* The CPU operators (cpu_op_common.hpp and arithmetic.cpp of               *)
(* tiny_llm/ops/cpu) as clients of ThreadPool: parallel_run cuts an         *)
(* interval into pieces, enqueues the same function for each, by reference, *)
(* and gets the futures one after another.  A piece that throws makes its   *)
(* get throw, and the call ends with it.                                    *)
(*                                                                         *)
(* Some clients enqueue tasks of their own instead.                         *)
(***************************************************************************)
EXTENDS ThreadPool

CONSTANTS
  Calls,       \* the clients that call parallel_run, and their <<beg, end>>
  PieceOf,     \* the <<beg, end>> of the tasks they enqueue
  Lanes,       \* elements of a vector of arithmetic_mul_avx2_kernel, 8
  MaxElements  \* bound: the elements of the intervals that are cut

Callers == DOMAIN Calls

Interval(beg, end, task_num) == (end - beg + task_num - 1) \div task_num

(* The last piece is what is left.                                          *)
Pieces(beg, end, task_num) ==
  LET interval == Interval(beg, end, task_num)
      whole == {k \in 0 .. end - beg : beg + (k + 1) * interval < end}
  IN  [k \in 1 .. Cardinality(whole) + 1 |->
         <<beg + (k - 1) * interval,
           IF k - 1 \in whole THEN beg + k * interval ELSE end>>]

ASSUME CallsAssumption ==
  /\ Callers \subseteq Clients /\ Lanes \in Nat \ {0} /\ MaxElements \in Nat
  /\ \A c \in Callers : /\ Calls[c] \in Nat \X Nat /\ Calls[c][1] < Calls[c][2]
                        /\ [i \in DOMAIN Outside[c] |-> PieceOf[Outside[c][i]]]
                             = Pieces(Calls[c][1], Calls[c][2], NumWorkers)

VARIABLES
  next_get,  \* for each caller, the future it gets next
  returned,  \* the callers whose call has returned ...
  threw,     \* ... or thrown
  failed     \* the pieces that have thrown

runVars == <<next_get, returned, threw>>
rvars == <<vars, runVars, failed>>

RInit ==
  /\ Init
  /\ next_get = [c \in Callers |-> 1]
  /\ returned = {} /\ threw = {} /\ failed = {}

-----------------------------------------------------------------------------
Futures(c) == DOMAIN Outside[c]

(* (fault) the futures are not waited for but the last.                     *)
Ready_LastOnly(c) == Outside[c][Len(Outside[c])] \in done

Ready(c) == Outside[c][next_get[c]] \in done

(* All pieces are enqueued; the next future has a result.                   *)
Get(c) ==
  /\ c \notin returned \cup threw
  /\ plan[c] = <<>> /\ at[c] = "out" /\ Ready(c)
  /\ IF Outside[c][next_get[c]] \in failed
       THEN threw' = threw \cup {c} /\ UNCHANGED <<next_get, returned>>
     ELSE IF next_get[c] \in Futures(c) \ {Len(Outside[c])}
       THEN next_get' = [next_get EXCEPT ![c] = @ + 1] /\ UNCHANGED <<returned, threw>>
     ELSE returned' = returned \cup {c} /\ UNCHANGED <<next_get, threw>>
  /\ UNCHANGED <<vars, failed>>

(* A task ends; one that is a piece may have thrown.                        *)
FinishPiece(w) ==
  /\ Finish(w)
  /\ failed' \in {failed} \cup {failed \cup {t} : t \in DOMAIN PieceOf \cap {worker[w]}}
  /\ UNCHANGED runVars

Others ==
  \/ \E a \in Threads : Enqueue(a)
  \/ \E w \in Workers : Take(w) \/ Sleep(w) \/ Exit(w) \/ WakeSpuriously(w)
  \/ BeginDestroy /\ Callers \subseteq returned \cup threw
  \/ Stop

RNext ==
  \/ Others /\ UNCHANGED <<runVars, failed>>
  \/ \E w \in Workers : FinishPiece(w)
  \/ \E c \in Callers : Get(c)

(* The fairness of the pool, and that a caller whose future is ready goes   *)
(* on; a task may throw or not.                                             *)
RSpec == RInit /\ [][RNext]_rvars /\ Fairness /\ \A c \in Callers : WF_rvars(Get(c))

-----------------------------------------------------------------------------
(* What a piece does with its elements: whole vectors, then one by one.     *)
VectorElements(piece) == piece[1] .. piece[1] + (((piece[2] - piece[1]) \div Lanes) * Lanes) - 1

ScalarElements(piece) == piece[1] + Cardinality(VectorElements(piece)) .. piece[2] - 1

(* How often element e is worked on by the pieces of a sequence.            *)
Times(e, pieces) ==
  Cardinality({k \in DOMAIN pieces : e \in VectorElements(pieces[k])})
    + Cardinality({k \in DOMAIN pieces : e \in ScalarElements(pieces[k])})

Whole(beg, end, task_num) ==
  LET pieces == Pieces(beg, end, task_num)
  IN  /\ Len(pieces) <= task_num
      /\ \A e \in 0 .. end + Lanes : Times(e, pieces) = IF e \in beg .. end - 1 THEN 1 ELSE 0

(* Any interval is cut into at most as many pieces as there are workers,    *)
(* and every element is worked on once, none twice: operators work in place.*)
AllWhole ==
  \A beg \in 0 .. 1, length \in 1 .. MaxElements, task_num \in 1 .. MaxElements + 1 :
    Whole(beg, beg + length, task_num)

(* A call returns when all its pieces have run to their end, so that the    *)
(* whole result is there and no task is left that refers to the function of *)
(* a call that is gone; however its pieces, those of other calls and the    *)
(* destruction of the pool interleave.  It throws only if a piece did.      *)
ReturnsWhole ==
  /\ \A c \in returned : \A i \in Futures(c) : Outside[c][i] \in done \ failed
  /\ \A c \in threw : \E i \in Futures(c) : Outside[c][i] \in failed
  /\ returned # {} => AllWhole
=============================================================================
