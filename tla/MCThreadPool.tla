---------------------------- MODULE MCThreadPool ----------------------------
(* Two workers and three clients: two call parallel_run, on an interval of   *)
(* three elements, in two pieces, and of one, in one; the third enqueues a   *)
(* task that enqueues another: every client has work in flight while others  *)
(* enqueue, and a task enqueues while the pool is destroyed.                 *)
EXTENDS ParallelRun, TLC

CONSTANTS c1, c2, c3, t1, t2, t3, t4, t5

MCCalls == (c1 :> <<0, 3>>) @@ (c3 :> <<0, 1>>)
MCPieceOf == (t1 :> <<0, 2>>) @@ (t2 :> <<2, 3>>) @@ (t5 :> <<0, 1>>)
MCOutside == (c1 :> <<t1, t2>>) @@ (c2 :> <<t3>>) @@ (c3 :> <<t5>>)
MCInside == [t \in Tasks |-> IF t = t3 THEN <<t4>> ELSE <<>>]
=============================================================================
