------------------------------- MODULE KVCache -------------------------------
(***************************************************************************)
(* What a paged KV cache promises its clients: each request has a history   *)
(* of token rows of its own, and when rows are fed to a batch of requests,  *)
(* every one of them attends, in every layer, to exactly the rows of its    *)
(* own request up to itself, in order.  There are no pages here.            *)
(***************************************************************************)
EXTENDS Naturals, Sequences, FiniteSets

CONSTANTS
  Request, Layer,
  FeedLens      \* how many rows a request may be fed at once

VARIABLES
  history,      \* for each request, the rows it was fed
  attended      \* for each layer, what the rows fed in this step attended to:
                \* pairs of a row and the sequence of rows it attended to

vars == <<history, attended>>

Nothing == [l \in Layer |-> {}]

(* The i-th row of request r: which row it is is all that matters here.     *)
Rows(r, n) == [i \in 1 .. n |-> <<r, i>>]

Init ==
  /\ history = [r \in Request |-> <<>>]
  /\ attended = Nothing

(* Feed lens[r] rows to every request of S at once.                         *)
Feed(S, lens) ==
  LET fed(r) == Len(history[r]) + lens[r]
  IN  /\ history' = [r \in Request |-> IF r \in S THEN Rows(r, fed(r)) ELSE history[r]]
      /\ attended' = [l \in Layer |->
           UNION {{<< <<r, i>>, Rows(r, i) >> : i \in Len(history[r]) + 1 .. fed(r)} : r \in S}]

Drop(r) ==
  /\ history' = [history EXCEPT ![r] = <<>>]
  /\ attended' = Nothing

Rest ==
  /\ attended' = Nothing
  /\ UNCHANGED history

Next ==
  \/ \E S \in SUBSET Request : \E lens \in [S -> FeedLens] : Feed(S, lens)
  \/ \E r \in Request : Drop(r)
  \/ Rest

Spec == Init /\ [][Next]_vars
=============================================================================
