---------------------------- MODULE RequestSearch ----------------------------
(***************************************************************************)
(* How a device thread finds the requests its rows belong to: the binary    *)
(* search get_request_idx (tiny_llm/ops/details.hpp) as write_dst_lt_paged  *)
(* (tiny_llm/ops/cuda/gemm.cu) calls it.  A thread has TileY rows, Stride   *)
(* apart, and starts each search at the request of the row before.          *)
(***************************************************************************)
EXTENDS Naturals

CONSTANTS
  MaxRequests,  \* bound: requests in a batch
  MaxTotal,     \* bound: tokens in a batch, and the first row of a thread
  TileY,        \* kTileY, the rows of a thread
  Stride        \* kThreadNumY, the distance between them

ASSUME SearchAssumption ==
  /\ MaxRequests \in Nat /\ MaxTotal \in Nat
  /\ TileY \in Nat /\ Stride \in Nat

VARIABLES
  num_requests, seq_separator,  \* what the thread is given
  dst_row,      \* the row at hand
  ty,           \* how many rows are done
  request_idx,  \* the request of the row before, 0 at first
  beg, end, res, searching  \* the locals of get_request_idx, if it is running

vars == <<num_requests, seq_separator, dst_row, ty, request_idx, beg, end, res, searching>>

(* The running totals of the lengths of n requests; a request may be empty. *)
Separators(n) ==
  {sep \in [0 .. n -> 0 .. MaxTotal] :
     sep[0] = 0 /\ \A i, j \in 0 .. n : i <= j => sep[i] <= sep[j]}

Init ==
  /\ num_requests \in 1 .. MaxRequests
  /\ seq_separator \in Separators(num_requests)
  /\ dst_row \in 0 .. MaxTotal
  /\ ty = 0 /\ request_idx = 0
  /\ beg = 0 /\ end = 0 /\ res = 0 /\ searching = FALSE

SearchEnd == num_requests

(* get_request_idx(dst_row, seq_separator, request_idx, num_requests)       *)
Call ==
  /\ ~searching /\ ty < TileY
  /\ searching' = TRUE
  /\ beg' = request_idx /\ end' = SearchEnd /\ res' = request_idx
  /\ UNCHANGED <<num_requests, seq_separator, dst_row, ty, request_idx>>

Mid == beg + ((end - beg) \div 2)

(* (fault) a request that begins at the row is not taken.                   *)
BeginsBefore_Strict(i) == seq_separator[i] < dst_row

BeginsBefore(i) == seq_separator[i] <= dst_row

ProbeHit ==
  /\ searching /\ beg < end
  /\ BeginsBefore(Mid)
  /\ res' = Mid /\ beg' = Mid + 1
  /\ UNCHANGED <<num_requests, seq_separator, dst_row, ty, request_idx, end, searching>>

NewEnd == Mid

ProbeMiss ==
  /\ searching /\ beg < end
  /\ ~BeginsBefore(Mid)
  /\ end' = NewEnd
  /\ UNCHANGED <<num_requests, seq_separator, dst_row, ty, request_idx, beg, res, searching>>

Result == res

(* The search returns; the thread goes on to its next row.                  *)
Return ==
  /\ searching /\ ~(beg < end)
  /\ searching' = FALSE
  /\ request_idx' = Result
  /\ ty' = ty + 1 /\ dst_row' = dst_row + Stride
  /\ UNCHANGED <<num_requests, seq_separator, beg, end, res>>

Next == Call \/ ProbeHit \/ ProbeMiss \/ Return

Spec == Init /\ [][Next]_vars /\ WF_vars(Next)

-----------------------------------------------------------------------------
(* Type invariant.                                                          *)
TypeOK ==
  /\ num_requests \in 1 .. MaxRequests
  /\ seq_separator \in Separators(num_requests)
  /\ dst_row \in Nat /\ ty \in Nat
  /\ request_idx \in 0 .. num_requests - 1
  /\ res \in 0 .. num_requests - 1
  /\ beg \in Nat /\ end \in 0 .. num_requests
  /\ searching \in BOOLEAN

(* The greatest index in [0, num_requests) with seq_separator[i] <= row:    *)
(* the comment on get_request_idx, over the whole batch.                    *)
IsRequestOf(i, row) ==
  /\ i \in 0 .. num_requests - 1
  /\ seq_separator[i] <= row
  /\ \A j \in 0 .. num_requests - 1 : seq_separator[j] <= row => j <= i

(* Every search returns the request of its row, although all but the first  *)
(* do not begin at 0, and although empty requests repeat an offset.         *)
FindsRequest == searching /\ ~(beg < end) => IsRequestOf(res, dst_row)

(* A search never reads past the requests it is given.                      *)
ProbesInRange == searching /\ beg < end => Mid \in request_idx .. num_requests - 1

(* Every probe narrows the interval, so a search ends.                      *)
Narrows == [][searching /\ beg < end => end' - beg' < end - beg]_vars
=============================================================================
