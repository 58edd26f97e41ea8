------------------------ MODULE RequestSearchProofs ------------------------
(***************************************************************************)
(* The search is right for batches of any size and threads of any number    *)
(* of rows.                                                                 *)
(***************************************************************************)
EXTENDS RequestSearch, TLAPS

(* While a search runs, res begins at or before the row, the interval       *)
(* starts at res or just after it, and every request from end on begins     *)
(* after the row.  Between searches the request of the row before still     *)
(* begins at or before the next row, which is what lets a search start      *)
(* there.                                                                   *)
SearchInv ==
  /\ request_idx <= res /\ seq_separator[res] <= dst_row
  /\ beg <= end /\ (beg = res \/ beg = res + 1)
  /\ \A j \in end .. num_requests - 1 : dst_row < seq_separator[j]

Inv ==
  /\ TypeOK
  /\ seq_separator[request_idx] <= dst_row
  /\ searching => SearchInv

(* Offsets are numbers.                                                     *)
LEMMA OffsetType ==
  ASSUME TypeOK
  PROVE  /\ num_requests \in Nat \ {0}
         /\ seq_separator[0] = 0
         /\ \A i \in 0 .. num_requests : seq_separator[i] \in Nat
         /\ \A i, j \in 0 .. num_requests : i <= j => seq_separator[i] <= seq_separator[j]
BY SearchAssumption DEF TypeOK, Separators

(* The probe lies in the interval.                                          *)
LEMMA MidInside ==
  ASSUME beg \in Nat, end \in Nat, beg < end
  PROVE  Mid \in Nat /\ beg <= Mid /\ Mid < end
BY DEF Mid

LEMMA InitInv == Init => Inv
<1> SUFFICES ASSUME Init PROVE Inv
  OBVIOUS
<1>1. num_requests \in Nat \ {0} /\ dst_row \in Nat
  BY SearchAssumption DEF Init
<1>2. searching \in BOOLEAN /\ ~searching
  BY DEF Init
<1>3. TypeOK
  BY <1>1, <1>2 DEF Init, TypeOK
<1> QED
  BY <1>1, <1>2, <1>3, OffsetType DEF Init, Inv

LEMMA NextInv == Inv /\ [Next]_vars => Inv'
<1> SUFFICES ASSUME Inv, [Next]_vars PROVE Inv'
  OBVIOUS
<1>0. /\ num_requests \in Nat \ {0} /\ seq_separator[0] = 0
      /\ \A i \in 0 .. num_requests : seq_separator[i] \in Nat
      /\ \A i, j \in 0 .. num_requests : i <= j => seq_separator[i] <= seq_separator[j]
  BY OffsetType DEF Inv
<1>1. CASE Call
  BY <1>0, <1>1 DEF Call, SearchEnd, Inv, TypeOK, SearchInv
<1>2. CASE ProbeHit
  <2>1. searching /\ beg < end /\ SearchInv /\ TypeOK
    BY <1>2 DEF ProbeHit, Inv
  <2>2. Mid \in Nat /\ beg <= Mid /\ Mid < end
    BY <2>1, MidInside DEF TypeOK
  <2>3. /\ res' = Mid /\ beg' = Mid + 1 /\ seq_separator[Mid] <= dst_row
        /\ UNCHANGED <<num_requests, seq_separator, dst_row, ty, request_idx, end, searching>>
    BY <1>2 DEF ProbeHit, BeginsBefore
  <2> QED
    BY <1>0, <2>1, <2>2, <2>3 DEF Inv, TypeOK, SearchInv
<1>3. CASE ProbeMiss
  <2>1. searching /\ beg < end /\ SearchInv /\ TypeOK
    BY <1>3 DEF ProbeMiss, Inv
  <2>2. Mid \in Nat /\ beg <= Mid /\ Mid < end
    BY <2>1, MidInside DEF TypeOK
  <2>3. /\ end' = Mid /\ dst_row < seq_separator[Mid]
        /\ UNCHANGED <<num_requests, seq_separator, dst_row, ty, request_idx, beg, res, searching>>
    BY <1>0, <1>3, <2>1, <2>2 DEF ProbeMiss, NewEnd, BeginsBefore, TypeOK
  <2>4. \A j \in Mid .. num_requests - 1 : dst_row < seq_separator[j]
    BY <1>0, <2>1, <2>2, <2>3 DEF TypeOK
  <2> QED
    BY <1>0, <2>1, <2>2, <2>3, <2>4 DEF Inv, TypeOK, SearchInv
<1>4. CASE Return
  <2>1. /\ request_idx' = res /\ searching' = FALSE
        /\ ty' = ty + 1 /\ dst_row' = dst_row + Stride
        /\ UNCHANGED <<num_requests, seq_separator, beg, end, res>>
    BY <1>4 DEF Return, Result
  <2>2. TypeOK /\ SearchInv
    BY <1>4 DEF Return, Result, Inv
  <2>3. ty' \in Nat /\ dst_row' \in Nat /\ dst_row <= dst_row'
    BY <2>1, <2>2, SearchAssumption DEF TypeOK
  <2>4. TypeOK'
    BY <2>1, <2>2, <2>3 DEF TypeOK
  <2>5. (seq_separator[request_idx] <= dst_row)'
    BY <1>0, <2>1, <2>2, <2>3 DEF TypeOK, SearchInv
  <2> QED BY <2>1, <2>4, <2>5 DEF Inv
<1>5. CASE UNCHANGED vars
  BY <1>5 DEF vars, Inv, TypeOK, SearchInv
<1> QED
  BY <1>1, <1>2, <1>3, <1>4, <1>5 DEF Next

(* The locals stay indices of requests.                                     *)
THEOREM TypeCorrect == Spec => []TypeOK
<1>1. Inv => TypeOK
  BY DEF Inv
<1> QED
  BY <1>1, InitInv, NextInv, PTL DEF Spec

(* Every search returns the greatest request that begins at or before its   *)
(* row, though it started from the request of an earlier row.               *)
THEOREM SearchCorrect == Spec => []FindsRequest
<1>1. Inv => FindsRequest
  <2> SUFFICES ASSUME Inv, searching, ~(beg < end)
               PROVE  IsRequestOf(res, dst_row)
    BY DEF FindsRequest
  <2>1. SearchInv /\ TypeOK /\ beg = end
    BY DEF Inv, SearchInv, TypeOK
  <2>2. ASSUME NEW j \in 0 .. num_requests - 1, seq_separator[j] <= dst_row
        PROVE  j <= res
    BY <2>1, <2>2, OffsetType DEF SearchInv, TypeOK
  <2> QED BY <2>1, <2>2 DEF IsRequestOf, SearchInv, TypeOK
<1> QED
  BY <1>1, InitInv, NextInv, PTL DEF Spec

(* No search reads an offset before its start or after the last request.    *)
THEOREM SearchInBounds == Spec => []ProbesInRange
<1>1. Inv => ProbesInRange
  <2> SUFFICES ASSUME Inv, searching, beg < end
               PROVE  Mid \in request_idx .. num_requests - 1
    BY DEF ProbesInRange
  <2>1. Mid \in Nat /\ beg <= Mid /\ Mid < end
    BY MidInside DEF Inv, TypeOK
  <2> QED BY <2>1 DEF Inv, SearchInv, TypeOK
<1> QED
  BY <1>1, InitInv, NextInv, PTL DEF Spec

(* Every step taken inside the loop narrows the interval, so no search runs *)
(* for more than num_requests probes.                                       *)
THEOREM SearchNarrows == Spec => Narrows
<1>1. Inv /\ [Next]_vars => [searching /\ beg < end => end' - beg' < end - beg]_vars
  <2> SUFFICES ASSUME Inv, Next, searching, beg < end
               PROVE  end' - beg' < end - beg
    OBVIOUS
  <2>1. Mid \in Nat /\ beg <= Mid /\ Mid < end /\ beg \in Nat /\ end \in Nat
    BY MidInside DEF Inv, TypeOK
  <2>2. CASE ProbeHit
    BY <2>1, <2>2 DEF ProbeHit
  <2>3. CASE ProbeMiss
    BY <2>1, <2>3 DEF ProbeMiss, NewEnd
  <2> QED BY <2>2, <2>3 DEF Next, Call, SearchEnd, Return
<1> QED
  BY <1>1, InitInv, NextInv, PTL DEF Spec, Narrows
=============================================================================
