--------------------------- MODULE PageOwnership ---------------------------
(***************************************************************************)
(* What a page pool promises: sets of pages move from the free set to an    *)
(* owner and from the owner back to the free set.  Nothing is said of the   *)
(* order in which free pages are handed out.                                *)
(***************************************************************************)
CONSTANTS Page, Owner

VARIABLES free, owned

vars == <<free, owned>>

Init ==
  /\ free = Page
  /\ owned = [o \in Owner |-> {}]

Acquire(o, S) ==
  /\ S \subseteq free
  /\ free' = free \ S
  /\ owned' = [owned EXCEPT ![o] = @ \cup S]

Release(o, S) ==
  /\ S \subseteq owned[o]
  /\ owned' = [owned EXCEPT ![o] = @ \ S]
  /\ free' = free \cup S

Next == \E o \in Owner, S \in SUBSET Page : Acquire(o, S) \/ Release(o, S)

Spec == Init /\ [][Next]_vars
=============================================================================
