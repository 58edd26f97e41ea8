--------------------------- MODULE PagePoolProofs ---------------------------
(***************************************************************************)
(* The page pool partitions its pages for every number of pages and every   *)
(* set of owners, and implements PageOwnership.                             *)
(***************************************************************************)
EXTENDS PagePool, FreeListLemmas

(* The partition needs no strengthening: with the type invariant it is      *)
(* inductive.                                                               *)
Inv == TypeOK /\ NoDoubleOwner /\ NoPageLost

LEMMA InitInv == Init => Inv
BY PagePoolAssumption, InitialPartition
DEF Init, Inv, TypeOK, NoDoubleOwner, NoPageLost, Pages

(* The pages allocate_pages pops move from the list to the owner.           *)
LEMMA AllocateMoves ==
  ASSUME Inv, NEW o \in Owners, NEW n \in 1 .. NumPages, Allocate(o, n)
  PROVE  LET got == Range(Popped(free_list_, n))
         IN  /\ Inv'
             /\ got \subseteq Range(free_list_)
             /\ Range(free_list_') = Range(free_list_) \ got
             /\ Range(held'[o]) = Range(held[o]) \cup got
             /\ \A p \in Owners \ {o} : held'[p] = held[p]
<1>1. /\ Allocated(Pages, Owners, free_list_, held, o, n, free_list_', held')
      /\ Covered(Pages, free_list_, held)
  BY PagePoolAssumption
  DEF Allocate, CanAllocate, Allocated, Inv, TypeOK, NoDoubleOwner, NoPageLost
<1>2. /\ free_list_' \in Seq(Pages) /\ held' \in [Owners -> Seq(Pages)]
      /\ Unshared(free_list_', held') /\ Covered(Pages, free_list_', held')
      /\ Range(Popped(free_list_, n)) \subseteq Range(free_list_)
      /\ Range(free_list_') = Range(free_list_) \ Range(Popped(free_list_, n))
      /\ Range(held'[o]) = Range(held[o]) \cup Range(Popped(free_list_, n))
      /\ \A p \in Owners \ {o} : held'[p] = held[p]
  BY <1>1, AllocateKeepsPartition
<1>3. Inv'
  BY <1>2 DEF Inv, TypeOK, NoDoubleOwner, NoPageLost, Pages
<1> QED
  BY <1>2, <1>3

(* free_pages moves the first k pages of the owner to the list.             *)
LEMMA FreeMoves ==
  ASSUME Inv, NEW o \in Owners, NEW k \in 1 .. Len(held[o]), Free(o, k)
  PROVE  LET back == Range(SubSeq(held[o], 1, k))
         IN  /\ Inv'
             /\ back \subseteq Range(held[o])
             /\ Range(free_list_') = Range(free_list_) \cup back
             /\ Range(held'[o]) = Range(held[o]) \ back
             /\ \A p \in Owners \ {o} : held'[p] = held[p]
<1>0. PICK first : first = SubSeq(held[o], 1, k)
  OBVIOUS
<1>1. /\ Freed(Pages, Owners, free_list_, held, o, k, first, free_list_', held')
      /\ Covered(Pages, free_list_, held)
  BY <1>0 DEF Free, Freed, Inv, TypeOK, NoDoubleOwner, NoPageLost
<1>2. free_list_' \in Seq(Pages)
  BY <1>1, FreeKeepsPartition
<1>3. held' \in [Owners -> Seq(Pages)]
  BY <1>1, FreeKeepsPartition
<1>4. Unshared(free_list_', held')
  BY <1>1, FreeKeepsPartition
<1>5. Covered(Pages, free_list_', held')
  BY <1>1, FreeKeepsPartition
<1>6. Range(first) \subseteq Range(held[o])
  BY <1>1, FreeKeepsPartition
<1>7. Range(free_list_') = Range(free_list_) \cup Range(first)
  BY <1>1, FreeKeepsPartition
<1>8. Range(held'[o]) = Range(held[o]) \ Range(first)
  BY <1>1, FreeKeepsPartition
<1>9. \A p \in Owners \ {o} : held'[p] = held[p]
  BY <1>1, FreeKeepsPartition
<1>10. Inv'
  BY <1>2, <1>3, <1>4, <1>5 DEF Inv, TypeOK, NoDoubleOwner, NoPageLost, Pages
<1> QED
  BY <1>0, <1>6, <1>7, <1>8, <1>9, <1>10

LEMMA NextInv == Inv /\ [Next]_vars => Inv'
<1> SUFFICES ASSUME Inv, [Next]_vars PROVE Inv'
  OBVIOUS
<1>1. ASSUME NEW o \in Owners, NEW n \in 1 .. NumPages, Allocate(o, n)
      PROVE  Inv'
  BY <1>1, AllocateMoves
<1>2. ASSUME NEW o \in Owners, NEW k \in 1 .. Len(held[o]), Free(o, k)
      PROVE  Inv'
  BY <1>2, FreeMoves
<1>3. CASE UNCHANGED vars
  BY <1>3 DEF Inv, TypeOK, NoDoubleOwner, NoPageLost, vars
<1> QED
  BY <1>1, <1>2, <1>3 DEF Next

(* The lists only ever hold page numbers of the pool.                       *)
THEOREM TypeCorrect == Spec => []TypeOK
<1>1. Inv => TypeOK
  BY DEF Inv
<1> QED
  BY <1>1, InitInv, NextInv, PTL DEF Spec

(* No page ever has two owners, or an owner and a place in the free list,   *)
(* and none is ever lost to the pool.                                       *)
THEOREM PartitionCorrect == Spec => []PagesPartitioned
<1>1. Inv => PagesPartitioned
  BY DEF Inv, PagesPartitioned
<1> QED
  BY <1>1, InitInv, NextInv, PTL DEF Spec

(* Every step of the pool is a step of PageOwnership or leaves ownership    *)
(* unchanged: pages move only between the free set and one owner.           *)
THEOREM ImplementsOwnership == Spec => RefinesOwnership
<1> DEFINE owned == [o \in Owners |-> Range(held[o])]
<1>1. Init => Ownership!Init
  <2> SUFFICES ASSUME Init PROVE Ownership!Init
    OBVIOUS
  <2>1. Range(free_list_) = Pages
    <3>1. Inv
      BY InitInv
    <3>2. \A o \in Owners : Range(held[o]) = {}
      BY DEF Init, Range
    <3> QED BY <3>1, <3>2 DEF Init, Inv, NoPageLost, Covered
  <2>2. owned = [o \in Owners |-> {}]
    BY DEF Init, Range
  <2> QED BY <2>1, <2>2 DEF Ownership!Init
<1>2. Inv /\ [Next]_vars => [Ownership!Next]_(Ownership!vars)
  <2> SUFFICES ASSUME Inv, [Next]_vars
               PROVE  [Ownership!Next]_(Ownership!vars)
    OBVIOUS
  <2>0. Range(free_list_) \subseteq Pages /\ \A o \in Owners : Range(held[o]) \subseteq Pages
    BY DEF Inv, TypeOK, NoPageLost, Covered
  <2>1. ASSUME NEW o \in Owners, NEW n \in 1 .. NumPages, Allocate(o, n)
        PROVE  Ownership!Next
    <3> DEFINE got == Range(Popped(free_list_, n))
    <3>1. /\ got \subseteq Range(free_list_)
          /\ Range(free_list_') = Range(free_list_) \ got
          /\ Range(held'[o]) = Range(held[o]) \cup got
          /\ \A p \in Owners \ {o} : held'[p] = held[p]
      BY <2>1, AllocateMoves
    <3> HIDE DEF got
    <3>2. owned' = [owned EXCEPT ![o] = owned[o] \cup got]
      BY <3>1
    <3>3. got \in SUBSET Pages
      BY <2>0, <3>1
    <3>4. Ownership!Acquire(o, got)
      BY <3>1, <3>2 DEF Ownership!Acquire
    <3> QED BY <3>3, <3>4 DEF Ownership!Next
  <2>2. ASSUME NEW o \in Owners, NEW k \in 1 .. Len(held[o]), Free(o, k)
        PROVE  Ownership!Next
    <3> DEFINE back == Range(SubSeq(held[o], 1, k))
    <3>1. /\ back \subseteq Range(held[o])
          /\ Range(free_list_') = Range(free_list_) \cup back
          /\ Range(held'[o]) = Range(held[o]) \ back
          /\ \A p \in Owners \ {o} : held'[p] = held[p]
      BY <2>2, FreeMoves
    <3> HIDE DEF back
    <3>2. owned' = [owned EXCEPT ![o] = owned[o] \ back]
      BY <3>1
    <3>3. back \in SUBSET Pages
      BY <2>0, <3>1
    <3>4. Ownership!Release(o, back)
      BY <3>1, <3>2 DEF Ownership!Release
    <3> QED BY <3>3, <3>4 DEF Ownership!Next
  <2>3. CASE UNCHANGED vars
    BY <2>3 DEF vars, Ownership!vars
  <2> QED BY <2>1, <2>2, <2>3 DEF Next
<1> QED
  BY <1>1, <1>2, InitInv, NextInv, PTL DEF Spec, RefinesOwnership, Ownership!Spec

=============================================================================
