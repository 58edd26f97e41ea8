---------------------------- MODULE MemoryPlanner ----------------------------
(***************************************************************************)
(* GreedyMemoryPlaner as its client sees it: blocks are allocated and       *)
(* deallocated in any order (tiny_llm/runtime/greedy_memory_planer.cpp).    *)
(***************************************************************************)
EXTENDS GreedyPlanner, FiniteSets

CONSTANTS
  Sizes, Alignments,  \* what clients ask for
  MaxSize             \* bound: the arena is not grown past this

ASSUME PlannerAssumption ==
  /\ Sizes \subseteq Nat \ {0} /\ Alignments \subseteq Nat \ {0}
  /\ MaxSize \in Nat

VARIABLES
  planner,  \* total_size_ and v_blocks_
  live      \* the blocks that were returned and not yet given back

vars == <<planner, live>>

Init ==
  /\ planner = EmptyPlanner
  /\ live = {}

Allocate(size, alignment) ==
  LET b == Allocated(planner, size, alignment)
  IN  /\ EndOf(b) <= MaxSize
      /\ planner' = AfterAllocate(planner, size, alignment)
      /\ live' = live \cup {b}

(* Clients give back only what they hold, and that is never refused.        *)
Deallocate(b) ==
  /\ b \in live
  /\ planner' = AfterDeallocate(planner, b)
  /\ live' = live \ {b}

Next ==
  \/ \E size \in Sizes, alignment \in Alignments : Allocate(size, alignment)
  \/ \E b \in live : Deallocate(b)

Spec == Init /\ [][Next]_vars

-----------------------------------------------------------------------------
FreeBlocks == {planner.v_blocks[i] : i \in DOMAIN planner.v_blocks}

(* The blocks of the clients and the free blocks, together, are the arena:  *)
(* no byte is in two of them, and none is lost, alignment padding included. *)
ArenaPartitioned ==
  /\ UNION {Bytes(b) : b \in live \cup FreeBlocks} = 0 .. planner.total_size - 1
  /\ live \cap FreeBlocks = {}
  /\ \A b, c \in live \cup FreeBlocks : b # c => ~Overlap(b, c)

(* The list is in order, no two of its blocks meet and none is empty: a     *)
(* free area is one block whatever the order it was given back in, so first *)
(* fit sees it all.                                                         *)
Merged ==
  \A i \in DOMAIN planner.v_blocks :
    /\ planner.v_blocks[i].size > 0
    /\ i + 1 \in DOMAIN planner.v_blocks =>
         EndOf(planner.v_blocks[i]) < planner.v_blocks[i + 1].offset

(* Whatever the order blocks are taken and given back in.                   *)
ArenaSound == ArenaPartitioned /\ Merged
=============================================================================
