---------------------------- MODULE GreedyPlanner ----------------------------
(***************************************************************************)
(* What the member functions of GreedyMemoryPlaner                          *)
(* (tiny_llm/runtime/greedy_memory_planer.cpp) compute.  A planner is       *)
(* [total_size, v_blocks]: the size of the arena so far, and the list of    *)
(* its free blocks.  MemoryPlanner and MemoryPlan build on these.           *)
(***************************************************************************)
EXTENDS Naturals, Sequences

VirtualBlock(offset, size) == [offset |-> offset, size |-> size]

EndOf(b) == b.offset + b.size
Bytes(b) == b.offset .. EndOf(b) - 1
Overlap(b, c) == b.offset < EndOf(c) /\ c.offset < EndOf(b)

EmptyPlanner == [total_size |-> 0, v_blocks |-> <<>>]

(* A list of one block, or of none if the block is empty.                   *)
NonEmpty(b) == IF b.size = 0 THEN <<>> ELSE <<b>>

Before(s, i) == SubSeq(s, 1, i - 1)
After(s, i) == SubSeq(s, i + 1, Len(s))

SmallestOf(S) == CHOOSE i \in S : \A j \in S : i <= j

-----------------------------------------------------------------------------
aligned_pos(pos, alignment) == ((pos + alignment - 1) \div alignment) * alignment

(* (fault) the padding before the aligned offset is not counted.            *)
FitsIn_NoPadding(b, size, alignment) == size <= b.size

FitsIn(b, size, alignment) == aligned_pos(b.offset, alignment) + size <= EndOf(b)

Fitting(p, size, alignment) ==
  {i \in DOMAIN p.v_blocks : FitsIn(p.v_blocks[i], size, alignment)}

(* The block allocate returns: in the first free block it fits in, or at    *)
(* the end of the arena.                                                    *)
Allocated(p, size, alignment) ==
  LET S == Fitting(p, size, alignment)
      from == IF S = {} THEN p.total_size ELSE p.v_blocks[SmallestOf(S)].offset
  IN  VirtualBlock(aligned_pos(from, alignment), size)

(* The free block at i gives way to what is left of it on both sides.       *)
Carved(p, i, b) ==
  LET free == p.v_blocks[i]
  IN  [p EXCEPT !.v_blocks =
         Before(@, i) \o NonEmpty(VirtualBlock(free.offset, b.offset - free.offset))
                      \o NonEmpty(VirtualBlock(EndOf(b), EndOf(free) - EndOf(b)))
                      \o After(@, i)]

(* (fault) padding after a free block is a block of its own.                *)
Padded_Apart(p, gap) == p.v_blocks \o NonEmpty(gap)

(* Padding at the end of the arena is free; it joins the block before it.   *)
Padded(p, gap) ==
  LET n == Len(p.v_blocks)
  IN  IF n > 0 /\ EndOf(p.v_blocks[n]) = gap.offset
        THEN [p.v_blocks EXCEPT ![n].size = @ + gap.size]
        ELSE p.v_blocks \o NonEmpty(gap)

Grown(p, b) ==
  [total_size |-> EndOf(b),
   v_blocks |-> Padded(p, VirtualBlock(p.total_size, b.offset - p.total_size))]

(* The planner after allocate has returned b = Allocated(p, ...).           *)
AfterAllocate(p, size, alignment) ==
  LET b == Allocated(p, size, alignment)
      S == Fitting(p, size, alignment)
  IN  IF S = {} THEN Grown(p, b) ELSE Carved(p, SmallestOf(S), b)

-----------------------------------------------------------------------------
(* Where deallocate puts a block: before the first that starts after it.    *)
Place(p, b) ==
  SmallestOf({i \in DOMAIN p.v_blocks : EndOf(b) <= p.v_blocks[i].offset}
               \cup {Len(p.v_blocks) + 1})

Refused(p, b) ==
  LET i == Place(p, b)
  IN  \/ EndOf(b) > p.total_size
      \/ i > 1 /\ EndOf(p.v_blocks[i - 1]) > b.offset

(* (fault) a block is joined to the free block after it only.               *)
MeetsBefore_Never(p, b, i) == FALSE

MeetsBefore(p, b, i) == i > 1 /\ EndOf(p.v_blocks[i - 1]) = b.offset

MeetsAfter(p, b, i) == i <= Len(p.v_blocks) /\ EndOf(b) = p.v_blocks[i].offset

(* The planner after deallocate(b), when it is not refused: b is joined to  *)
(* the free blocks on either side that it meets.                            *)
AfterDeallocate(p, b) ==
  LET i == Place(p, b)
      first == IF MeetsBefore(p, b, i) THEN i - 1 ELSE i
      last == IF MeetsAfter(p, b, i) THEN i ELSE i - 1
      offset == IF first < i THEN p.v_blocks[first].offset ELSE b.offset
      end == IF last = i THEN EndOf(p.v_blocks[last]) ELSE EndOf(b)
  IN  [p EXCEPT !.v_blocks =
         Before(@, first) \o <<VirtualBlock(offset, end - offset)>> \o After(@, last)]
=============================================================================
