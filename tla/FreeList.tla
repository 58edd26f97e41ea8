------------------------------ MODULE FreeList ------------------------------
(***************************************************************************)
(* What the member functions of PagePool (tiny_llm/runtime/page_pool.cpp)   *)
(* compute from free_list_, a vector used as a stack whose back is the last *)
(* element.  PagePool and PagedRuntime build their actions from these.      *)
(***************************************************************************)
EXTENDS Naturals, Sequences, Functions

\* (fault) the constructor counts down from num_pages.
InitialFreeList_OffByOne(num_pages) == [i \in 1 .. num_pages |-> num_pages - i + 1]

\* The constructor fills the list with num_pages-1, ..., 1, 0.
InitialFreeList(num_pages) == [i \in 1 .. num_pages |-> num_pages - i]

\* The check of allocate_pages; when it fails the call throws before it
\* changes anything.
CanAllocate(fl, n) == n <= Len(fl)

\* The pages allocate_pages returns, the back of the list first ...
Popped(fl, n) == [i \in 1 .. n |-> fl[Len(fl) - i + 1]]

\* (fault) the pages are returned but one of them stays in the list.
AfterAllocate_PopsOneLess(fl, n) == SubSeq(fl, 1, Len(fl) - n + 1)

\* ... and the list it leaves.
AfterAllocate(fl, n) == SubSeq(fl, 1, Len(fl) - n)

\* The check of free_pages: none of the pages is in the free list.
CanFree(fl, pages) == Range(pages) \cap Range(fl) = {}

\* (fault) only the first page of the span is put back.
AfterFree_FirstOnly(fl, pages) == Append(fl, pages[1])

\* free_pages puts the pages back in the order it is given them.
AfterFree(fl, pages) == fl \o pages

-----------------------------------------------------------------------------
(* What the list fl and the vectors `held` of the callers must satisfy      *)
(* together, stated once for the pool and for the runtime's pools.          *)

(* No page is in the list twice, in it and with an owner, with two owners,  *)
(* or twice with one.                                                       *)
Unshared(fl, held) ==
  /\ IsInjective(fl)
  /\ \A o \in DOMAIN held :
       /\ IsInjective(held[o])
       /\ Range(held[o]) \cap Range(fl) = {}
       /\ \A p \in DOMAIN held \ {o} : Range(held[o]) \cap Range(held[p]) = {}

(* Every page is in the list or with an owner. *)
Covered(pages, fl, held) ==
  pages = Range(fl) \cup UNION {Range(held[o]) : o \in DOMAIN held}
=============================================================================
