------------------------------ MODULE PagePool ------------------------------
(***************************************************************************)
(* The pool of physical KV-cache pages of one paged attention layer         *)
(* (tiny_llm/runtime/page_pool.cpp).  The pool itself only has a free list. *)
(* Which pages are out, and with whom, the pool does not know: that is the  *)
(* state `held` of its callers, which keep the vectors that allocate_pages  *)
(* returned (RequestMeta::kv_pages).                                        *)
(*                                                                         *)
(* A page is its number; the K and V buffers that pages index are modelled  *)
(* in PagedAttention.                                                       *)
(***************************************************************************)
EXTENDS FreeList

CONSTANTS
  NumPages,  \* PagePoolConfig::num_pages
  Owners     \* the callers, each with a vector of pages of its own

ASSUME PagePoolAssumption == NumPages \in Nat \ {0}

VARIABLES
  free_list_,  \* PagePool::free_list_
  held         \* for each owner, the pages it holds in the order it got them

vars == <<free_list_, held>>

Pages == 0 .. NumPages - 1

-----------------------------------------------------------------------------
Init ==
  /\ free_list_ = InitialFreeList(NumPages)
  /\ held = [o \in Owners |-> <<>>]

(* An owner asks for n pages and appends them to those it has, as           *)
(* bind_request_meta does.                                                  *)
Allocate(o, n) ==
  /\ CanAllocate(free_list_, n)
  /\ free_list_' = AfterAllocate(free_list_, n)
  /\ held' = [held EXCEPT ![o] = @ \o Popped(free_list_, n)]

(* An owner gives its first k pages back and forgets them.  free_pages      *)
(* takes a span, so it need not be the whole vector.                        *)
Free(o, k) ==
  LET pages == SubSeq(held[o], 1, k)
  IN  /\ CanFree(free_list_, pages)
      /\ free_list_' = AfterFree(free_list_, pages)
      /\ held' = [held EXCEPT ![o] = SubSeq(@, k + 1, Len(@))]

Next ==
  \E o \in Owners :
    \/ \E n \in 1 .. NumPages : Allocate(o, n)
    \/ \E k \in 1 .. Len(held[o]) : Free(o, k)

Spec == Init /\ [][Next]_vars

-----------------------------------------------------------------------------
(* Type invariant: lists of page numbers. *)
TypeOK ==
  /\ free_list_ \in Seq(Pages)
  /\ held \in [Owners -> Seq(Pages)]

(* No page has two owners, or an owner and a place in the free list:        *)
(* free_pages checks only against the free list, so this rests on           *)
(* allocate_pages removing exactly what it returns and on the callers'      *)
(* vectors staying apart.                                                   *)
NoDoubleOwner == Unshared(free_list_, held)

(* No page is lost: each is in the free list or with an owner, after any    *)
(* sequence of allocate_pages and free_pages calls.                         *)
NoPageLost == Covered(Pages, free_list_, held)

(* Free list and owners partition the pages.                                *)
PagesPartitioned == NoDoubleOwner /\ NoPageLost

(* What the pool promises its callers, whatever the order of its list: a    *)
(* page moves from the free set to one owner and back, never from owner to  *)
(* owner.                                                                   *)
Ownership == INSTANCE PageOwnership
  WITH Page <- Pages, Owner <- Owners, free <- Range(free_list_),
       owned <- [o \in Owners |-> Range(held[o])]

RefinesOwnership == Ownership!Spec
=============================================================================
