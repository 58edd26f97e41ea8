------------------------- MODULE PagedRuntimeProofs -------------------------
(***************************************************************************)
(* Proofs about PagedRuntime, about PagedAttention, which adds the data that *)
(* is kept in the pages, and about Pipeline, the client of the runtime.     *)
(*                                                                          *)
(* The runtime keeps the pages of every layer partitioned and the tables of *)
(* healthy requests exact, never runs out of pages within the limit it was  *)
(* made for, and uses each layer's pool as PagePool allows, for any numbers *)
(* of requests and layers, lengths and page size, whatever calls throw.     *)
(*                                                                          *)
(* In the data path no two queries of a batch store into one slot, a        *)
(* request's table leads to the rows it was fed alone, and clients see a KV *)
(* cache, for any prompt lengths and any junk in the device's tables.       *)
(*                                                                          *)
(* In the pipeline the positions of apply are the slots of the runtime, a   *)
(* call within the limits is not refused and pages do not leak, for any     *)
(* calls and prompts, paged or not, wherever a call throws.  And the token  *)
(* that is sampled is one of the nucleus, for any vocabulary and logits.    *)
(***************************************************************************)
EXTENDS PagedAttention, Pipeline, FreeListLemmas, FiniteSetTheorems

-----------------------------------------------------------------------------
(* The number of pages, ceil(n / PageSize).                                 *)

(* How a quotient is bounded.                                               *)
LEMMA PagesForBounds ==
  ASSUME NEW n \in Nat
  PROVE  /\ PagesFor(n) \in Nat
         /\ n <= PagesFor(n) * PageSize
         /\ PagesFor(n) * PageSize < n + PageSize
<1>1. PageSize \in Nat /\ PageSize > 0
  BY RuntimeAssumption
<1> DEFINE x == n + PageSize - 1
           d == x \div PageSize
           m == x % PageSize
<1>2. x \in Nat
  BY <1>1
<1>3. d \in Int /\ m \in 0 .. PageSize - 1 /\ x = PageSize * d + m
  BY <1>1, <1>2
<1>4. d >= 0
  BY <1>1, <1>2
<1> QED
  BY <1>1, <1>3, <1>4 DEF PagesFor

(* A number of pages that is enough, without one to spare, is PagesFor.     *)
LEMMA PagesForUnique ==
  ASSUME NEW n \in Nat, NEW d \in Nat,
         n <= d * PageSize, d * PageSize < n + PageSize
  PROVE  d = PagesFor(n)
<1>1. PageSize \in Nat /\ PageSize > 0
  BY RuntimeAssumption
<1> DEFINE e == PagesFor(n)
<1>2. e \in Nat /\ n <= e * PageSize /\ e * PageSize < n + PageSize
  BY PagesForBounds
<1> HIDE DEF e
<1>3. ASSUME NEW a \in Nat, NEW b \in Nat, a < b
      PROVE  a * PageSize + PageSize <= b * PageSize
  <2>1. b = a + 1 + (b - a - 1) /\ b - a - 1 \in Nat
    BY <1>3
  <2>2. (b - a - 1) * PageSize >= 0
    BY <1>1, <2>1
  <2> QED BY <1>1, <2>1, <2>2
<1>4. ~(d < e)
  <2>1. d < e => d * PageSize + PageSize <= e * PageSize
    BY <1>2, <1>3
  <2>2. d * PageSize \in Nat /\ e * PageSize \in Nat
    BY <1>1, <1>2
  <2> QED BY <1>1, <1>2, <2>1, <2>2
<1>5. ~(e < d)
  <2>1. e < d => e * PageSize + PageSize <= d * PageSize
    BY <1>2, <1>3
  <2>2. d * PageSize \in Nat /\ e * PageSize \in Nat
    BY <1>1, <1>2
  <2> QED BY <1>1, <1>2, <2>1, <2>2
<1> QED
  BY <1>2, <1>4, <1>5 DEF e

(* A request without tokens needs no page; and one more token needs another *)
(* page exactly when it does not fit in the pages there are.                *)
LEMMA PagesForZero == PagesFor(0) = 0
<1>1. PageSize \in Nat /\ PageSize > 0
  BY RuntimeAssumption
<1>2. 0 <= 0 * PageSize /\ 0 * PageSize < 0 + PageSize
  BY <1>1
<1> QED BY <1>2, PagesForUnique

LEMMA PagesForNext ==
  ASSUME NEW n \in Nat
  PROVE  PagesFor(n + 1) =
           IF n + 1 > PagesFor(n) * PageSize THEN PagesFor(n) + 1 ELSE PagesFor(n)
<1>1. PageSize \in Nat /\ PageSize > 0
  BY RuntimeAssumption
<1> DEFINE e == PagesFor(n)
<1>2. e \in Nat /\ n <= e * PageSize /\ e * PageSize < n + PageSize
  BY PagesForBounds
<1> HIDE DEF e
<1>3. e * PageSize \in Nat /\ (e + 1) * PageSize = e * PageSize + PageSize
  BY <1>1, <1>2
<1>4. CASE n + 1 > e * PageSize
  <2>1. n + 1 <= (e + 1) * PageSize /\ (e + 1) * PageSize < n + 1 + PageSize
    BY <1>1, <1>2, <1>3, <1>4
  <2>2. e + 1 = PagesFor(n + 1)
    BY <1>2, <2>1, PagesForUnique
  <2> QED BY <1>4, <2>2 DEF e
<1>5. CASE ~(n + 1 > e * PageSize)
  <2>1. n + 1 <= e * PageSize /\ e * PageSize < n + 1 + PageSize
    BY <1>1, <1>2, <1>3, <1>5
  <2>2. e = PagesFor(n + 1)
    BY <1>2, <2>1, PagesForUnique
  <2> QED BY <1>5, <2>2 DEF e
<1> QED
  BY <1>4, <1>5

(* A shorter request needs no more pages.                                   *)
LEMMA PagesForMonotone ==
  ASSUME NEW n \in Nat, NEW m \in Nat, n <= m
  PROVE  PagesFor(n) <= PagesFor(m)
<1>1. PageSize \in Nat /\ PageSize > 0
  BY RuntimeAssumption
<1> DEFINE d == PagesFor(n)
           e == PagesFor(m)
<1>2. /\ d \in Nat /\ d * PageSize < n + PageSize
      /\ e \in Nat /\ m <= e * PageSize
  BY PagesForBounds
<1> HIDE DEF d, e
<1>3. SUFFICES ASSUME e < d PROVE FALSE
  BY <1>2 DEF d, e
<1>4. d = e + 1 + (d - e - 1) /\ d - e - 1 \in Nat
  BY <1>2, <1>3
<1>5. (d - e - 1) * PageSize >= 0
  BY <1>1, <1>4
<1>6. d * PageSize >= e * PageSize + PageSize
  BY <1>1, <1>2, <1>4, <1>5
<1>7. d * PageSize \in Nat /\ e * PageSize \in Nat
  BY <1>1, <1>2
<1> QED
  BY <1>1, <1>2, <1>6, <1>7

(* A pool has pages.                                                        *)
LEMMA PoolPagesType ==
  ASSUME NEW l \in Layers
  PROVE  PagesFor(MaxLen[l]) \in Nat /\ PoolPages(l) \in Nat
BY RuntimeAssumption, PagesForBounds DEF PoolPages

-----------------------------------------------------------------------------
(* The partition.  With the type invariant it is inductive: an allocation   *)
(* or a free moves pages between one list and one table, and a call that    *)
(* throws leaves both as they are.                                          *)
Inv == TypeOK /\ PagesPartitioned

LEMMA InitInv == Init => Inv
<1> SUFFICES ASSUME Init PROVE Inv
  OBVIOUS
<1>1. ASSUME NEW l \in Layers
      PROVE  /\ free_list_[l] \in Seq(Pages(l))
             /\ kv_pages[l] \in [Requests -> Seq(Pages(l))]
             /\ Unshared(free_list_[l], kv_pages[l])
             /\ Covered(Pages(l), free_list_[l], kv_pages[l])
  <2>1. /\ free_list_[l] = InitialFreeList(PoolPages(l))
        /\ kv_pages[l] = [r \in Requests |-> <<>>]
    BY DEF Init
  <2>2. PoolPages(l) \in Nat
    BY PoolPagesType
  <2> QED BY <2>1, <2>2, InitialPartition DEF Pages
<1>2. IsInjective(batch)
  BY DEF Init, IsInjective
<1>3. is_prefill_ \in BOOLEAN
  BY DEF Init
<1>4. TypeOK
  BY <1>1, <1>2, <1>3 DEF Init, TypeOK
<1> QED
  BY <1>1, <1>4 DEF Inv, PagesPartitioned

(* What an unchanged request book keeps.                                    *)
LEMMA PagesUnchanged ==
  ASSUME Inv, UNCHANGED <<free_list_, kv_pages>>
  PROVE  /\ PagesPartitioned'
         /\ DOMAIN free_list_' = Layers /\ DOMAIN kv_pages' = Layers
         /\ \A l \in Layers : /\ free_list_'[l] \in Seq(Pages(l))
                             /\ kv_pages'[l] \in [Requests -> Seq(Pages(l))]
BY DEF Inv, TypeOK, PagesPartitioned

(* What VisitLayer does to the layer it visits, and to the others.          *)
LEMMA VisitMoves ==
  ASSUME Inv, NEW l \in Layers, VisitLayer(l)
  PROVE  /\ PagesPartitioned'
         /\ DOMAIN free_list_' = Layers /\ DOMAIN kv_pages' = Layers
         /\ \A m \in Layers : /\ free_list_'[m] \in Seq(Pages(m))
                             /\ kv_pages'[m] \in [Requests -> Seq(Pages(m))]
<1> DEFINE r == batch[cur]
           n == PagesNeeded(l, r)
<1>1. /\ DOMAIN free_list_ = Layers /\ DOMAIN kv_pages = Layers
      /\ \A m \in Layers : /\ free_list_[m] \in Seq(Pages(m))
                          /\ kv_pages[m] \in [Requests -> Seq(Pages(m))]
                          /\ Unshared(free_list_[m], kv_pages[m])
                          /\ Covered(Pages(m), free_list_[m], kv_pages[m])
  BY DEF Inv, TypeOK, PagesPartitioned
<1>2. r \in Requests
  BY DEF VisitLayer, Inv, TypeOK
<1>3. n \in Nat
  BY <1>1, <1>2, PagesForBounds DEF PagesNeeded, Inv, TypeOK
<1>4. /\ n <= Len(free_list_[l])
      /\ free_list_' = [free_list_ EXCEPT ![l] = AfterAllocate(free_list_[l], n)]
      /\ kv_pages' = [kv_pages EXCEPT ![l] =
           [kv_pages[l] EXCEPT ![r] = kv_pages[l][r] \o Popped(free_list_[l], n)]]
  BY DEF VisitLayer, CanAllocate
<1> HIDE DEF r, n
<1>5. Allocated(Pages(l), Requests, free_list_[l], kv_pages[l], r, n,
                free_list_'[l], kv_pages'[l])
  BY <1>1, <1>2, <1>3, <1>4 DEF Allocated
<1>6. free_list_'[l] \in Seq(Pages(l))
  BY <1>5, AllocateKeepsPartition
<1>7. kv_pages'[l] \in [Requests -> Seq(Pages(l))]
  BY <1>5, AllocateKeepsPartition
<1>8. Unshared(free_list_'[l], kv_pages'[l])
  BY <1>5, AllocateKeepsPartition
<1>9. Covered(Pages(l), free_list_'[l], kv_pages'[l])
  BY <1>1, <1>5, AllocateKeepsPartition
<1>10. /\ DOMAIN free_list_' = Layers /\ DOMAIN kv_pages' = Layers
       /\ \A m \in Layers \ {l} : free_list_'[m] = free_list_[m] /\ kv_pages'[m] = kv_pages[m]
  BY <1>1, <1>4
<1> QED
  BY <1>1, <1>6, <1>7, <1>8, <1>9, <1>10 DEF PagesPartitioned

(* destroy_request_meta gives back the whole table in every layer.          *)
LEMMA DestroyMoves ==
  ASSUME Inv, NEW r \in Requests, Destroy(r)
  PROVE  /\ PagesPartitioned'
         /\ DOMAIN free_list_' = Layers /\ DOMAIN kv_pages' = Layers
         /\ \A m \in Layers : /\ free_list_'[m] \in Seq(Pages(m))
                             /\ kv_pages'[m] \in [Requests -> Seq(Pages(m))]
<1>1. \A m \in Layers : /\ free_list_[m] \in Seq(Pages(m))
                       /\ kv_pages[m] \in [Requests -> Seq(Pages(m))]
                       /\ Unshared(free_list_[m], kv_pages[m])
                       /\ Covered(Pages(m), free_list_[m], kv_pages[m])
  BY DEF Inv, TypeOK, PagesPartitioned
<1>2. /\ DOMAIN free_list_' = Layers /\ DOMAIN kv_pages' = Layers
      /\ \A m \in Layers : /\ free_list_'[m] = AfterFree(free_list_[m], kv_pages[m][r])
                          /\ kv_pages'[m] = [kv_pages[m] EXCEPT ![r] = <<>>]
  BY DEF Destroy, FreedLists
<1>3. ASSUME NEW m \in Layers
      PROVE  /\ free_list_'[m] \in Seq(Pages(m))
             /\ kv_pages'[m] \in [Requests -> Seq(Pages(m))]
             /\ Unshared(free_list_'[m], kv_pages'[m])
             /\ Covered(Pages(m), free_list_'[m], kv_pages'[m])
  <2> DEFINE table == kv_pages[m][r]
             k == Len(table)
  <2>0. table \in Seq(Pages(m))
    BY <1>1
  <2>1. k \in 0 .. Len(table) /\ SubSeq(table, 1, k) = table
          /\ SubSeq(table, k + 1, Len(table)) = <<>>
    <3> HIDE DEF table
    <3> QED BY <2>0, WholeSequence
  <2>2. Freed(Pages(m), Requests, free_list_[m], kv_pages[m], r, k, table,
              free_list_'[m], kv_pages'[m])
    BY <1>1, <1>2, <2>1 DEF Freed
  <2> HIDE DEF table, k
  <2>3. free_list_'[m] \in Seq(Pages(m))
    BY <2>2, FreeKeepsPartition
  <2>4. kv_pages'[m] \in [Requests -> Seq(Pages(m))]
    BY <2>2, FreeKeepsPartition
  <2>5. Unshared(free_list_'[m], kv_pages'[m])
    BY <2>2, FreeKeepsPartition
  <2>6. Covered(Pages(m), free_list_'[m], kv_pages'[m])
    BY <1>1, <2>2, FreeKeepsPartition
  <2> QED BY <2>3, <2>4, <2>5, <2>6
<1> QED
  BY <1>2, <1>3 DEF PagesPartitioned

(* A call that throws: its requests are set aside.                          *)
LEMMA AbortInv ==
  ASSUME Inv, Abort
  PROVE  Inv'
<1>1. batch \in Seq(Requests) /\ Range(batch) \subseteq Requests
  BY DEF Inv, TypeOK, Range
<1>2. batch' = <<>> /\ IsInjective(batch')
  BY DEF Abort, IsInjective
<1> QED
  BY <1>1, <1>2, PagesUnchanged DEF Abort, Inv, TypeOK

(* Every vector of requests clients pass is one of healthy requests.        *)
LEMMA BatchesType ==
  ASSUME NEW b \in Batches
  PROVE  b \in Seq(Requests \ broken) /\ IsInjective(b)
BY RuntimeAssumption DEF Batches

LEMMA NextInv == Inv /\ [Next]_vars => Inv'
<1> SUFFICES ASSUME Inv, [Next]_vars PROVE Inv'
  OBVIOUS
<1>1. CASE SetPrefill
  BY <1>1, PagesUnchanged DEF SetPrefill, callVars, Inv, TypeOK
<1>2. ASSUME NEW b \in Batches, NEW lens \in [Range(b) -> SeqLens], Bind(b, lens)
      PROVE  Inv'
  <2>1. b \in Seq(Requests \ broken) /\ IsInjective(b) /\ 0 \in 0 .. Len(b)
    BY BatchesType
  <2>2. seq_len' \in [Requests -> Nat]
    BY <1>2, RuntimeAssumption DEF Bind, Inv, TypeOK
  <2>3. /\ batch' = b /\ op' = "bind" /\ cur' = 0 /\ todo' = {}
        /\ UNCHANGED <<is_prefill_, free_list_, kv_len, kv_pages, broken>>
    BY <1>2 DEF Bind
  <2> QED BY <2>1, <2>2, <2>3, PagesUnchanged DEF Inv, TypeOK
<1>3. CASE EnterMeta
  <2>1. /\ cur' = cur + 1 /\ todo' = Layers /\ op = "bind" /\ cur < Len(batch)
        /\ UNCHANGED <<is_prefill_, free_list_, seq_len, kv_pages, op, batch, broken>>
    BY <1>3 DEF EnterMeta
  <2>2. kv_len' \in [Requests -> Nat]
    <3>1. batch[cur + 1] \in Requests
      BY <2>1 DEF Inv, TypeOK
    <3>2. NewKvLen(batch[cur + 1]) \in Nat
      BY <3>1 DEF NewKvLen, Inv, TypeOK
    <3> QED BY <1>3, <3>2 DEF EnterMeta, Inv, TypeOK
  <2> QED BY <2>1, <2>2, PagesUnchanged DEF Inv, TypeOK
<1>4. ASSUME NEW l \in Layers, VisitLayer(l)
      PROVE  Inv'
  <2>1. /\ todo' = todo \ {l}
        /\ UNCHANGED <<is_prefill_, seq_len, kv_len, op, batch, cur, broken>>
    BY <1>4 DEF VisitLayer
  <2> QED BY <1>4, <2>1, VisitMoves DEF Inv, TypeOK
<1>5. CASE Abort
  BY <1>5, AbortInv
<1>6. CASE Publish
  BY <1>6, PagesUnchanged DEF Publish, Inv, TypeOK
<1>7. CASE Execute
  <2>1. batch' = <<>> /\ IsInjective(batch')
    BY <1>7 DEF Execute, IsInjective
  <2> QED BY <1>7, <2>1, PagesUnchanged DEF Execute, Inv, TypeOK
<1>8. ASSUME NEW r \in Requests, Destroy(r)
      PROVE  Inv'
  <2>1. /\ seq_len' = [seq_len EXCEPT ![r] = 0] /\ kv_len' = [kv_len EXCEPT ![r] = 0]
        /\ broken' = broken \ {r}
        /\ UNCHANGED <<is_prefill_, op, batch, cur, todo>>
    BY <1>8 DEF Destroy, callVars
  <2> QED BY <1>8, <2>1, DestroyMoves DEF Inv, TypeOK
<1>9. CASE UNCHANGED vars
  BY <1>9, PagesUnchanged DEF vars, callVars, Inv, TypeOK
<1> QED
  BY <1>1, <1>2, <1>3, <1>4, <1>5, <1>6, <1>7, <1>8, <1>9
  DEF Next, Bookkeeping, TooLongThrows, ExhaustedThrows, MetaThrows, ExecuteThrows

(* The books keep their types, and a call in progress its place.            *)
THEOREM TypeCorrect == Spec => []TypeOK
<1>1. Inv => TypeOK
  BY DEF Inv
<1> QED
  BY <1>1, InitInv, NextInv, PTL DEF Spec

(* In every layer each page is free or in one request's table, once,        *)
(* through any sequence of calls that return or throw.                      *)
THEOREM PartitionCorrect == Spec => []PagesPartitioned
<1>1. Inv => PagesPartitioned
  BY DEF Inv
<1> QED
  BY <1>1, InitInv, NextInv, PTL DEF Spec

-----------------------------------------------------------------------------
(* The tables.  TablesCover is not inductive: while a request is being      *)
(* entered its tables lag behind kv_len, by the whole prompt in prefill and *)
(* by one token in decode, and what each layer then adds closes the gap.    *)

(* Where a call is.                                                         *)
Place ==
  /\ op = "idle" => cur = 0
  /\ op = "bound" => cur = Len(batch)

(* The tables the request being entered still has.                          *)
Pending ==
  \A l \in todo :
    IF is_prefill_ THEN kv_pages[l][batch[cur]] = <<>>
    ELSE kv_len[batch[cur]] > 0
         /\ Len(kv_pages[l][batch[cur]]) = PagesFor(kv_len[batch[cur]] - 1)

(* What has been visited fits.                                              *)
VisitedFits ==
  \A i \in 1 .. cur, l \in Layers :
    i < cur \/ l \notin todo => kv_len[batch[i]] <= MaxLen[l]

CoverInv == Inv /\ Place /\ TablesCover /\ Pending /\ VisitedFits

LEMMA InitCover == Init => CoverInv
<1> SUFFICES ASSUME Init PROVE CoverInv
  OBVIOUS
<1>1. Inv /\ Place /\ Pending /\ VisitedFits
  BY InitInv DEF Init, Place, Pending, VisitedFits
<1>2. TablesCover
  BY PagesForZero DEF Init, TablesCover
<1> QED
  BY <1>1, <1>2 DEF CoverInv

(* The facts about a state in which no request is being entered.            *)
LEMMA Settled ==
  ASSUME CoverInv, todo = {}
  PROVE  \A l \in Layers, r \in Requests \ broken : Len(kv_pages[l][r]) = PagesFor(kv_len[r])
BY DEF CoverInv, TablesCover, UpToDate

(* A state with no request being entered is good when its tables are exact. *)
LEMMA SettledCover ==
  ASSUME Inv', Place', todo' = {}, cur' = 0,
         \A l \in Layers, r \in Requests \ broken' : Len(kv_pages'[l][r]) = PagesFor(kv_len'[r])
  PROVE  CoverInv'
BY DEF CoverInv, TablesCover, Pending, VisitedFits

LEMMA EnterCover ==
  ASSUME CoverInv, EnterMeta, Inv'
  PROVE  CoverInv'
<1> DEFINE r == batch[cur + 1]
<1>1. /\ op = "bind" /\ todo = {} /\ cur < Len(batch) /\ MetaOK(r)
      /\ kv_len' = [kv_len EXCEPT ![r] = NewKvLen(r)]
      /\ cur' = cur + 1 /\ todo' = Layers
      /\ UNCHANGED <<is_prefill_, free_list_, seq_len, kv_pages, op, batch, broken>>
  BY DEF EnterMeta
<1>2. /\ cur \in Nat /\ cur + 1 \in 1 .. Len(batch) /\ Len(batch) \in Nat
      /\ r \in Requests \ broken /\ kv_len \in [Requests -> Nat]
      /\ \A i \in 1 .. Len(batch) : batch[i] \in Requests \ broken
      /\ IsInjective(batch) /\ batch \in Seq(Requests \ broken)
  BY <1>1 DEF CoverInv, Inv, TypeOK
<1>3. \A i \in 1 .. cur : batch[i] # r
  BY <1>2, InjectiveByIndex
<1>4. batch'[cur'] = r
  BY <1>1
<1> HIDE DEF r
<1>5. kv_len'[r] = NewKvLen(r) /\ \A q \in Requests \ {r} : kv_len'[q] = kv_len[q]
  BY <1>1, <1>2
<1>6. Place'
  BY <1>1 DEF Place
<1>7. TablesCover'
  <2> SUFFICES ASSUME NEW l \in Layers, NEW q \in Requests \ broken, UpToDate(l, q)'
               PROVE  Len(kv_pages[l][q]) = PagesFor(kv_len'[q])
    BY <1>1 DEF TablesCover
  <2>1. q # r
    BY <1>1, <1>4 DEF UpToDate
  <2> QED BY <1>1, <1>5, <2>1, Settled
<1>8. Pending'
  <2> SUFFICES ASSUME NEW l \in Layers
               PROVE  IF is_prefill_ THEN kv_pages[l][r] = <<>>
                      ELSE kv_len'[r] > 0 /\ Len(kv_pages[l][r]) = PagesFor(kv_len'[r] - 1)
    BY <1>1, <1>4 DEF Pending
  <2>1. CASE is_prefill_
    BY <1>1, <2>1 DEF MetaOK
  <2>2. CASE ~is_prefill_
    <3>1. kv_len'[r] = kv_len[r] + 1 /\ kv_len[r] \in Nat
      BY <1>2, <1>5, <2>2 DEF NewKvLen
    <3>2. kv_len'[r] - 1 = kv_len[r] /\ kv_len'[r] > 0
      BY <3>1
    <3> QED BY <1>1, <1>2, <2>2, <3>2, Settled
  <2> QED BY <2>1, <2>2
<1>9. VisitedFits'
  <2> SUFFICES ASSUME NEW i \in 1 .. cur, NEW l \in Layers
               PROVE  kv_len'[batch[i]] <= MaxLen[l]
    BY <1>1, <1>2 DEF VisitedFits
  <2>1. kv_len'[batch[i]] = kv_len[batch[i]]
    BY <1>2, <1>3, <1>5
  <2> QED BY <1>1, <2>1 DEF CoverInv, VisitedFits
<1> QED
  BY <1>6, <1>7, <1>8, <1>9 DEF CoverInv

(* What a layer is asked for is what its table lacks.                       *)
LEMMA AsksForTheRest ==
  ASSUME CoverInv, NEW l \in todo
  PROVE  /\ l \in Layers /\ batch[cur] \in Requests
         /\ kv_len[batch[cur]] \in Nat
         /\ kv_pages[l][batch[cur]] \in Seq(Pages(l))
         /\ PagesNeeded(l, batch[cur]) \in Nat
         /\ Len(kv_pages[l][batch[cur]]) + PagesNeeded(l, batch[cur]) = PagesFor(kv_len[batch[cur]])
<1> DEFINE r == batch[cur]
           n == PagesNeeded(l, r)
           table == kv_pages[l][r]
<1>1. /\ l \in Layers /\ r \in Requests /\ kv_len[r] \in Nat /\ table \in Seq(Pages(l))
  BY DEF CoverInv, Inv, TypeOK
<1>2. CASE is_prefill_
  <2>1. n = PagesFor(kv_len[r]) /\ table = <<>>
    BY <1>2 DEF PagesNeeded, CoverInv, Pending
  <2>2. Len(table) = 0
    BY <2>1
  <2> QED BY <1>1, <2>1, <2>2, PagesForBounds
<1>3. CASE ~is_prefill_
  <2> DEFINE k == kv_len[r] - 1
  <2>1. k \in Nat /\ kv_len[r] = k + 1 /\ Len(table) = PagesFor(k)
    BY <1>1, <1>3 DEF CoverInv, Pending
  <2>2. n = IF k + 1 > PagesFor(k) * PageSize THEN 1 ELSE 0
    BY <1>3, <2>1 DEF PagesNeeded
  <2>3. kv_len[r] = k + 1
    BY <2>1
  <2> HIDE DEF k, n
  <2>4. PagesFor(k) \in Nat
    BY <2>1, PagesForBounds
  <2>5. PagesFor(k + 1) = IF k + 1 > PagesFor(k) * PageSize THEN PagesFor(k) + 1 ELSE PagesFor(k)
    BY <2>1, PagesForNext
  <2>6. n \in Nat /\ PagesFor(k) + n = PagesFor(k + 1)
    BY <2>2, <2>4, <2>5
  <2> HIDE DEF r, table
  <2> QED BY <1>1, <2>1, <2>3, <2>6 DEF n, r, table
<1> QED BY <1>2, <1>3

(* The layer visited catches up with kv_len.                                *)
LEMMA VisitCatchesUp ==
  ASSUME CoverInv, NEW l \in Layers, VisitLayer(l)
  PROVE  /\ batch[cur] \in Requests
         /\ Len(kv_pages'[l][batch[cur]]) = PagesFor(kv_len[batch[cur]])
         /\ \A m \in Layers, q \in Requests :
              m # l \/ q # batch[cur] => kv_pages'[m][q] = kv_pages[m][q]
<1> DEFINE r == batch[cur]
           n == PagesNeeded(l, r)
           table == kv_pages[l][r]
<1>1. /\ l \in todo
      /\ free_list_[l] \in Seq(Pages(l))
      /\ DOMAIN kv_pages = Layers /\ kv_pages[l] \in [Requests -> Seq(Pages(l))]
  BY DEF VisitLayer, CoverInv, Inv, TypeOK
<1>2. /\ n <= Len(free_list_[l])
      /\ kv_pages' = [kv_pages EXCEPT ![l] =
           [kv_pages[l] EXCEPT ![r] = table \o Popped(free_list_[l], n)]]
  BY DEF VisitLayer, CanAllocate
<1>3. /\ r \in Requests /\ table \in Seq(Pages(l))
      /\ n \in Nat /\ Len(table) + n = PagesFor(kv_len[r])
  BY <1>1, AsksForTheRest
<1> HIDE DEF r, n, table
<1>4. Popped(free_list_[l], n) \in Seq(Pages(l)) /\ Len(Popped(free_list_[l], n)) = n
  BY <1>1, <1>2, <1>3, AllocateSplits
<1>5. Len(table \o Popped(free_list_[l], n)) = Len(table) + n
  BY <1>1, <1>3, <1>4, JoinedLength
<1>6. kv_pages'[l][r] = table \o Popped(free_list_[l], n)
  BY <1>1, <1>2, <1>3
<1>7. \A m \in Layers, q \in Requests : m # l \/ q # r => kv_pages'[m][q] = kv_pages[m][q]
  BY <1>1, <1>2
<1> QED
  BY <1>1, <1>3, <1>5, <1>6, <1>7 DEF r, table

LEMMA VisitCover ==
  ASSUME CoverInv, NEW l \in Layers, VisitLayer(l), Inv'
  PROVE  CoverInv'
<1>1. /\ op = "bind" /\ l \in todo /\ todo' = todo \ {l} /\ Fits(l, batch[cur])
      /\ UNCHANGED <<is_prefill_, seq_len, kv_len, op, batch, cur, broken>>
  BY DEF VisitLayer
<1>2. todo \subseteq Layers /\ cur \in Nat
  BY DEF CoverInv, Inv, TypeOK
<1>3. Place'
  BY <1>1 DEF CoverInv, Place
<1>4. TablesCover'
  <2> SUFFICES ASSUME NEW m \in Layers, NEW q \in Requests \ broken,
                      ~(m \in todo \ {l} /\ q = batch[cur])
               PROVE  Len(kv_pages'[m][q]) = PagesFor(kv_len[q])
    BY <1>1 DEF TablesCover, UpToDate
  <2>1. CASE m = l /\ q = batch[cur]
    BY <2>1, VisitCatchesUp
  <2>2. CASE ~(m = l /\ q = batch[cur])
    BY <1>1, <2>2, VisitCatchesUp DEF CoverInv, TablesCover, UpToDate
  <2> QED BY <2>1, <2>2
<1>5. Pending'
  <2>1. \A m \in todo \ {l} : kv_pages'[m][batch[cur]] = kv_pages[m][batch[cur]]
    BY <1>2, VisitCatchesUp
  <2> QED BY <1>1, <2>1 DEF CoverInv, Pending
<1>6. VisitedFits'
  BY <1>1, <1>2 DEF CoverInv, VisitedFits, Fits
<1> QED
  BY <1>3, <1>4, <1>5, <1>6 DEF CoverInv

LEMMA DestroyCover ==
  ASSUME CoverInv, NEW r \in Requests, Destroy(r), Inv'
  PROVE  CoverInv'
<1>1. /\ op = "idle" /\ kv_len' = [kv_len EXCEPT ![r] = 0] /\ broken' = broken \ {r}
      /\ kv_pages' = [l \in Layers |-> [kv_pages[l] EXCEPT ![r] = <<>>]]
      /\ UNCHANGED <<op, batch, cur, todo>>
  BY DEF Destroy, callVars
<1>2. /\ todo = {} /\ cur = 0 /\ kv_len \in [Requests -> Nat]
      /\ \A l \in Layers : kv_pages[l] \in [Requests -> Seq(Pages(l))]
  BY <1>1 DEF CoverInv, Inv, TypeOK, Place
<1>3. ASSUME NEW l \in Layers, NEW q \in Requests \ broken'
      PROVE  Len(kv_pages'[l][q]) = PagesFor(kv_len'[q])
  <2>1. CASE q = r
    <3>1. kv_pages'[l][q] = <<>> /\ kv_len'[q] = 0
      BY <1>1, <1>2, <2>1
    <3> QED BY <3>1, PagesForZero
  <2>2. CASE q # r
    <3>1. kv_pages'[l][q] = kv_pages[l][q] /\ kv_len'[q] = kv_len[q] /\ q \notin broken
      BY <1>1, <1>2, <2>2
    <3> QED BY <1>2, <3>1, Settled
  <2> QED BY <2>1, <2>2
<1>4. Place'
  BY <1>1, <1>2 DEF Place
<1> QED
  BY <1>1, <1>2, <1>3, <1>4, SettledCover

LEMMA AbortCover ==
  ASSUME CoverInv, Abort, Inv'
  PROVE  CoverInv'
<1>1. /\ op' = "idle" /\ cur' = 0 /\ todo' = {} /\ broken' = broken \cup Range(batch)
      /\ UNCHANGED <<kv_len, kv_pages>>
  BY DEF Abort
<1>2. \A l \in Layers, r \in Requests \ broken' : UpToDate(l, r)
  <2> SUFFICES ASSUME NEW l \in todo, batch[cur] \notin Range(batch)
               PROVE  FALSE
    BY <1>1 DEF UpToDate
  <2>1. cur \in 1 .. Len(batch) /\ batch \in Seq(Requests \ broken)
    BY DEF CoverInv, Inv, TypeOK
  <2> QED BY <2>1, InRange
<1>3. \A l \in Layers, r \in Requests \ broken' : Len(kv_pages'[l][r]) = PagesFor(kv_len'[r])
  BY <1>1, <1>2 DEF CoverInv, TablesCover
<1>4. Place'
  BY <1>1 DEF Place
<1> QED
  BY <1>1, <1>3, <1>4, SettledCover

LEMMA NextCover == CoverInv /\ [Next]_vars => CoverInv'
<1> SUFFICES ASSUME CoverInv, [Next]_vars PROVE CoverInv'
  OBVIOUS
<1>0. Inv'
  BY NextInv DEF CoverInv
<1>1. ASSUME todo = {}, todo' = {}, cur' = 0, Place', UNCHANGED <<kv_len, kv_pages, broken>>
      PROVE  CoverInv'
  BY <1>0, <1>1, Settled, SettledCover
<1>2. op = "idle" => todo = {} /\ cur = 0
  BY DEF CoverInv, Inv, TypeOK, Place
<1>3. CASE SetPrefill
  BY <1>1, <1>2, <1>3 DEF SetPrefill, callVars, Place
<1>4. ASSUME NEW b \in Batches, NEW lens \in [Range(b) -> SeqLens], Bind(b, lens)
      PROVE  CoverInv'
  BY <1>1, <1>2, <1>4 DEF Bind, Place
<1>5. CASE EnterMeta
  BY <1>0, <1>5, EnterCover
<1>6. ASSUME NEW l \in Layers, VisitLayer(l)
      PROVE  CoverInv'
  BY <1>0, <1>6, VisitCover
<1>7. CASE Abort
  BY <1>0, <1>7, AbortCover
<1>8. CASE Publish
  <2>1. /\ todo = {} /\ cur = Len(batch) /\ op' = "bound"
        /\ UNCHANGED <<is_prefill_, free_list_, seq_len, kv_len, kv_pages, batch, cur, todo, broken>>
    BY <1>8 DEF Publish
  <2> QED BY <1>0, <2>1
          DEF CoverInv, Place, TablesCover, UpToDate, Pending, VisitedFits
<1>9. CASE Execute
  <2>1. todo = {}
    BY <1>9 DEF Execute, CoverInv, Inv, TypeOK
  <2> QED BY <1>1, <1>9, <2>1 DEF Execute, Place
<1>10. ASSUME NEW r \in Requests, Destroy(r)
       PROVE  CoverInv'
  BY <1>0, <1>10, DestroyCover
<1>11. CASE UNCHANGED vars
  BY <1>0, <1>11 DEF vars, callVars, CoverInv, Place, TablesCover, UpToDate, Pending, VisitedFits
<1> QED
  BY <1>3, <1>4, <1>5, <1>6, <1>7, <1>8, <1>9, <1>10, <1>11
  DEF Next, Bookkeeping, TooLongThrows, ExhaustedThrows, MetaThrows, ExecuteThrows

(* Outside the entering of a request, every healthy request has exactly the *)
(* pages its kv_len needs in every layer, for any page size.                *)
THEOREM CoverCorrect == Spec => []TablesCover
<1>1. CoverInv => TablesCover
  BY DEF CoverInv
<1> QED
  BY <1>1, InitCover, NextCover, PTL DEF Spec

(* What the kernels are given fits in every layer and in the block tables.  *)
THEOREM BoundFitsCorrect == Spec => []BoundFits
<1>1. CoverInv => BoundFits
  <2> SUFFICES ASSUME CoverInv, op = "bound", NEW i \in DOMAIN batch, NEW l \in Layers
               PROVE  /\ kv_len[batch[i]] <= MaxLen[l]
                      /\ Len(kv_pages[l][batch[i]]) <= PagesFor(MaxLen[l])
    BY DEF BoundFits
  <2>1. /\ todo = {} /\ i \in 1 .. cur
        /\ batch[i] \in Requests \ broken /\ kv_len[batch[i]] \in Nat
    BY DEF CoverInv, Inv, TypeOK, Place
  <2>2. kv_len[batch[i]] <= MaxLen[l] /\ MaxLen[l] \in Nat
    BY <2>1, RuntimeAssumption DEF CoverInv, VisitedFits
  <2>3. Len(kv_pages[l][batch[i]]) = PagesFor(kv_len[batch[i]])
    BY <2>1, Settled
  <2> QED BY <2>1, <2>2, <2>3, PagesForMonotone
<1> QED
  BY <1>1, InitCover, NextCover, PTL DEF Spec

-----------------------------------------------------------------------------
(* The limit.  A pool has a whole longest request's pages for each of the   *)
(* MaxRequestNum places, so the pages are counted: those in the list, and   *)
(* at most that many in the table of each request that has any.             *)

(* The numbers from 1 to n are n, and so are those from 0 to n - 1.         *)
LEMMA UpTo ==
  ASSUME NEW n \in Nat
  PROVE  /\ IsFiniteSet(1 .. n) /\ Cardinality(1 .. n) = n
         /\ IsFiniteSet(0 .. n - 1) /\ Cardinality(0 .. n - 1) = n
<1> DEFINE b == n - 1
<1>1. /\ 1 \in Int /\ n \in Int /\ (IF 1 > n THEN 0 ELSE n - 1 + 1) = n
      /\ 0 \in Int /\ b \in Int /\ (IF 0 > b THEN 0 ELSE b - 0 + 1) = n
  OBVIOUS
<1> HIDE DEF b
<1>2. IsFiniteSet(1 .. n) /\ Cardinality(1 .. n) = IF 1 > n THEN 0 ELSE n - 1 + 1
  BY <1>1, FS_Interval
<1>3. IsFiniteSet(0 .. b) /\ Cardinality(0 .. b) = IF 0 > b THEN 0 ELSE b - 0 + 1
  BY <1>1, FS_Interval
<1> QED
  BY <1>1, <1>2, <1>3 DEF b

(* The pages of a pool are no more than those in its list and the places in *)
(* the tables: at most m in each, and fewer in the one of request r.        *)
LEMMA PagesCounted ==
  ASSUME NEW N \in Nat, NEW Owners, NEW fl \in Seq(0 .. N - 1),
         NEW held \in [Owners -> Seq(0 .. N - 1)], Covered(0 .. N - 1, fl, held),
         NEW H, H \subseteq Owners, IsFiniteSet(H), \A o \in Owners : held[o] # <<>> => o \in H,
         NEW m \in Nat, \A o \in Owners : Len(held[o]) <= m, NEW r \in H
  PROVE  N <= Len(fl) + (Cardinality(H) - 1) * m + Len(held[r])
<1> DEFINE Places == ((H \ {r}) \X (1 .. m)) \cup ({r} \X (1 .. Len(held[r])))
           Used == {x \in Places : x[2] <= Len(held[x[1]])}
           At == [x \in Used |-> held[x[1]][x[2]]]
           Out == {At[x] : x \in Used}
<1>1. Len(fl) \in Nat /\ \A o \in Owners : Len(held[o]) \in Nat
  OBVIOUS
<1>2. IsFiniteSet(Range(fl)) /\ Cardinality(Range(fl)) <= Len(fl)
  <2>1. fl \in Surjection(1 .. Len(fl), Range(fl))
    <3>1. fl \in [1 .. Len(fl) -> Range(fl)]
      BY DEF Range
    <3>2. \A p \in Range(fl) : \E i \in 1 .. Len(fl) : fl[i] = p
      BY InRange
    <3> QED BY <3>1, <3>2 DEF Surjection
  <2>2. IsFiniteSet(1 .. Len(fl)) /\ Cardinality(1 .. Len(fl)) = Len(fl)
    BY <1>1, UpTo
  <2> QED BY <2>1, <2>2, FS_Surjection
<1>3. IsFiniteSet(Places) /\ Cardinality(Places) <= (Cardinality(H) - 1) * m + Len(held[r])
  <2> DEFINE k == Len(held[r])
             A == (H \ {r}) \X (1 .. m)
             B == {r} \X (1 .. k)
             R == H \ {r}
  <2>0. k \in Nat
    BY <1>1
  <2>1. IsFiniteSet(H \ {r}) /\ Cardinality(H \ {r}) = Cardinality(H) - 1
    BY FS_RemoveElement
  <2>2. IsFiniteSet(1 .. m) /\ Cardinality(1 .. m) = m
    BY UpTo
  <2>3. IsFiniteSet(1 .. k) /\ Cardinality(1 .. k) = k
    <3> HIDE DEF k
    <3> QED BY <2>0, UpTo
  <2>4. IsFiniteSet({r}) /\ Cardinality({r}) = 1
    BY FS_Singleton
  <2> HIDE DEF k
  <2>5. IsFiniteSet(A) /\ Cardinality(A) = (Cardinality(H) - 1) * m
    <3> HIDE DEF R
    <3>1. IsFiniteSet(R) /\ Cardinality(R) = Cardinality(H) - 1
      BY <2>1 DEF R
    <3>2. IsFiniteSet(A) /\ Cardinality(A) = Cardinality(R) * Cardinality(1 .. m)
      <4>1. IsFiniteSet(1 .. m)
        BY <2>2
      <4>2. IsFiniteSet(R \X (1 .. m)) /\ Cardinality(R \X (1 .. m)) = Cardinality(R) * Cardinality(1 .. m)
        BY <3>1, <4>1, FS_Product, ZenonT(30)
      <4> QED BY <4>2 DEF R
    <3> QED BY <2>2, <3>1, <3>2
  <2>6. IsFiniteSet(B) /\ Cardinality(B) = k
    <3> DEFINE K == 1 .. k
               one == {r}
    <3>1. IsFiniteSet(K) /\ Cardinality(K) = k /\ IsFiniteSet(one) /\ Cardinality(one) = 1
      BY <2>3, <2>4
    <3> HIDE DEF K, one
    <3>2. IsFiniteSet(one \X K) /\ Cardinality(one \X K) = Cardinality(one) * Cardinality(K)
      BY <3>1, FS_Product, ZenonT(30)
    <3>3. IsFiniteSet(B) /\ Cardinality(B) = 1 * k
      BY <3>1, <3>2 DEF K, one
    <3> QED BY <2>0, <3>3
  <2> HIDE DEF A, B
  <2>7. /\ IsFiniteSet(A \cup B)
        /\ Cardinality(A \cup B) = Cardinality(A) + Cardinality(B) - Cardinality(A \cap B)
    BY <2>5, <2>6, FS_Union
  <2>8. Cardinality(A \cap B) \in Nat
    BY <2>5, FS_Intersection, FS_CardinalityType
  <2>9. Cardinality(A) \in Nat /\ Cardinality(B) \in Nat
    BY <2>5, <2>6, FS_CardinalityType
  <2>10. Cardinality(A \cup B) <= Cardinality(A) + Cardinality(B)
    BY <2>7, <2>8, <2>9
  <2> QED BY <2>5, <2>6, <2>7, <2>10 DEF A, B, k
<1>4. IsFiniteSet(Used) /\ Cardinality(Used) <= Cardinality(Places)
  <2>1. Used \in SUBSET Places
    OBVIOUS
  <2> HIDE DEF Used, Places
  <2> QED BY <1>3, <2>1, FS_Subset
<1>5. IsFiniteSet(Out) /\ Cardinality(Out) <= Cardinality(Used)
  <2> HIDE DEF Used
  <2>1. At \in [Used -> Out] /\ \A p \in Out : \E x \in Used : At[x] = p
    OBVIOUS
  <2>2. At \in Surjection(Used, Out)
    <3> HIDE DEF At, Out
    <3> QED BY <2>1 DEF Surjection
  <2> HIDE DEF At, Out
  <2> QED BY <1>4, <2>2, FS_Surjection
<1>6. 0 .. N - 1 \subseteq Range(fl) \cup Out
  <2> SUFFICES ASSUME NEW p \in 0 .. N - 1, p \notin Range(fl)
               PROVE  p \in Out
    OBVIOUS
  <2>1. PICK o \in Owners : p \in Range(held[o])
    BY DEF Covered
  <2>2. PICK i \in 1 .. Len(held[o]) : held[o][i] = p
    <3>1. held[o] \in Seq(0 .. N - 1)
      BY <2>1
    <3>2. DOMAIN held[o] = 1 .. Len(held[o])
      BY <3>1
    <3> QED
      BY <2>1, <3>2 DEF Range
  <2>3. i \in 1 .. m /\ o \in H
    <3>1. held[o] # <<>>
      BY <2>2, <1>1
    <3> QED BY <1>1, <3>1
  <2>4. <<o, i>> \in Used
    BY <2>2, <2>3
  <2>5. At[<<o, i>>] = p
    BY <2>2, <2>4
  <2> HIDE DEF At, Used
  <2> QED BY <2>4, <2>5
<1>7. IsFiniteSet(0 .. N - 1) /\ Cardinality(0 .. N - 1) = N
  BY UpTo
<1> HIDE DEF Places, Used, At, Out
<1> DEFINE F == Range(fl)
<1>8. IsFiniteSet(F \cup Out) /\ Cardinality(F \cup Out) <= Cardinality(F) + Cardinality(Out)
  <2> HIDE DEF F
  <2>0. IsFiniteSet(F)
    BY <1>2 DEF F
  <2>1. /\ IsFiniteSet(F \cup Out)
        /\ Cardinality(F \cup Out) = Cardinality(F) + Cardinality(Out) - Cardinality(F \cap Out)
    BY <1>5, <2>0, FS_Union
  <2>2. Cardinality(F \cap Out) \in Nat /\ Cardinality(F) \in Nat /\ Cardinality(Out) \in Nat
    BY <1>5, <2>0, FS_Intersection, FS_CardinalityType
  <2> QED BY <2>1, <2>2
<1>9. N <= Cardinality(F \cup Out)
  BY <1>6, <1>7, <1>8, FS_Subset DEF F
<1>10. /\ Cardinality(F \cup Out) \in Nat /\ Cardinality(F) \in Nat /\ Cardinality(Out) \in Nat
       /\ Cardinality(Used) \in Nat /\ Cardinality(Places) \in Nat /\ Cardinality(H) \in Nat
  BY <1>2, <1>3, <1>4, <1>5, <1>8, FS_CardinalityType DEF F
<1>11. (Cardinality(H) - 1) * m \in Int /\ Len(held[r]) \in Nat
  BY <1>1, <1>10
<1> DEFINE most == (Cardinality(H) - 1) * m
           k == Len(held[r])
           out == Cardinality(Out)
           list == Cardinality(F)
<1>12. list <= Len(fl) /\ Len(fl) \in Nat
  BY <1>1, <1>2 DEF F
<1>13. most \in Int /\ k \in Nat /\ Cardinality(Places) <= most + k
  BY <1>3, <1>11
<1>14. list \in Nat /\ out \in Nat /\ N <= list + out
  BY <1>8, <1>9, <1>10
<1> HIDE DEF F, most, k
<1>15. out <= most + k
  BY <1>4, <1>5, <1>10, <1>13
<1> HIDE DEF out, list
<1>16. N <= Len(fl) + most + k
  BY <1>12, <1>13, <1>14, <1>15
<1> QED
  BY <1>16 DEF most, k

(* Only finitely many requests have pages.                                  *)
LEMMA HoldersFinite ==
  ASSUME NEW N \in Nat, NEW Owners, NEW fl, NEW held \in [Owners -> Seq(0 .. N - 1)],
         Unshared(fl, held)
  PROVE  IsFiniteSet({o \in Owners : held[o] # <<>>})
<1> DEFINE H == {o \in Owners : held[o] # <<>>}
           first == [o \in H |-> held[o][1]]
<1>1. ASSUME NEW o \in H PROVE first[o] \in 0 .. N - 1 /\ first[o] \in Range(held[o])
  <2>1. held[o] \in Seq(0 .. N - 1) /\ held[o] # <<>>
    OBVIOUS
  <2>2. 1 \in 1 .. Len(held[o]) /\ held[o][1] \in 0 .. N - 1
    BY <2>1
  <2> QED BY <2>1, <2>2 DEF Range
<1>2. ASSUME NEW o \in H, NEW p \in H, first[o] = first[p] PROVE o = p
  BY <1>1, <1>2 DEF Unshared
<1>3. first \in Injection(H, 0 .. N - 1)
  <2>1. first \in [H -> 0 .. N - 1]
    BY <1>1
  <2> HIDE DEF first, H
  <2> QED BY <1>2, <2>1 DEF Injection, IsInjective
<1>4. IsFiniteSet(0 .. N - 1)
  BY UpTo
<1> HIDE DEF first, H
<1> QED BY <1>3, <1>4, FS_Injection DEF H

(* No table outgrows the longest request, not even one of a call that threw. *)
TablesFit ==
  \A l \in Layers, r \in Requests : Len(kv_pages[l][r]) <= PagesFor(MaxLen[l])

LimitInv == CoverInv /\ TablesFit

LEMMA InitLimit == Init => LimitInv
<1> SUFFICES ASSUME Init, NEW l \in Layers, NEW r \in Requests
             PROVE  Len(kv_pages[l][r]) <= PagesFor(MaxLen[l])
  BY InitCover DEF LimitInv, TablesFit
<1>1. kv_pages[l][r] = <<>>
  BY DEF Init
<1>2. Len(kv_pages[l][r]) = 0
  BY <1>1
<1> QED
  BY <1>2, PoolPagesType

LEMMA NextLimit == LimitInv /\ [Next]_vars => LimitInv'
<1> SUFFICES ASSUME LimitInv, [Next]_vars PROVE LimitInv'
  OBVIOUS
<1>0. CoverInv /\ CoverInv'
  BY NextCover DEF LimitInv
<1>1. CASE UNCHANGED kv_pages
  BY <1>0, <1>1 DEF LimitInv, TablesFit
<1>2. ASSUME NEW l \in Layers, VisitLayer(l)
      PROVE  TablesFit'
  <2>1. l \in todo /\ Fits(l, batch[cur])
    BY <1>2 DEF VisitLayer
  <2>2. kv_len[batch[cur]] \in Nat /\ MaxLen[l] \in Nat
    BY <1>0, <2>1, AsksForTheRest, RuntimeAssumption
  <2>3. Len(kv_pages'[l][batch[cur]]) <= PagesFor(MaxLen[l])
    BY <1>0, <1>2, <2>1, <2>2, VisitCatchesUp, PagesForMonotone DEF Fits
  <2>4. ASSUME NEW m \in Layers, NEW q \in Requests
        PROVE  Len(kv_pages'[m][q]) <= PagesFor(MaxLen[m])
    <3>1. CASE m = l /\ q = batch[cur]
      BY <2>3, <3>1
    <3>2. CASE m # l \/ q # batch[cur]
      <4>1. kv_pages'[m][q] = kv_pages[m][q]
        BY <1>0, <1>2, <3>2, VisitCatchesUp
      <4> QED BY <4>1 DEF LimitInv, TablesFit
    <3> QED BY <3>1, <3>2
  <2> QED BY <2>4 DEF TablesFit
<1>3. ASSUME NEW r \in Requests, Destroy(r)
      PROVE  TablesFit'
  <2> SUFFICES ASSUME NEW m \in Layers, NEW q \in Requests
               PROVE  Len(kv_pages'[m][q]) <= PagesFor(MaxLen[m])
    BY DEF TablesFit
  <2>1. kv_pages'[m] = [kv_pages[m] EXCEPT ![r] = <<>>] /\ kv_pages[m] \in [Requests -> Seq(Pages(m))]
    BY <1>0, <1>3 DEF Destroy, CoverInv, Inv, TypeOK
  <2>2. CASE q = r
    <3>1. kv_pages'[m][q] = <<>>
      BY <2>1, <2>2
    <3>2. Len(kv_pages'[m][q]) = 0
      BY <3>1
    <3> QED BY <3>2, PoolPagesType
  <2>3. CASE q # r
    <3>1. kv_pages'[m][q] = kv_pages[m][q]
      BY <2>1, <2>3
    <3> QED BY <3>1 DEF LimitInv, TablesFit
  <2> QED BY <2>2, <2>3
<1>4. TablesFit' => LimitInv'
  BY <1>0 DEF LimitInv
<1>5. UNCHANGED kv_pages \/ (\E l \in Layers : VisitLayer(l)) \/ (\E r \in Requests : Destroy(r))
  BY DEF Next, Bookkeeping, SetPrefill, Bind, EnterMeta, TooLongThrows, ExhaustedThrows,
         MetaThrows, Abort, Publish, Execute, ExecuteThrows, vars
<1> QED
  BY <1>1, <1>2, <1>3, <1>4, <1>5

(* The counting: while no more than MaxRequestNum requests hold or want     *)
(* pages of a layer, its list has what the table being visited lacks.       *)
LEMMA EnoughPages ==
  ASSUME LimitInv, NEW l \in todo, Fits(l, batch[cur]),
         Cardinality(Holders(l)) <= MaxRequestNum
  PROVE  CanAllocate(free_list_[l], PagesNeeded(l, batch[cur]))
<1> DEFINE r == batch[cur]
           n == PagesNeeded(l, r)
           P == PagesFor(MaxLen[l])
           H == Holders(l)
           N == PoolPages(l)
           h == Cardinality(H)
           len == Len(free_list_[l])
           has == Len(kv_pages[l][r])
<1>0. CoverInv
  BY DEF LimitInv
<1>1. /\ l \in Layers /\ r \in Requests /\ kv_len[r] \in Nat /\ n \in Nat
      /\ has + n = PagesFor(kv_len[r])
  BY <1>0, AsksForTheRest
<1>2. P \in Nat /\ N \in Nat /\ N = MaxRequestNum * P /\ MaxRequestNum \in Nat
  BY <1>1, PoolPagesType, RuntimeAssumption DEF PoolPages
<1>3. PagesFor(kv_len[r]) <= P
  BY <1>1, PagesForMonotone, RuntimeAssumption DEF Fits
<1>4. /\ free_list_[l] \in Seq(0 .. N - 1) /\ kv_pages[l] \in [Requests -> Seq(0 .. N - 1)]
      /\ Unshared(free_list_[l], kv_pages[l]) /\ Covered(0 .. N - 1, free_list_[l], kv_pages[l])
  BY <1>0, <1>1 DEF CoverInv, Inv, TypeOK, PagesPartitioned, Pages
<1>5. r \in H /\ op = "bind"
  BY <1>0, <1>1 DEF CoverInv, Inv, TypeOK, Holders
<1>6. H \subseteq Requests /\ \A o \in Requests : kv_pages[l][o] # <<>> => o \in H
  BY DEF Holders
<1>7. IsFiniteSet(H) /\ h \in Nat
  <2> DEFINE owners == {o \in Requests : kv_pages[l][o] # <<>>}
  <2>1. IsFiniteSet(owners)
    <3> HIDE DEF N
    <3> QED BY <1>2, <1>4, HoldersFinite
  <2>2. H = owners \cup {r}
    BY <1>1, <1>5 DEF Holders
  <2> HIDE DEF owners, H
  <2>3. IsFiniteSet(H)
    BY <2>1, <2>2, FS_AddElement
  <2> QED BY <2>3, FS_CardinalityType
<1>8. \A o \in Requests : Len(kv_pages[l][o]) <= P
  BY <1>1 DEF LimitInv, TablesFit
<1>9. N <= len + (h - 1) * P + has
  <2> HIDE DEF N, H, P, r
  <2> QED BY <1>2, <1>4, <1>5, <1>6, <1>7, <1>8, PagesCounted
<1>10. h <= MaxRequestNum
  OBVIOUS
<1>11. len \in Nat /\ has \in Nat
  BY <1>1, <1>4
<1> HIDE DEF n, P, N, h, len, has, r, H
<1>12. (h - 1) * P + P = h * P /\ h * P <= MaxRequestNum * P
  <2>1. MaxRequestNum - h \in Nat
    BY <1>2, <1>7, <1>10
  <2>2. (MaxRequestNum - h) * P \in Nat
    BY <1>2, <2>1
  <2> QED BY <1>2, <1>7, <2>1, <2>2
<1>13. h * P \in Nat /\ (h - 1) * P \in Int /\ N \in Nat
  BY <1>2, <1>7
<1>14. n <= len
  <2>1. PagesFor(kv_len[r]) \in Nat
    BY <1>1, PagesForBounds
  <2> QED BY <1>1, <1>2, <1>3, <1>9, <1>11, <1>12, <1>13, <2>1
<1> QED
  BY <1>14 DEF CanAllocate, n, len, r

(* Within the number of requests the runtime was made for, no allocation    *)
(* fails, whatever calls threw and whatever requests they left behind.      *)
THEOREM LimitCorrect == Spec => []NeverExhaustedWithinLimit
<1>1. LimitInv => NeverExhaustedWithinLimit
  BY EnoughPages DEF NeverExhaustedWithinLimit
<1> QED
  BY <1>1, InitLimit, NextLimit, PTL DEF Spec

-----------------------------------------------------------------------------
(* The pools.                                                               *)

(* A step of one layer's pool, in the runtime's words.                      *)
LEMMA PoolAllocates ==
  ASSUME NEW l \in Layers, NEW r \in Requests, NEW n \in 1 .. PoolPages(l),
         n <= Len(free_list_[l]),
         free_list_'[l] = AfterAllocate(free_list_[l], n),
         kv_pages'[l] = [kv_pages[l] EXCEPT ![r] = kv_pages[l][r] \o Popped(free_list_[l], n)]
  PROVE  Pool(l)!Next
<1>1. Pool(l)!Allocate(r, n)
  BY DEF Pool!Allocate, Pool!CanAllocate, Pool!AfterAllocate, Pool!Popped, AfterAllocate, Popped
<1> QED
  BY <1>1 DEF Pool!Next

LEMMA PoolFrees ==
  ASSUME NEW l \in Layers, NEW r \in Requests,
         kv_pages[l] \in [Requests -> Seq(Pages(l))],
         kv_pages[l][r] # <<>>, CanFree(free_list_[l], kv_pages[l][r]),
         free_list_'[l] = AfterFree(free_list_[l], kv_pages[l][r]),
         kv_pages'[l] = [kv_pages[l] EXCEPT ![r] = <<>>]
  PROVE  Pool(l)!Next
<1> DEFINE table == kv_pages[l][r]
           k == Len(table)
<1>1. table \in Seq(Pages(l)) /\ k \in 1 .. k
  OBVIOUS
<1>2. SubSeq(table, 1, k) = table /\ SubSeq(table, k + 1, k) = <<>>
  BY <1>1, WholeSequence
<1>3. Pool(l)!Free(r, k)
  BY <1>2 DEF Pool!Free, Pool!CanFree, Pool!AfterFree, Pool!Range, CanFree, AfterFree, Range
<1> QED
  BY <1>1, <1>3 DEF Pool!Next

(* A visit takes pages for one table or leaves the pool alone, in the layer *)
(* visited; the other pools stay as they are.                               *)
LEMMA VisitUsesPool ==
  ASSUME LimitInv, NEW m \in Layers, VisitLayer(m), NEW l \in Layers
  PROVE  [Pool(l)!Next]_(Pool(l)!vars)
<1> DEFINE r == batch[cur]
           n == PagesNeeded(m, r)
<1>0. CoverInv
  BY DEF LimitInv
<1>1. /\ DOMAIN free_list_ = Layers /\ DOMAIN kv_pages = Layers
      /\ free_list_[m] \in Seq(Pages(m)) /\ kv_pages[m] \in [Requests -> Seq(Pages(m))]
  BY <1>0 DEF CoverInv, Inv, TypeOK
<1>2. /\ m \in todo /\ Fits(m, r) /\ n <= Len(free_list_[m])
      /\ free_list_' = [free_list_ EXCEPT ![m] = AfterAllocate(free_list_[m], n)]
      /\ kv_pages' = [kv_pages EXCEPT ![m] =
           [kv_pages[m] EXCEPT ![r] = kv_pages[m][r] \o Popped(free_list_[m], n)]]
  BY DEF VisitLayer, CanAllocate
<1>3. /\ r \in Requests /\ kv_len[r] \in Nat /\ n \in Nat
      /\ kv_pages[m][r] \in Seq(Pages(m))
      /\ Len(kv_pages[m][r]) + n = PagesFor(kv_len[r])
  BY <1>0, <1>2, AsksForTheRest
<1>4. n <= PoolPages(m)
  <2>1. PagesFor(kv_len[r]) <= PagesFor(MaxLen[m])
    BY <1>2, <1>3, PagesForMonotone, RuntimeAssumption DEF Fits
  <2>2. PagesFor(kv_len[r]) \in Nat /\ PagesFor(MaxLen[m]) \in Nat /\ Len(kv_pages[m][r]) \in Nat
    <3>1. PagesFor(MaxLen[m]) \in Nat
      BY PoolPagesType
    <3>2. Len(kv_pages[m][r]) \in Nat
      BY <1>3
    <3>3. PagesFor(kv_len[r]) \in Nat
      BY <1>3, PagesForBounds
    <3> QED BY <3>1, <3>2, <3>3
  <2>3. ASSUME NEW a \in Nat, NEW b \in Nat \ {0} PROVE a <= b * a
    <3>1. (b - 1) * a >= 0
      BY <2>3
    <3> QED BY <3>1
  <2>4. PagesFor(MaxLen[m]) <= MaxRequestNum * PagesFor(MaxLen[m])
    BY <2>2, <2>3, RuntimeAssumption
  <2>5. MaxRequestNum * PagesFor(MaxLen[m]) \in Nat
    BY <2>2, RuntimeAssumption
  <2> HIDE DEF n, r
  <2> QED BY <1>3, <2>1, <2>2, <2>4, <2>5 DEF PoolPages
<1>5. PoolPages(m) \in Nat
  BY PoolPagesType
<1> HIDE DEF r, n
<1>6. CASE l # m
  <2>1. free_list_'[l] = free_list_[l] /\ kv_pages'[l] = kv_pages[l]
    BY <1>1, <1>2, <1>6
  <2> QED BY <2>1 DEF Pool!vars
<1>7. CASE l = m /\ n = 0
  <2>1. free_list_'[m] = free_list_[m]
    <3>1. SubSeq(free_list_[m], 1, Len(free_list_[m])) = free_list_[m]
      BY <1>1, WholeSequence
    <3>2. Len(free_list_[m]) - 0 = Len(free_list_[m])
      BY <1>1
    <3> QED BY <1>1, <1>2, <1>7, <3>1, <3>2 DEF AfterAllocate
  <2>2. kv_pages'[m] = kv_pages[m]
    <3>1. Popped(free_list_[m], 0) = <<>>
      BY DEF Popped
    <3>2. kv_pages[m][r] \o <<>> = kv_pages[m][r]
      BY <1>3
    <3> QED BY <1>1, <1>2, <1>7, <3>1, <3>2
  <2> QED BY <1>7, <2>1, <2>2 DEF Pool!vars
<1>8. CASE l = m /\ n # 0
  <2>1. n \in 1 .. PoolPages(m)
    BY <1>3, <1>4, <1>5, <1>8
  <2>2. free_list_'[m] = AfterAllocate(free_list_[m], n)
    BY <1>1, <1>2
  <2>3. kv_pages'[m] = [kv_pages[m] EXCEPT ![r] = kv_pages[m][r] \o Popped(free_list_[m], n)]
    BY <1>1, <1>2
  <2> QED BY <1>2, <1>3, <1>8, <2>1, <2>2, <2>3, PoolAllocates
<1> QED
  BY <1>6, <1>7, <1>8

(* Destroying a request frees its table in every layer, or does nothing     *)
(* where it has none.                                                       *)
LEMMA DestroyUsesPool ==
  ASSUME LimitInv, NEW r \in Requests, Destroy(r), NEW l \in Layers
  PROVE  [Pool(l)!Next]_(Pool(l)!vars)
<1>1. free_list_[l] \in Seq(Pages(l)) /\ kv_pages[l] \in [Requests -> Seq(Pages(l))]
  BY DEF LimitInv, CoverInv, Inv, TypeOK
<1>2. /\ CanFree(free_list_[l], kv_pages[l][r])
      /\ free_list_'[l] = AfterFree(free_list_[l], kv_pages[l][r])
      /\ kv_pages'[l] = [kv_pages[l] EXCEPT ![r] = <<>>]
  BY DEF Destroy, FreedLists
<1>3. CASE kv_pages[l][r] = <<>>
  <2>1. free_list_'[l] = free_list_[l]
    <3>1. free_list_[l] \o <<>> = free_list_[l]
      BY <1>1
    <3> QED BY <1>2, <1>3, <3>1 DEF AfterFree
  <2>2. kv_pages'[l] = kv_pages[l]
    BY <1>1, <1>2, <1>3
  <2> QED BY <2>1, <2>2 DEF Pool!vars
<1>4. CASE kv_pages[l][r] # <<>>
  BY <1>1, <1>2, <1>4, PoolFrees
<1> QED
  BY <1>3, <1>4

(* The runtime only ever uses its pools as PagePool allows, so what is      *)
(* proved of a pool holds of each of them.                                  *)
THEOREM PoolsUsed == Spec => UsesPools
<1>1. Init => \A l \in Layers : Pool(l)!Init
  BY DEF Init, Pool!Init, Pool!InitialFreeList, InitialFreeList
<1>2. LimitInv /\ [Next]_vars => [\A l \in Layers : [Pool(l)!Next]_(Pool(l)!vars)]_vars
  <2> SUFFICES ASSUME LimitInv, [Next]_vars, NEW l \in Layers
               PROVE  [Pool(l)!Next]_(Pool(l)!vars)
    OBVIOUS
  <2>1. CASE UNCHANGED <<free_list_, kv_pages>>
    BY <2>1 DEF Pool!vars
  <2>2. \/ UNCHANGED <<free_list_, kv_pages>>
        \/ \E m \in Layers : VisitLayer(m)
        \/ \E r \in Requests : Destroy(r)
    BY DEF Next, Bookkeeping, SetPrefill, Bind, EnterMeta, TooLongThrows, ExhaustedThrows,
           MetaThrows, Abort, Publish, Execute, ExecuteThrows, vars
  <2> QED BY <2>1, <2>2, VisitUsesPool, DestroyUsesPool
<1> QED
  BY <1>1, <1>2, InitLimit, NextLimit, PTL DEF Spec, UsesPools

-----------------------------------------------------------------------------
(* Numbers.                                                                 *)

(* A set of numbers has a least one.  Where a fact is one about every       *)
(* number, or about what a recursive definition computes, it is proved by   *)
(* looking at the least number for which it would fail.                     *)
LEMMA LeastNumber ==
  ASSUME NEW T \in SUBSET Nat, T # {}
  PROVE  \E n \in T : \A m \in T : n <= m
<1> DEFINE R == OpToRel(<, Nat)
<1>1. IsWellFoundedOn(R, Nat)
  BY NatLessThanWellFounded
<1>2. PICK n \in T : \A m \in T : <<m, n>> \notin R
  <2> HIDE DEF R
  <2> QED BY <1>1, WFMin
<1>3. \A m \in Nat, k \in Nat : m < k => <<m, k>> \in R
  BY DEF OpToRel
<1> HIDE DEF R
<1>4. \A m \in T : ~(m < n)
  BY <1>2, <1>3
<1> QED
  BY <1>4

(* A set of numbers with a bound has a greatest one.                        *)
LEMMA GreatestNumber ==
  ASSUME NEW T \in SUBSET Nat, T # {}, NEW b \in Nat, \A m \in T : m <= b
  PROVE  \E n \in T : \A m \in T : m <= n
<1> DEFINE D == {b - m : m \in T}
<1>1. D \in SUBSET Nat /\ D # {}
  <2>1. \A m \in T : b - m \in Nat
    OBVIOUS
  <2> QED BY <2>1
<1>2. PICK d \in D : \A e \in D : d <= e
  <2> HIDE DEF D
  <2> QED BY <1>1, LeastNumber
<1>3. PICK n \in T : d = b - n
  OBVIOUS
<1>4. \A m \in T : b - n <= b - m
  BY <1>2, <1>3
<1> QED
  BY <1>4

LEMMA SetMaxIs ==
  ASSUME NEW S, S \subseteq Int, NEW x \in S, \A y \in S : y <= x
  PROVE  SetMax(S) = x
<1>1. \A z \in S : (\A y \in S : y <= z) => z = x
  OBVIOUS
<1>2. SetMax(S) \in S /\ \A y \in S : y <= SetMax(S)
  BY DEF SetMax
<1> QED
  BY <1>1, <1>2

(* Row i, column b of a table with m columns.                               *)
LEMMA RowAndColumn ==
  ASSUME NEW i \in Nat, NEW m \in Nat, NEW b \in 0 .. m - 1
  PROVE  (i * m + b) \div m = i /\ (i * m + b) % m = b
<1> DEFINE x == i * m + b
           d == x \div m
           c == x % m
<1>1. m > 0 /\ m \in Nat /\ b \in Nat /\ b < m
  OBVIOUS
<1>2. i * m \in Nat
  OBVIOUS
<1>3. x \in Nat
  BY <1>1, <1>2
<1>4. d \in Int /\ c \in 0 .. m - 1 /\ x = m * d + c
  BY <1>1, <1>3
<1> HIDE DEF d, c
<1>5. ASSUME NEW u \in Int, NEW v \in Int, u < v
      PROVE  u * m + m <= v * m
  <2>1. v = u + 1 + (v - u - 1) /\ v - u - 1 \in Nat
    BY <1>5
  <2>2. (v - u - 1) * m >= 0
    BY <1>1, <2>1
  <2> QED BY <1>1, <2>1, <2>2
<1>6. m * d = d * m /\ d * m \in Int
  BY <1>1, <1>4
<1>7. i * m + b = d * m + c
  BY <1>4, <1>6
<1>8. ~(i < d)
  <2>1. i < d => i * m + m <= d * m
    BY <1>4, <1>5
  <2> QED BY <1>1, <1>2, <1>4, <1>6, <1>7, <2>1
<1>9. ~(d < i)
  <2>1. d < i => d * m + m <= i * m
    BY <1>4, <1>5
  <2> QED BY <1>1, <1>2, <1>4, <1>6, <1>7, <2>1
<1>10. d = i /\ c = b
  <2>1. d = i
    BY <1>4, <1>8, <1>9
  <2> QED BY <1>1, <1>2, <1>4, <1>6, <1>7, <2>1
<1> QED
  BY <1>10 DEF d, c

(* The page and slot of position n of a table of t pages, and back.         *)
LEMMA PageAndSlot ==
  ASSUME NEW n \in Nat, NEW t \in Nat, n < t * PageSize
  PROVE  /\ n \div PageSize \in 0 .. t - 1
         /\ n % PageSize \in Slots
         /\ n = (n \div PageSize) * PageSize + (n % PageSize)
<1>1. PageSize \in Nat /\ PageSize > 0
  BY RuntimeAssumption
<1> DEFINE d == n \div PageSize
           c == n % PageSize
<1>2. d \in Int /\ c \in 0 .. PageSize - 1 /\ n = PageSize * d + c
  BY <1>1
<1>3. d >= 0
  BY <1>1
<1> HIDE DEF d, c
<1>4. PageSize * d = d * PageSize /\ d * PageSize \in Int
  BY <1>1, <1>2
<1>5. ~(t <= d)
  <2> SUFFICES ASSUME t <= d PROVE FALSE
    OBVIOUS
  <2>1. d = t + (d - t) /\ d - t \in Nat
    BY <1>2
  <2>2. (d - t) * PageSize \in Nat
    BY <1>1, <2>1
  <2>3. t * PageSize \in Nat
    BY <1>1
  <2>4. d * PageSize = t * PageSize + (d - t) * PageSize
    BY <1>1, <1>2
  <2> QED BY <1>2, <1>4, <2>2, <2>3, <2>4
<1> QED
  BY <1>2, <1>3, <1>4, <1>5 DEF d, c, Slots

-----------------------------------------------------------------------------
(* The separators of a batch.                                               *)

(* f is what the recursion of seq_separator computes for n requests.        *)
IsTotal(f, n) ==
  f = [i \in 0 .. n |-> IF i = 0 THEN 0 ELSE f[i - 1] + seq_len[Req(i - 1)]]

LEMMA TotalExists ==
  ASSUME NEW n \in Nat
  PROVE  \E f : IsTotal(f, n)
<1> DEFINE T == {m \in Nat : ~\E f : IsTotal(f, m)}
<1>1. T = {}
  <2> SUFFICES ASSUME T # {} PROVE FALSE
    OBVIOUS
  <2>1. PICK m \in T : \A k \in T : m <= k
    <3>1. T \in SUBSET Nat
      OBVIOUS
    <3> HIDE DEF T
    <3> QED BY <3>1, LeastNumber
  <2>2. CASE m = 0
    <3> DEFINE g == [i \in 0 .. 0 |-> 0]
    <3>1. g = [i \in 0 .. 0 |-> IF i = 0 THEN 0 ELSE g[i - 1] + seq_len[Req(i - 1)]]
      OBVIOUS
    <3>2. IsTotal(g, 0)
      BY <3>1 DEF IsTotal
    <3> QED BY <2>2, <3>2
  <2>3. CASE m # 0
    <3>1. PICK k \in Nat : m = k + 1
      <4>1. m - 1 \in Nat /\ m = (m - 1) + 1
        BY <2>3
      <4> QED BY <4>1
    <3>2. PICK f : IsTotal(f, k)
      <4>1. k \notin T
        BY <2>1, <3>1
      <4> QED BY <4>1
    <3>3. f = [i \in 0 .. k |-> IF i = 0 THEN 0 ELSE f[i - 1] + seq_len[Req(i - 1)]]
      BY <3>2 DEF IsTotal
    <3> DEFINE last == f[k] + seq_len[Req(k)]
               g == [i \in 0 .. m |-> IF i = m THEN last ELSE f[i]]
               h == [i \in 0 .. m |-> IF i = 0 THEN 0 ELSE g[i - 1] + seq_len[Req(i - 1)]]
    <3>4. ASSUME NEW i \in 0 .. m PROVE g[i] = h[i]
      <4>1. CASE i = 0
        BY <3>1, <3>3, <4>1
      <4>2. CASE i = m
        <5>1. i - 1 = k /\ i # 0 /\ k \in 0 .. m /\ k # m
          BY <3>1, <4>2
        <5>2. g[i] = last /\ g[k] = f[k]
          BY <4>2, <5>1
        <5>3. h[i] = g[i - 1] + seq_len[Req(i - 1)]
          BY <5>1
        <5> HIDE DEF g, h
        <5> QED BY <5>1, <5>2, <5>3
      <4>3. CASE i # 0 /\ i # m
        <5>1. i \in 0 .. k /\ i - 1 \in 0 .. m /\ i - 1 # m
          BY <3>1, <4>3
        <5>2. f[i] = f[i - 1] + seq_len[Req(i - 1)]
          <6> DEFINE F == [j \in 0 .. k |-> IF j = 0 THEN 0 ELSE f[j - 1] + seq_len[Req(j - 1)]]
          <6>1. f[i] = F[i]
            BY <3>3
          <6>2. F[i] = f[i - 1] + seq_len[Req(i - 1)]
            BY <4>3, <5>1
          <6> QED BY <6>1, <6>2
        <5>3. g[i] = f[i] /\ g[i - 1] = f[i - 1]
          BY <4>3, <5>1
        <5>4. h[i] = g[i - 1] + seq_len[Req(i - 1)]
          BY <4>3
        <5> HIDE DEF g, h
        <5> QED BY <5>2, <5>3, <5>4
      <4> QED BY <4>1, <4>2, <4>3
    <3>5. g = h
      <4>1. g = [i \in 0 .. m |-> g[i]] /\ h = [i \in 0 .. m |-> h[i]]
        OBVIOUS
      <4> HIDE DEF g, h
      <4> QED BY <3>4, <4>1
    <3>6. IsTotal(g, m)
      <4> HIDE DEF last
      <4> QED BY <3>5 DEF IsTotal
    <3>7. \E e : IsTotal(e, m)
      <4> HIDE DEF g
      <4> QED BY <3>6
    <3> QED BY <3>7
  <2> QED BY <2>2, <2>3
<1> QED
  BY <1>1

(* A batch the client filled in.                                            *)
Filled ==
  /\ batch \in Seq(Requests)
  /\ \A i \in 1 .. Len(batch) : seq_len[batch[i]] \in Nat \ {0}

LEMMA SeparatorSteps ==
  ASSUME Filled
  PROVE  /\ num_requests \in Nat
         /\ seq_separator[0] = 0
         /\ \A i \in 0 .. LastReq :
              /\ Req(i) \in Range(batch) /\ Req(i) \in Requests
              /\ seq_len[Req(i)] \in Nat \ {0}
              /\ seq_separator[i + 1] = seq_separator[i] + seq_len[Req(i)]
<1> DEFINE n == num_requests
<1>1. n \in Nat
  BY DEF Filled, num_requests
<1>2. IsTotal(seq_separator, n)
  <2>1. \E f : IsTotal(f, n)
    BY <1>1, TotalExists
  <2>2. seq_separator = CHOOSE f : IsTotal(f, n)
    BY DEF seq_separator, IsTotal
  <2> HIDE DEF n
  <2> QED BY <2>1, <2>2
<1> DEFINE F == [j \in 0 .. n |-> IF j = 0 THEN 0
                   ELSE seq_separator[j - 1] + seq_len[Req(j - 1)]]
<1>3. seq_separator = F
  <2> HIDE DEF n
  <2> QED BY <1>2 DEF IsTotal
<1> HIDE DEF n
<1>4. F[0] = 0
  BY <1>1
<1>5. ASSUME NEW i \in 0 .. LastReq
      PROVE  /\ Req(i) \in Range(batch) /\ Req(i) \in Requests
             /\ seq_len[Req(i)] \in Nat \ {0}
             /\ seq_separator[i + 1] = seq_separator[i] + seq_len[Req(i)]
  <2>1. i + 1 \in 1 .. Len(batch) /\ i + 1 \in 0 .. n /\ i + 1 # 0 /\ (i + 1) - 1 = i
    BY <1>1 DEF n, LastReq, num_requests
  <2>2. F[i + 1] = seq_separator[(i + 1) - 1] + seq_len[Req((i + 1) - 1)]
    BY <2>1
  <2>3. F[i + 1] = seq_separator[i] + seq_len[Req(i)]
    BY <2>1, <2>2
  <2> HIDE DEF F
  <2>4. seq_separator[i + 1] = seq_separator[i] + seq_len[Req(i)]
    BY <1>3, <2>3
  <2>5. Req(i) \in Range(batch) /\ Req(i) \in Requests /\ seq_len[Req(i)] \in Nat \ {0}
    BY <2>1 DEF Filled, Req, Range
  <2> QED BY <2>4, <2>5
<1> HIDE DEF F
<1> QED
  BY <1>1, <1>3, <1>4, <1>5 DEF n

(* They are numbers, and the rows of a request end before those of a later. *)
LEMMA SeparatorTypes ==
  ASSUME Filled
  PROVE  \A i \in 0 .. num_requests : seq_separator[i] \in Nat
<1> DEFINE T == {i \in 0 .. num_requests : seq_separator[i] \notin Nat}
<1>1. num_requests \in Nat
  BY SeparatorSteps
<1>2. SUFFICES ASSUME T # {} PROVE FALSE
  OBVIOUS
<1>3. PICK i \in T : \A j \in T : i <= j
  <2>1. T \in SUBSET Nat
    BY <1>1
  <2> HIDE DEF T
  <2> QED BY <1>2, <2>1, LeastNumber
<1>4. i # 0
  BY SeparatorSteps
<1>5. i - 1 \in 0 .. LastReq /\ (i - 1) + 1 = i /\ i - 1 \in 0 .. num_requests /\ ~(i <= i - 1)
  BY <1>1, <1>4 DEF LastReq
<1>6. seq_separator[i - 1] \in Nat
  <2>1. i - 1 \notin T
    BY <1>3, <1>5
  <2> QED BY <1>5, <2>1
<1>7. seq_separator[(i - 1) + 1] = seq_separator[i - 1] + seq_len[Req(i - 1)]
  BY <1>5, SeparatorSteps
<1>8. seq_len[Req(i - 1)] \in Nat
  BY <1>5, SeparatorSteps
<1> QED
  BY <1>5, <1>6, <1>7, <1>8

LEMMA SeparatorsGrow ==
  ASSUME Filled, NEW i \in 0 .. LastReq, NEW j \in 0 .. num_requests, i < j
  PROVE  seq_separator[i + 1] <= seq_separator[j]
<1> DEFINE T == {m \in 0 .. num_requests : i < m /\ ~(seq_separator[i + 1] <= seq_separator[m])}
<1>1. num_requests \in Nat /\ i \in 0 .. num_requests /\ i + 1 \in 0 .. num_requests
  BY SeparatorSteps DEF LastReq
<1>2. SUFFICES ASSUME T # {} PROVE FALSE
  OBVIOUS
<1>3. PICK m \in T : \A k \in T : m <= k
  <2>1. T \in SUBSET Nat
    BY <1>1
  <2> HIDE DEF T
  <2> QED BY <1>2, <2>1, LeastNumber
<1>4. m # i + 1
  BY <1>1, SeparatorTypes
<1>5. /\ m - 1 \in 0 .. LastReq /\ (m - 1) + 1 = m /\ m - 1 \in 0 .. num_requests
      /\ ~(m <= m - 1) /\ i < m - 1
  BY <1>1, <1>4 DEF LastReq
<1>6. seq_separator[i + 1] <= seq_separator[m - 1]
  <2>1. m - 1 \notin T
    BY <1>3, <1>5
  <2> QED BY <1>5, <2>1
<1>7. /\ seq_separator[(m - 1) + 1] = seq_separator[m - 1] + seq_len[Req(m - 1)]
      /\ seq_len[Req(m - 1)] \in Nat
  BY <1>5, SeparatorSteps
<1>8. seq_separator[m - 1] \in Nat /\ seq_separator[i + 1] \in Nat
  BY <1>1, <1>5, SeparatorTypes
<1>9. seq_separator[m] = seq_separator[m - 1] + seq_len[Req(m - 1)]
  BY <1>5, <1>7
<1> QED
  BY <1>6, <1>7, <1>8, <1>9

(* Query q is the k-th (from 0) of the i-th request.                        *)
IsAt(q, i, k) ==
  /\ i \in 0 .. LastReq
  /\ k \in 0 .. seq_len[Req(i)] - 1
  /\ q = seq_separator[i] + k

(* The separators around the rows of request i.                             *)
LEMMA PlaceBounds ==
  ASSUME Filled, NEW q, NEW i, NEW k, IsAt(q, i, k)
  PROVE  /\ i \in Nat /\ k \in Nat /\ q \in Nat /\ i < num_requests /\ num_requests \in Nat
         /\ i \in 0 .. LastReq /\ i \in 0 .. num_requests /\ i + 1 \in 0 .. num_requests
         /\ seq_separator[i] \in Nat /\ seq_separator[i + 1] \in Nat
         /\ q = seq_separator[i] + k
         /\ seq_separator[i] <= q /\ q < seq_separator[i + 1]
<1>1. /\ num_requests \in Nat /\ i \in 0 .. LastReq /\ k \in 0 .. seq_len[Req(i)] - 1
      /\ q = seq_separator[i] + k
  BY SeparatorSteps DEF IsAt
<1>2. i \in 0 .. num_requests /\ i + 1 \in 0 .. num_requests /\ i < num_requests /\ i \in Nat
  BY <1>1 DEF LastReq
<1>3. seq_separator[i] \in Nat /\ seq_separator[i + 1] \in Nat
  BY <1>2, SeparatorTypes
<1>4. seq_separator[i + 1] = seq_separator[i] + seq_len[Req(i)] /\ seq_len[Req(i)] \in Nat
  BY <1>1, SeparatorSteps
<1> QED
  BY <1>1, <1>2, <1>3, <1>4

LEMMA QueryHasPlace ==
  ASSUME Filled, NEW q \in Queries
  PROVE  \E i, k : IsAt(q, i, k)
<1> DEFINE T == {m \in 0 .. num_requests : q < seq_separator[m]}
<1>1. num_requests \in Nat /\ seq_separator[0] = 0 /\ num_requests \in 0 .. num_requests
  BY SeparatorSteps
<1>2. seq_separator[num_requests] \in Nat
  BY <1>1, SeparatorTypes
<1>3. q \in Nat /\ q < seq_separator[num_requests]
  BY <1>2 DEF Queries, total_queries
<1>4. PICK m \in T : \A j \in T : m <= j
  <2>1. T \in SUBSET Nat /\ T # {}
    BY <1>1, <1>3
  <2> HIDE DEF T
  <2> QED BY <2>1, LeastNumber
<1>5. m # 0
  BY <1>1, <1>3
<1> DEFINE i == m - 1
<1>6. i \in 0 .. LastReq /\ i \in 0 .. num_requests /\ i + 1 = m /\ ~(m <= i)
  BY <1>1, <1>5 DEF LastReq
<1>7. ~(q < seq_separator[i])
  BY <1>4, <1>6
<1>8. q < seq_separator[m]
  OBVIOUS
<1> HIDE DEF i, T
<1>9. seq_separator[i] \in Nat
  BY <1>6, SeparatorTypes
<1>10. seq_separator[i + 1] = seq_separator[i] + seq_len[Req(i)] /\ seq_len[Req(i)] \in Nat
  BY <1>6, SeparatorSteps
<1>11. seq_separator[m] = seq_separator[i] + seq_len[Req(i)]
  BY <1>6, <1>10
<1> DEFINE k == q - seq_separator[i]
<1>12. k \in 0 .. seq_len[Req(i)] - 1 /\ q = seq_separator[i] + k
  BY <1>3, <1>7, <1>8, <1>9, <1>10, <1>11
<1>13. IsAt(q, i, k)
  BY <1>6, <1>12 DEF IsAt
<1> QED
  BY <1>13

LEMMA PlaceIsQuery ==
  ASSUME Filled, NEW q, NEW i, NEW k, IsAt(q, i, k)
  PROVE  q \in Queries
<1>1. /\ q \in Nat /\ q < seq_separator[i + 1] /\ num_requests \in 0 .. num_requests
      /\ i \in 0 .. LastReq /\ i < num_requests /\ seq_separator[i + 1] \in Nat
  BY PlaceBounds
<1>2. seq_separator[i + 1] <= seq_separator[num_requests]
  BY <1>1, SeparatorsGrow
<1>3. seq_separator[num_requests] \in Nat
  BY <1>1, SeparatorTypes
<1> QED
  BY <1>1, <1>2, <1>3 DEF Queries, total_queries

(* A row between the separators of one request is not between another's.    *)
LEMMA OnePlaceOnly ==
  ASSUME Filled, NEW q, NEW i, NEW k, IsAt(q, i, k),
         NEW j \in 0 .. LastReq, seq_separator[j] <= q, q < seq_separator[j + 1]
  PROVE  j = i
<1>1. /\ q \in Nat /\ i \in 0 .. LastReq /\ i \in Nat /\ i \in 0 .. num_requests
      /\ i + 1 \in 0 .. num_requests /\ num_requests \in Nat
      /\ seq_separator[i] <= q /\ q < seq_separator[i + 1]
      /\ seq_separator[i] \in Nat /\ seq_separator[i + 1] \in Nat
  BY PlaceBounds
<1>2. j \in 0 .. num_requests /\ j + 1 \in 0 .. num_requests /\ j \in Nat
  BY <1>1 DEF LastReq
<1>3. seq_separator[j] \in Nat /\ seq_separator[j + 1] \in Nat
  BY <1>2, SeparatorTypes
<1>4. i < j => seq_separator[i + 1] <= seq_separator[j]
  BY <1>1, <1>2, SeparatorsGrow
<1>5. j < i => seq_separator[j + 1] <= seq_separator[i]
  BY <1>1, <1>2, SeparatorsGrow
<1> QED
  BY <1>1, <1>2, <1>3, <1>4, <1>5

(* What the device and the client compute for that query.                   *)
LEMMA QueryAt ==
  ASSUME Filled, fed \in [Requests -> Nat], NEW q, NEW i, NEW k, IsAt(q, i, k)
  PROVE  /\ request_idx(q) = i
         /\ relative_row(q) = k + cache_offset(i)
         /\ InputRow(q) = <<Req(i), fed[Req(i)] + k + 1>>
<1>1. /\ q \in Nat /\ i \in 0 .. LastReq /\ i \in Nat /\ k \in Nat /\ i \in 0 .. num_requests
      /\ i + 1 \in 0 .. num_requests /\ num_requests \in Nat
      /\ seq_separator[i] <= q /\ q < seq_separator[i + 1] /\ q = seq_separator[i] + k
      /\ seq_separator[i] \in Nat /\ seq_separator[i + 1] \in Nat
  BY PlaceBounds
<1>2. request_idx(q) = i
  <2> DEFINE S == {j \in 0 .. LastReq : seq_separator[j] <= q}
  <2>1. i \in S /\ S \subseteq Int
    BY <1>1
  <2>2. ASSUME NEW j \in S PROVE j <= i
    <3>1. j \in 0 .. LastReq /\ j \in 0 .. num_requests /\ seq_separator[j] <= q
      BY <1>1 DEF LastReq
    <3>2. i < j => seq_separator[i + 1] <= seq_separator[j]
      BY <1>1, <3>1, SeparatorsGrow
    <3>3. seq_separator[j] \in Nat
      BY <3>1, SeparatorTypes
    <3> QED BY <1>1, <3>1, <3>2, <3>3
  <2>3. request_idx(q) = SetMax(S)
    BY DEF request_idx
  <2> HIDE DEF S
  <2> QED BY <2>1, <2>2, <2>3, SetMaxIs
<1>3. q - seq_separator[i] = k
  BY <1>1
<1>4. relative_row(q) = k + cache_offset(i)
  BY <1>2, <1>3 DEF relative_row
<1>5. InputRow(q) = <<Req(i), fed[Req(i)] + k + 1>>
  <2> DEFINE c == CHOOSE j \in 0 .. LastReq : seq_separator[j] <= q /\ q < seq_separator[j + 1]
  <2>1. c \in 0 .. LastReq /\ seq_separator[c] <= q /\ q < seq_separator[c + 1]
    BY <1>1
  <2>2. InputRow(q) = <<Req(c), fed[Req(c)] + q - seq_separator[c] + 1>>
    BY DEF InputRow
  <2> HIDE DEF c
  <2>3. c = i
    BY <2>1, OnePlaceOnly
  <2>4. InputRow(q) = <<Req(i), fed[Req(i)] + q - seq_separator[i] + 1>>
    BY <2>2, <2>3
  <2>5. Req(i) \in Requests
    BY <1>1, SeparatorSteps
  <2>6. PICK f \in Nat : f = fed[Req(i)]
    BY <2>5
  <2>7. f + q - seq_separator[i] + 1 = f + k + 1
    BY <1>1, <2>6
  <2> QED BY <2>4, <2>6, <2>7
<1> QED
  BY <1>2, <1>4, <1>5

-----------------------------------------------------------------------------
(* The invariant.  CacheHoldsHistory says nothing of the requests of a call *)
(* in progress, so it is not inductive: that their old rows are still in    *)
(* place, at the positions their longer tables give them, is.               *)

(* bind_request_meta has counted the tokens of r.                           *)
Entered(r) == \E i \in 1 .. cur : batch[i] = r

(* kv_len counts the tokens fed, and those about to be.                     *)
FedCounts ==
  /\ fed \in [Requests -> Nat]
  /\ \A r \in Requests \ broken :
       IF Entered(r)
         THEN /\ kv_len[r] = fed[r] + seq_len[r]
              /\ IF is_prefill_ THEN fed[r] = 0 ELSE seq_len[r] = 1
         ELSE kv_len[r] = fed[r]

Prompted ==
  /\ op = "idle" => batch = <<>>
  /\ \A i \in 1 .. Len(batch) : seq_len[batch[i]] \in SeqLens

(* The page and the slot of the n-th row of a request.                      *)
Block(n) == (n - 1) \div PageSize
SlotOf(n) == (n - 1) % PageSize
PageOf(l, r, n) == kv_pages[l][r][Block(n) + 1]

Stored(l, r, n) ==
  /\ Block(n) + 1 \in 1 .. Len(kv_pages[l][r])
  /\ mem[l][PageOf(l, r, n)][SlotOf(n)] = <<r, n>>

History ==
  \A l \in Layers, r \in Requests \ broken : \A n \in 1 .. fed[r] : Stored(l, r, n)

AInv == LimitInv /\ FedCounts /\ Prompted /\ History

LEMMA FilledBatch ==
  ASSUME AInv
  PROVE  Filled
BY RuntimeAssumption DEF AInv, LimitInv, CoverInv, Inv, TypeOK, Prompted, Filled

(* What bind_request_meta has established for a request of the batch.       *)
LEMMA BoundRequest ==
  ASSUME AInv, op = "bound", NEW i \in 0 .. LastReq
  PROVE  /\ Filled
         /\ Req(i) \in Requests /\ Req(i) \notin broken /\ Req(i) \in Range(batch)
         /\ fed[Req(i)] \in Nat /\ seq_len[Req(i)] \in Nat \ {0}
         /\ kv_len[Req(i)] = fed[Req(i)] + seq_len[Req(i)]
         /\ cache_offset(i) = fed[Req(i)]
         /\ \A k \in 0 .. seq_len[Req(i)] - 1 : KeysSeen(i, k) = fed[Req(i)] + k + 1
         /\ \A l \in Layers : /\ kv_pages[l][Req(i)] \in Seq(Pages(l))
                             /\ Len(kv_pages[l][Req(i)]) = PagesFor(kv_len[Req(i)])
<1> DEFINE r == Req(i)
<1>1. /\ CoverInv /\ batch \in Seq(Requests \ broken) /\ todo = {} /\ cur = Len(batch)
      /\ \A l \in Layers : kv_pages[l] \in [Requests -> Seq(Pages(l))]
  BY DEF AInv, LimitInv, CoverInv, Inv, TypeOK, Place
<1>2. Filled
  BY FilledBatch
<1>3. i + 1 \in 1 .. Len(batch) /\ Len(batch) \in Nat
  BY <1>1 DEF LastReq, num_requests
<1>4. r \in Requests /\ r \notin broken /\ r \in Range(batch)
  BY <1>1, <1>3 DEF Req, Range
<1>5. fed[r] \in Nat /\ seq_len[r] \in Nat \ {0}
  BY <1>2, <1>3, <1>4 DEF AInv, FedCounts, Filled, Req
<1>6. Entered(r)
  BY <1>1, <1>3 DEF Entered, Req
<1>7. kv_len[r] = fed[r] + seq_len[r] /\ (IF is_prefill_ THEN fed[r] = 0 ELSE seq_len[r] = 1)
  BY <1>4, <1>6 DEF AInv, FedCounts
<1>8. cache_offset(i) = fed[r]
  BY <1>5, <1>7 DEF cache_offset
<1>9. ASSUME NEW k \in 0 .. seq_len[r] - 1
      PROVE  KeysSeen(i, k) = fed[r] + k + 1
  BY <1>5, <1>7 DEF KeysSeen
<1>10. \A l \in Layers : kv_pages[l][r] \in Seq(Pages(l)) /\ Len(kv_pages[l][r]) = PagesFor(kv_len[r])
  BY <1>1, <1>4, Settled
<1> QED
  BY <1>2, <1>4, <1>5, <1>7, <1>8, <1>9, <1>10

-----------------------------------------------------------------------------
(* The block table.                                                         *)

(* It has a column for every page of every request of the batch.            *)
LEMMA MaxBlocksType ==
  ASSUME AInv, op = "bound", NEW l \in Layers, NEW i \in 0 .. LastReq
  PROVE  max_blocks(l) \in Nat /\ Len(kv_pages[l][Req(i)]) <= max_blocks(l)
<1> DEFINE S == {Len(kv_pages[l][Req(j)]) : j \in 0 .. LastReq}
           b == PagesFor(MaxLen[l])
<1>1. b \in Nat
  BY PoolPagesType
<1>2. \A j \in 0 .. LastReq : Len(kv_pages[l][Req(j)]) \in Nat
  BY BoundRequest
<1>3. \A j \in 0 .. LastReq : Len(kv_pages[l][Req(j)]) <= b
  BY BoundRequest DEF AInv, LimitInv, TablesFit
<1>4. S \in SUBSET Nat /\ S # {} /\ \A m \in S : m <= b
  BY <1>2, <1>3
<1>5. max_blocks(l) = SetMax(S)
  BY DEF max_blocks
<1>6. Len(kv_pages[l][Req(i)]) \in S
  OBVIOUS
<1> HIDE DEF S, b
<1>7. PICK m \in S : \A n \in S : n <= m
  BY <1>1, <1>4, GreatestNumber
<1>8. S \subseteq Int
  BY <1>4
<1>9. SetMax(S) = m
  BY <1>7, <1>8, SetMaxIs
<1> QED
  BY <1>4, <1>5, <1>6, <1>7, <1>9

(* An entry within the pages of a request is that page; what is in the rest *)
(* of its row does not matter.                                              *)
LEMMA TableEntry ==
  ASSUME AInv, op = "bound", NEW l \in Layers, NEW junk, NEW i \in 0 .. LastReq,
         NEW b \in Nat, b < Len(kv_pages[l][Req(i)])
  PROVE  block_table(l, junk)[TableIndex(l, i, b)] = kv_pages[l][Req(i)][b + 1]
<1> DEFINE m == max_blocks(l)
           n == num_requests
           e == i * m + b
           entry(x) == LET j == x \div m
                           c == x % m
                           table == kv_pages[l][Req(j)]
                       IN  IF c < Len(table) THEN table[c + 1] ELSE junk
<1>1. m \in Nat /\ Len(kv_pages[l][Req(i)]) <= m /\ Len(kv_pages[l][Req(i)]) \in Nat
  BY MaxBlocksType, BoundRequest
<1>2. b \in 0 .. m - 1 /\ i \in Nat /\ n \in Nat /\ i < n
  <2>1. n \in Nat
    BY BoundRequest DEF Filled, num_requests
  <2> HIDE DEF m
  <2> QED BY <1>1, <2>1 DEF LastReq
<1>3. block_table(l, junk) = [x \in 0 .. n * m - 1 |-> entry(x)]
  BY DEF block_table
<1>4. TableIndex(l, i, b) = e
  BY DEF TableIndex
<1> HIDE DEF m, n
<1>5. e \div m = i /\ e % m = b
  BY <1>1, <1>2, RowAndColumn
<1>6. e \in 0 .. n * m - 1
  <2>1. n = i + 1 + (n - i - 1) /\ n - i - 1 \in Nat
    BY <1>2
  <2>2. (n - i - 1) * m \in Nat /\ i * m \in Nat /\ n * m \in Nat
    BY <1>1, <1>2, <2>1
  <2>3. n * m = i * m + m + (n - i - 1) * m
    BY <1>1, <1>2
  <2> QED BY <1>1, <1>2, <2>2, <2>3
<1> HIDE DEF e
<1>7. entry(e) = kv_pages[l][Req(i)][b + 1]
  BY <1>5
<1> HIDE DEF entry
<1>8. block_table(l, junk)[e] = entry(e)
  BY <1>3, <1>6
<1> QED
  BY <1>4, <1>7, <1>8

(* Positions within tables.                                                 *)
LEMMA Positions ==
  ASSUME NEW n \in Nat \ {0}, NEW t \in Nat, n <= t * PageSize
  PROVE  /\ Block(n) \in Nat /\ Block(n) < t /\ Block(n) + 1 \in 1 .. t
         /\ SlotOf(n) \in Slots
         /\ n = Block(n) * PageSize + SlotOf(n) + 1
<1> DEFINE m == n - 1
<1>1. m \in Nat /\ m < t * PageSize /\ n = m + 1
  <2>1. t * PageSize \in Nat
    BY RuntimeAssumption
  <2> QED BY <2>1
<1> HIDE DEF m
<1>2. /\ m \div PageSize \in 0 .. t - 1 /\ m % PageSize \in Slots
      /\ m = (m \div PageSize) * PageSize + (m % PageSize)
  BY <1>1, PageAndSlot
<1>3. Block(n) = m \div PageSize /\ SlotOf(n) = m % PageSize
  BY DEF Block, SlotOf, m
<1>4. Block(n) \in 0 .. t - 1 /\ SlotOf(n) \in Slots /\ m = Block(n) * PageSize + SlotOf(n)
  BY <1>2, <1>3
<1>5. Block(n) * PageSize \in Nat /\ SlotOf(n) \in Nat
  BY <1>4, RuntimeAssumption DEF Slots
<1> QED
  BY <1>1, <1>4, <1>5

(* Positions of rows in pages: two rows never share one, for the tables     *)
(* share no page.                                                           *)
LEMMA RowsApart ==
  ASSUME Inv, NEW l \in Layers, NEW r1 \in Requests, NEW r2 \in Requests,
         NEW n1 \in Nat \ {0}, NEW n2 \in Nat \ {0},
         n1 <= Len(kv_pages[l][r1]) * PageSize, n2 <= Len(kv_pages[l][r2]) * PageSize,
         PageOf(l, r1, n1) = PageOf(l, r2, n2), SlotOf(n1) = SlotOf(n2)
  PROVE  r1 = r2 /\ n1 = n2
<1> DEFINE t1 == kv_pages[l][r1]
           t2 == kv_pages[l][r2]
<1>1. /\ kv_pages[l] \in [Requests -> Seq(Pages(l))]
      /\ t1 \in Seq(Pages(l)) /\ t2 \in Seq(Pages(l))
      /\ Len(t1) \in Nat /\ Len(t2) \in Nat
      /\ Unshared(free_list_[l], kv_pages[l])
  <2>1. kv_pages[l] \in [Requests -> Seq(Pages(l))]
    BY DEF Inv, TypeOK
  <2>2. Unshared(free_list_[l], kv_pages[l])
    BY DEF Inv, PagesPartitioned
  <2> QED BY <2>1, <2>2
<1>2. /\ Block(n1) + 1 \in 1 .. Len(t1) /\ n1 = Block(n1) * PageSize + SlotOf(n1) + 1
      /\ Block(n1) \in Nat
  BY <1>1, Positions
<1>3. /\ Block(n2) + 1 \in 1 .. Len(t2) /\ n2 = Block(n2) * PageSize + SlotOf(n2) + 1
      /\ Block(n2) \in Nat
  BY <1>1, Positions
<1>4. t1[Block(n1) + 1] = t2[Block(n2) + 1]
  BY DEF PageOf
<1>5. r1 = r2
  <2>1. t1[Block(n1) + 1] \in Range(t1) /\ t2[Block(n2) + 1] \in Range(t2)
    BY <1>1, <1>2, <1>3 DEF Range
  <2> HIDE DEF t1, t2
  <2>2. r1 # r2 => Range(t1) \cap Range(t2) = {}
    BY <1>1 DEF Unshared, t1, t2
  <2> QED BY <1>4, <2>1, <2>2
<1>6. Block(n1) + 1 = Block(n2) + 1
  <2>1. IsInjective(t1)
    BY <1>1 DEF Unshared
  <2>2. t1 = t2
    BY <1>5
  <2> HIDE DEF t1, t2
  <2> QED BY <1>1, <1>2, <1>3, <1>4, <2>1, <2>2, InjectiveByIndex
<1>7. Block(n1) = Block(n2)
  BY <1>2, <1>3, <1>6
<1> QED
  BY <1>2, <1>3, <1>5, <1>7

-----------------------------------------------------------------------------
(* What the device writes.                                                  *)

(* The n-th row of a request of the batch, old or new, is within its table. *)
LEMMA RowInTable ==
  ASSUME AInv, op = "bound", NEW l \in Layers, NEW junk, NEW i \in 0 .. LastReq,
         NEW n \in Nat \ {0}, n <= kv_len[Req(i)]
  PROVE  /\ n <= Len(kv_pages[l][Req(i)]) * PageSize
         /\ Block(n) + 1 \in 1 .. Len(kv_pages[l][Req(i)])
         /\ PageOf(l, Req(i), n) \in Pages(l) /\ SlotOf(n) \in Slots
         /\ block_table(l, junk)[TableIndex(l, i, Block(n))] = PageOf(l, Req(i), n)
<1> DEFINE t == kv_pages[l][Req(i)]
<1>1. /\ kv_len[Req(i)] \in Nat /\ t \in Seq(Pages(l)) /\ Len(t) = PagesFor(kv_len[Req(i)])
  BY BoundRequest
<1>2. /\ PagesFor(kv_len[Req(i)]) \in Nat
      /\ kv_len[Req(i)] <= PagesFor(kv_len[Req(i)]) * PageSize
  BY <1>1, PagesForBounds
<1>3. Len(t) \in Nat /\ kv_len[Req(i)] <= Len(t) * PageSize /\ Len(t) * PageSize \in Nat
  BY <1>1, <1>2, RuntimeAssumption
<1>4. n <= Len(t) * PageSize
  <2> HIDE DEF t
  <2> QED BY <1>1, <1>3
<1>5. Block(n) \in Nat /\ Block(n) < Len(t) /\ Block(n) + 1 \in 1 .. Len(t) /\ SlotOf(n) \in Slots
  <2> HIDE DEF t
  <2> QED BY <1>3, <1>4, Positions
<1>6. t[Block(n) + 1] \in Pages(l)
  <2> HIDE DEF t
  <2> QED BY <1>1, <1>5
<1>7. block_table(l, junk)[TableIndex(l, i, Block(n))] = t[Block(n) + 1]
  BY <1>5, TableEntry
<1> QED
  BY <1>4, <1>5, <1>6, <1>7 DEF PageOf

(* The k-th query of a request of the batch stores its next row but k, at   *)
(* that row's position.                                                     *)
LEMMA WriteSlotIs ==
  ASSUME AInv, op = "bound", NEW l \in Layers, NEW junk,
         NEW q, NEW i, NEW k, IsAt(q, i, k), NEW n, n = fed[Req(i)] + k + 1
  PROVE  /\ n \in Nat \ {0} /\ fed[Req(i)] < n /\ n <= kv_len[Req(i)]
         /\ InputRow(q) = <<Req(i), n>>
         /\ WriteSlot(l, junk, q) = <<PageOf(l, Req(i), n), SlotOf(n)>>
<1>1. i \in 0 .. LastReq /\ k \in 0 .. seq_len[Req(i)] - 1
  BY DEF IsAt
<1>2. /\ Filled /\ fed[Req(i)] \in Nat /\ seq_len[Req(i)] \in Nat
      /\ kv_len[Req(i)] = fed[Req(i)] + seq_len[Req(i)] /\ cache_offset(i) = fed[Req(i)]
  BY <1>1, BoundRequest
<1>3. n \in Nat \ {0} /\ fed[Req(i)] < n /\ n <= kv_len[Req(i)] /\ k + fed[Req(i)] = n - 1
  BY <1>1, <1>2
<1>4. /\ request_idx(q) = i /\ relative_row(q) = k + cache_offset(i)
      /\ InputRow(q) = <<Req(i), fed[Req(i)] + k + 1>>
  <2>1. fed \in [Requests -> Nat]
    BY DEF AInv, FedCounts
  <2> QED BY <1>2, <2>1, QueryAt
<1>5. relative_row(q) = n - 1
  BY <1>2, <1>3, <1>4
<1>6. WriteSlot(l, junk, q) =
        <<block_table(l, junk)[TableIndex(l, i, Block(n))], SlotOf(n)>>
  BY <1>4, <1>5 DEF WriteSlot, Block, SlotOf
<1>7. block_table(l, junk)[TableIndex(l, i, Block(n))] = PageOf(l, Req(i), n)
  BY <1>1, <1>3, RowInTable
<1> QED
  BY <1>3, <1>4, <1>6, <1>7

(* Requests of the batch are told apart by their numbers.                   *)
LEMMA ReqInjective ==
  ASSUME AInv, NEW i \in 0 .. LastReq, NEW j \in 0 .. LastReq, Req(i) = Req(j)
  PROVE  i = j
<1>1. batch \in Seq(Requests \ broken) /\ IsInjective(batch)
  BY DEF AInv, LimitInv, CoverInv, Inv, TypeOK
<1>2. i + 1 \in 1 .. Len(batch) /\ j + 1 \in 1 .. Len(batch) /\ batch[i + 1] = batch[j + 1]
  BY <1>1 DEF LastReq, num_requests, Req
<1>3. i + 1 = j + 1
  BY <1>1, <1>2, InjectiveByIndex
<1> QED
  BY <1>3

(* Two queries at one slot are one.                                         *)
LEMMA WritersApart ==
  ASSUME AInv, op = "bound", NEW l \in Layers, NEW junk,
         NEW q1 \in Queries, NEW q2 \in Queries,
         WriteSlot(l, junk, q1) = WriteSlot(l, junk, q2)
  PROVE  q1 = q2
<1>1. Filled
  BY FilledBatch
<1>2. PICK i, k : IsAt(q1, i, k)
  BY <1>1, QueryHasPlace
<1>3. PICK j, m : IsAt(q2, j, m)
  BY <1>1, QueryHasPlace
<1> DEFINE n1 == fed[Req(i)] + k + 1
           n2 == fed[Req(j)] + m + 1
<1>4. /\ n1 \in Nat \ {0} /\ n1 <= kv_len[Req(i)]
      /\ WriteSlot(l, junk, q1) = <<PageOf(l, Req(i), n1), SlotOf(n1)>>
  BY <1>2, WriteSlotIs
<1>5. /\ n2 \in Nat \ {0} /\ n2 <= kv_len[Req(j)]
      /\ WriteSlot(l, junk, q2) = <<PageOf(l, Req(j), n2), SlotOf(n2)>>
  BY <1>3, WriteSlotIs
<1>6. /\ i \in 0 .. LastReq /\ k \in Nat /\ q1 = seq_separator[i] + k
      /\ j \in 0 .. LastReq /\ m \in Nat /\ q2 = seq_separator[j] + m
  BY <1>1, <1>2, <1>3, PlaceBounds
<1>7. /\ Req(i) \in Requests /\ fed[Req(i)] \in Nat
      /\ Req(j) \in Requests /\ fed[Req(j)] \in Nat
  BY <1>6, BoundRequest
<1> HIDE DEF n1, n2
<1>8. PageOf(l, Req(i), n1) = PageOf(l, Req(j), n2) /\ SlotOf(n1) = SlotOf(n2)
  <2>1. <<PageOf(l, Req(i), n1), SlotOf(n1)>> = <<PageOf(l, Req(j), n2), SlotOf(n2)>>
    BY <1>4, <1>5, Zenon
  <2> QED BY <2>1
<1>9. /\ n1 <= Len(kv_pages[l][Req(i)]) * PageSize
      /\ n2 <= Len(kv_pages[l][Req(j)]) * PageSize
  BY <1>4, <1>5, <1>6, RowInTable
<1>10. Req(i) = Req(j) /\ n1 = n2
  <2>1. Inv
    BY DEF AInv, LimitInv, CoverInv
  <2> QED BY <1>4, <1>5, <1>7, <1>8, <1>9, <2>1, RowsApart
<1>11. i = j
  BY <1>6, <1>10, ReqInjective
<1>12. k = m
  BY <1>6, <1>7, <1>10, <1>11 DEF n1, n2
<1> QED
  BY <1>6, <1>11, <1>12

(* After the writes the new rows of the batch are in their places ...       *)
LEMMA NewRows ==
  ASSUME AInv, op = "bound", NEW l \in Layers, NEW junk, NEW i \in 0 .. LastReq,
         NEW n \in Nat, fed[Req(i)] < n, n <= kv_len[Req(i)]
  PROVE  AfterWrites(l, junk)[PageOf(l, Req(i), n)][SlotOf(n)] = <<Req(i), n>>
<1> DEFINE k == n - fed[Req(i)] - 1
           q == seq_separator[i] + k
           p == PageOf(l, Req(i), n)
           s == SlotOf(n)
           w == CHOOSE x \in Queries : WriteSlot(l, junk, x) = <<p, s>>
<1>1. /\ Filled /\ fed[Req(i)] \in Nat /\ seq_len[Req(i)] \in Nat
      /\ kv_len[Req(i)] = fed[Req(i)] + seq_len[Req(i)]
  BY BoundRequest
<1>2. k \in 0 .. seq_len[Req(i)] - 1 /\ n = fed[Req(i)] + k + 1 /\ n \in Nat \ {0}
  BY <1>1
<1>3. IsAt(q, i, k)
  BY <1>2 DEF IsAt
<1>4. p \in Pages(l) /\ s \in Slots
  BY <1>2, RowInTable
<1> HIDE DEF k, q, p, s
<1>5. q \in Queries
  BY <1>1, <1>3, PlaceIsQuery
<1>6. WriteSlot(l, junk, q) = <<p, s>> /\ InputRow(q) = <<Req(i), n>>
  BY <1>2, <1>3, WriteSlotIs DEF p, s
<1>7. w \in Queries /\ WriteSlot(l, junk, w) = <<p, s>>
  BY <1>5, <1>6
<1>8. AfterWrites(l, junk)[p][s] = InputRow(w)
  BY <1>4, <1>5, <1>6 DEF AfterWrites
<1> HIDE DEF w
<1>9. w = q
  BY <1>5, <1>6, <1>7, WritersApart
<1> QED
  BY <1>6, <1>8, <1>9 DEF p, s

(* ... and every other row of any request is as it was.                     *)
LEMMA OldRows ==
  ASSUME AInv, op = "bound", NEW l \in Layers, NEW junk,
         NEW r \in Requests, NEW n \in Nat \ {0}, n <= Len(kv_pages[l][r]) * PageSize,
         r \in Range(batch) => n <= fed[r]
  PROVE  AfterWrites(l, junk)[PageOf(l, r, n)][SlotOf(n)] = mem[l][PageOf(l, r, n)][SlotOf(n)]
<1> DEFINE p == PageOf(l, r, n)
           s == SlotOf(n)
<1>1. /\ Filled /\ Inv
      /\ kv_pages[l] \in [Requests -> Seq(Pages(l))]
  BY FilledBatch DEF AInv, LimitInv, CoverInv, Inv, TypeOK
<1>2. p \in Pages(l) /\ s \in Slots
  <2>1. kv_pages[l][r] \in Seq(Pages(l)) /\ Len(kv_pages[l][r]) \in Nat
    BY <1>1
  <2>2. Block(n) + 1 \in 1 .. Len(kv_pages[l][r]) /\ SlotOf(n) \in Slots
    BY <2>1, Positions
  <2> QED BY <2>1, <2>2 DEF PageOf
<1>3. ASSUME NEW q \in Queries, WriteSlot(l, junk, q) = <<p, s>> PROVE FALSE
  <2>1. PICK i, k : IsAt(q, i, k)
    BY <1>1, QueryHasPlace
  <2> DEFINE m == fed[Req(i)] + k + 1
  <2>2. /\ m \in Nat \ {0} /\ fed[Req(i)] < m /\ m <= kv_len[Req(i)]
        /\ WriteSlot(l, junk, q) = <<PageOf(l, Req(i), m), SlotOf(m)>>
    BY <2>1, WriteSlotIs
  <2> HIDE DEF m
  <2>3. i \in 0 .. LastReq
    BY <2>1 DEF IsAt
  <2>4. PageOf(l, Req(i), m) = PageOf(l, r, n) /\ SlotOf(m) = SlotOf(n)
    BY <1>3, <2>2
  <2>5. m <= Len(kv_pages[l][Req(i)]) * PageSize
    BY <2>2, <2>3, RowInTable
  <2>6. Req(i) \in Requests /\ Req(i) \in Range(batch) /\ fed[Req(i)] \in Nat
    BY <2>3, BoundRequest
  <2>7. Req(i) = r /\ m = n
    BY <1>1, <2>2, <2>4, <2>5, <2>6, RowsApart
  <2> QED BY <2>2, <2>6, <2>7
<1> HIDE DEF p, s
<1>4. AfterWrites(l, junk)[p][s] = mem[l][p][s]
  BY <1>2, <1>3 DEF AfterWrites
<1> QED
  BY <1>4 DEF p, s

(* So every row of the batch, old or new, is where attention looks for it.  *)
LEMMA WrittenRow ==
  ASSUME AInv, op = "bound", NEW l \in Layers, NEW junk, NEW i \in 0 .. LastReq,
         NEW n \in Nat \ {0}, n <= kv_len[Req(i)]
  PROVE  AfterWrites(l, junk)[PageOf(l, Req(i), n)][SlotOf(n)] = <<Req(i), n>>
<1>1. Req(i) \in Requests /\ Req(i) \notin broken /\ fed[Req(i)] \in Nat
  BY BoundRequest
<1>2. CASE fed[Req(i)] < n
  BY <1>2, NewRows
<1>3. CASE n <= fed[Req(i)]
  <2>1. Stored(l, Req(i), n)
    BY <1>1, <1>3 DEF AInv, History
  <2>2. n <= Len(kv_pages[l][Req(i)]) * PageSize
    BY RowInTable
  <2>3. AfterWrites(l, junk)[PageOf(l, Req(i), n)][SlotOf(n)] = mem[l][PageOf(l, Req(i), n)][SlotOf(n)]
    BY <1>1, <1>3, <2>2, OldRows
  <2> QED BY <2>1, <2>3 DEF Stored
<1> QED
  BY <1>1, <1>2, <1>3

(* The rows 1 to n of request r.                                            *)
RowsOf(r, n) == [m \in 1 .. n |-> <<r, m>>]

(* A query reads the rows of its request up to itself ...                   *)
LEMMA RowsReadIs ==
  ASSUME AInv, op = "bound", NEW l \in Layers, NEW junk, NEW i \in 0 .. LastReq,
         NEW k \in 0 .. seq_len[Req(i)] - 1
  PROVE  RowsRead(l, junk, i, k) = RowsOf(Req(i), fed[Req(i)] + k + 1)
<1> DEFINE written == AfterWrites(l, junk)
           table == block_table(l, junk)
           row(n) == written[table[TableIndex(l, i, (n - 1) \div PageSize)]][(n - 1) % PageSize]
           N == fed[Req(i)] + k + 1
<1>1. /\ fed[Req(i)] \in Nat /\ seq_len[Req(i)] \in Nat
      /\ kv_len[Req(i)] = fed[Req(i)] + seq_len[Req(i)] /\ KeysSeen(i, k) = N
  BY BoundRequest
<1>2. N \in Nat /\ N <= kv_len[Req(i)]
  BY <1>1
<1>3. RowsRead(l, junk, i, k) = [n \in 1 .. N |-> row(n)]
  BY <1>1 DEF RowsRead
<1>4. ASSUME NEW n \in 1 .. N PROVE row(n) = <<Req(i), n>>
  <2>1. n \in Nat \ {0} /\ n <= kv_len[Req(i)]
    BY <1>1, <1>2
  <2>2. row(n) = written[table[TableIndex(l, i, Block(n))]][SlotOf(n)]
    BY DEF Block, SlotOf
  <2> HIDE DEF written, table, row
  <2>3. table[TableIndex(l, i, Block(n))] = PageOf(l, Req(i), n)
    BY <2>1, RowInTable DEF table
  <2>4. written[PageOf(l, Req(i), n)][SlotOf(n)] = <<Req(i), n>>
    BY <2>1, WrittenRow DEF written
  <2> QED BY <2>2, <2>3, <2>4
<1> HIDE DEF row, N
<1>5. [n \in 1 .. N |-> row(n)] = [n \in 1 .. N |-> <<Req(i), n>>]
  BY <1>4
<1> QED
  BY <1>3, <1>5 DEF RowsOf, N

(* What a request's queries attend to.                                      *)
Attends(r) ==
  {<< <<r, n>>, RowsOf(r, n) >> : n \in fed[r] + 1 .. fed[r] + seq_len[r]}

(* ... and that is all that happens in a layer.                             *)
LEMMA AttentionIs ==
  ASSUME AInv, op = "bound", NEW l \in Layers, NEW junk
  PROVE  Attention(l, junk) = UNION {Attends(r) : r \in Range(batch)}
<1> DEFINE pair(i, k) == <<InputRow(seq_separator[i] + k), RowsRead(l, junk, i, k)>>
           Of(i) == {pair(i, k) : k \in 0 .. seq_len[Req(i)] - 1}
<1>1. Attention(l, junk) = UNION {Of(i) : i \in 0 .. LastReq}
  BY DEF Attention
<1>2. ASSUME NEW i \in 0 .. LastReq PROVE Of(i) = Attends(Req(i))
  <2>1. fed[Req(i)] \in Nat /\ seq_len[Req(i)] \in Nat
    BY BoundRequest
  <2> DEFINE f == fed[Req(i)]
             z == seq_len[Req(i)]
  <2>2. ASSUME NEW k \in 0 .. z - 1
        PROVE  pair(i, k) = << <<Req(i), f + k + 1>>, RowsOf(Req(i), f + k + 1) >>
    <3>1. IsAt(seq_separator[i] + k, i, k)
      BY DEF IsAt
    <3>2. InputRow(seq_separator[i] + k) = <<Req(i), f + k + 1>>
      BY <3>1, WriteSlotIs
    <3>3. RowsRead(l, junk, i, k) = RowsOf(Req(i), f + k + 1)
      BY RowsReadIs
    <3> QED BY <3>2, <3>3
  <2> HIDE DEF pair
  <2>3. Of(i) = {pair(i, k) : k \in 0 .. z - 1}
    OBVIOUS
  <2>4. Attends(Req(i)) = {<< <<Req(i), n>>, RowsOf(Req(i), n) >> : n \in f + 1 .. f + z}
    BY DEF Attends
  <2> HIDE DEF Of, f, z
  <2>5. f \in Nat /\ z \in Nat
    BY <2>1 DEF f, z
  <2>6. ASSUME NEW x \in Of(i) PROVE x \in Attends(Req(i))
    <3>1. PICK k \in 0 .. z - 1 : x = pair(i, k)
      BY <2>3
    <3>2. PICK n : n = f + k + 1
      OBVIOUS
    <3>3. n \in f + 1 .. f + z
      BY <2>5, <3>2
    <3>4. x = << <<Req(i), n>>, RowsOf(Req(i), n) >>
      BY <2>2, <3>1, <3>2
    <3> QED BY <2>4, <3>3, <3>4
  <2>7. ASSUME NEW x \in Attends(Req(i)) PROVE x \in Of(i)
    <3>1. PICK n \in f + 1 .. f + z : x = << <<Req(i), n>>, RowsOf(Req(i), n) >>
      BY <2>4
    <3>2. PICK k : k = n - f - 1
      OBVIOUS
    <3>3. k \in 0 .. z - 1 /\ n = f + k + 1
      BY <2>5, <3>2
    <3>4. x = pair(i, k)
      BY <2>2, <3>1, <3>3
    <3> QED BY <2>3, <3>3, <3>4
  <2> QED BY <2>6, <2>7
<1> HIDE DEF Of
<1>3. {Attends(Req(i)) : i \in 0 .. LastReq} = {Attends(r) : r \in Range(batch)}
  <2>1. \A i \in 0 .. LastReq : Req(i) \in Range(batch)
    BY BoundRequest
  <2>2. ASSUME NEW r \in Range(batch) PROVE \E i \in 0 .. LastReq : Req(i) = r
    <3>1. batch \in Seq(Requests \ broken)
      BY DEF AInv, LimitInv, CoverInv, Inv, TypeOK
    <3>2. PICK j \in 1 .. Len(batch) : batch[j] = r
      BY <3>1, InRange
    <3>3. j - 1 \in 0 .. LastReq /\ (j - 1) + 1 = j
      BY <3>1 DEF LastReq, num_requests
    <3>4. Req(j - 1) = r
      BY <3>2, <3>3 DEF Req
    <3> QED BY <3>3, <3>4
  <2> QED BY <2>1, <2>2
<1>4. {Of(i) : i \in 0 .. LastReq} = {Attends(Req(i)) : i \in 0 .. LastReq}
  BY <1>2
<1> QED
  BY <1>1, <1>3, <1>4

-----------------------------------------------------------------------------
(* The invariant is kept.                                                   *)

LEMMA InitA == AInit => AInv
<1> SUFFICES ASSUME AInit PROVE AInv
  OBVIOUS
<1>1. Init /\ fed = [r \in Requests |-> 0] /\ batch = <<>> /\ cur = 0
      /\ kv_len = [r \in Requests |-> 0] /\ Len(batch) = 0
  BY DEF AInit, Init
<1>2. LimitInv
  BY <1>1, InitLimit
<1>3. FedCounts
  <2>1. \A r : ~Entered(r)
    BY <1>1 DEF Entered
  <2> QED BY <1>1, <2>1 DEF FedCounts
<1>4. Prompted
  BY <1>1 DEF Prompted
<1>5. History
  <2>1. \A r \in Requests : fed[r] = 0 /\ 1 .. 0 = {}
    BY <1>1
  <2> QED BY <2>1 DEF History
<1> QED
  BY <1>2, <1>3, <1>4, <1>5 DEF AInv

(* The requests entered are in the batch.                                   *)
LEMMA EnteredInBatch ==
  ASSUME Inv, NEW r, Entered(r)
  PROVE  r \in Range(batch)
<1>1. batch \in Seq(Requests \ broken) /\ cur \in 0 .. Len(batch)
  BY DEF Inv, TypeOK
<1> QED
  BY <1>1, InRange DEF Entered

(* The counts, through the steps of the bookkeeping.                        *)
LEMMA EnterCounts ==
  ASSUME AInv, EnterMeta, UNCHANGED fed
  PROVE  FedCounts'
<1>0. PICK q : q = batch[cur + 1]
  OBVIOUS
<1>1. /\ op = "bind" /\ todo = {} /\ cur < Len(batch) /\ MetaOK(q)
      /\ kv_len' = [kv_len EXCEPT ![q] = NewKvLen(q)]
      /\ cur' = cur + 1
      /\ UNCHANGED <<is_prefill_, seq_len, batch, broken>>
  BY <1>0 DEF EnterMeta
<1>2. /\ cur \in Nat /\ cur + 1 \in 1 .. Len(batch) /\ Len(batch) \in Nat
      /\ q \in Requests \ broken /\ kv_len \in [Requests -> Nat]
      /\ batch \in Seq(Requests \ broken) /\ IsInjective(batch)
  BY <1>0, <1>1 DEF AInv, LimitInv, CoverInv, Inv, TypeOK
<1>3. ~Entered(q)
  <2>1. \A i \in 1 .. cur : batch[i] = q => i = cur + 1
    BY <1>0, <1>2, InjectiveByIndex
  <2> QED BY <1>2, <2>1 DEF Entered
<1>4. Entered(q)'
  <2>1. cur + 1 \in 1 .. cur' /\ batch'[cur + 1] = q
    BY <1>0, <1>1, <1>2
  <2> QED BY <2>1 DEF Entered
<1>5. kv_len[q] = fed[q] /\ fed[q] \in Nat /\ fed \in [Requests -> Nat]
  BY <1>2, <1>3 DEF AInv, FedCounts
<1>6. seq_len[q] \in Nat
  BY <1>0, <1>2, RuntimeAssumption DEF AInv, Prompted
<1>7. kv_len'[q] = fed[q] + seq_len[q] /\ IF is_prefill_ THEN fed[q] = 0 ELSE seq_len[q] = 1
  <2>1. kv_len'[q] = NewKvLen(q)
    BY <1>1, <1>2
  <2> QED BY <1>1, <1>5, <1>6, <2>1 DEF MetaOK, NewKvLen
<1>8. ASSUME NEW r \in Requests \ broken, r # q
      PROVE  Entered(r)' <=> Entered(r)
  <2>1. Entered(r)' <=> \E i \in 1 .. cur + 1 : batch[i] = r
    BY <1>1 DEF Entered
  <2>2. batch[cur + 1] # r
    BY <1>0, <1>8
  <2>3. \A i \in 1 .. cur + 1 : i \in 1 .. cur \/ i = cur + 1
    BY <1>2
  <2>4. \A i \in 1 .. cur : i \in 1 .. cur + 1
    BY <1>2
  <2> QED BY <2>1, <2>2, <2>3, <2>4 DEF Entered
<1>9. \A r \in Requests \ {q} : kv_len'[r] = kv_len[r]
  BY <1>1, <1>2
<1> SUFFICES ASSUME NEW r \in Requests \ broken
             PROVE  IF Entered(r)'
                      THEN /\ kv_len'[r] = fed[r] + seq_len[r]
                           /\ IF is_prefill_ THEN fed[r] = 0 ELSE seq_len[r] = 1
                      ELSE kv_len'[r] = fed[r]
  BY <1>1, <1>5 DEF FedCounts
<1>10. CASE r = q
  BY <1>4, <1>7, <1>10
<1>11. CASE r # q
  <2>1. kv_len'[r] = kv_len[r]
    BY <1>9, <1>11
  <2> QED BY <1>8, <1>11, <2>1 DEF AInv, FedCounts
<1> QED
  BY <1>10, <1>11

(* When a call ends no request is entered.                                  *)
LEMMA NoneEntered ==
  ASSUME fed' \in [Requests -> Nat], cur' = 0,
         \A r \in Requests \ broken' : kv_len'[r] = fed'[r]
  PROVE  FedCounts'
<1>1. \A r : ~Entered(r)'
  BY DEF Entered
<1> QED
  BY <1>1 DEF FedCounts

LEMMA AbortCounts ==
  ASSUME AInv, Abort, UNCHANGED fed
  PROVE  FedCounts' /\ Prompted'
<1>1. /\ op' = "idle" /\ batch' = <<>> /\ cur' = 0 /\ broken' = broken \cup Range(batch)
      /\ UNCHANGED kv_len
  BY DEF Abort
<1>2. Inv /\ fed \in [Requests -> Nat]
  BY DEF AInv, LimitInv, CoverInv, FedCounts
<1>3. \A r \in Requests \ broken' : kv_len'[r] = fed'[r]
  BY <1>1, <1>2, EnteredInBatch DEF AInv, FedCounts
<1>4. Len(batch') = 0
  BY <1>1
<1> QED
  BY <1>1, <1>2, <1>3, <1>4, NoneEntered DEF Prompted

LEMMA ExecuteCounts ==
  ASSUME AInv, Execute,
         fed' = [r \in Requests |-> IF r \in Range(batch) THEN fed[r] + seq_len[r] ELSE fed[r]]
  PROVE  FedCounts' /\ Prompted'
<1>1. /\ op = "bound" /\ op' = "idle" /\ batch' = <<>> /\ cur' = 0
      /\ UNCHANGED <<kv_len, broken>>
  BY DEF Execute
<1>2. /\ Inv /\ cur = Len(batch) /\ batch \in Seq(Requests \ broken)
      /\ fed \in [Requests -> Nat] /\ seq_len \in [Requests -> Nat]
  BY <1>1 DEF AInv, LimitInv, CoverInv, Inv, TypeOK, FedCounts, Place
<1>3. fed' \in [Requests -> Nat]
  BY <1>2
<1>4. \A r \in Requests \ broken' : kv_len'[r] = fed'[r]
  <2> SUFFICES ASSUME NEW r \in Requests \ broken
               PROVE  kv_len[r] = fed'[r]
    BY <1>1
  <2>1. Entered(r) <=> r \in Range(batch)
    BY <1>2, InRange DEF Entered
  <2> QED BY <2>1 DEF AInv, FedCounts
<1>5. Len(batch') = 0
  BY <1>1
<1> QED
  BY <1>1, <1>3, <1>4, <1>5, NoneEntered DEF Prompted

LEMMA DestroyCounts ==
  ASSUME AInv, NEW d \in Requests, Destroy(d), fed' = [fed EXCEPT ![d] = 0]
  PROVE  FedCounts' /\ Prompted'
<1>1. /\ op = "idle" /\ kv_len' = [kv_len EXCEPT ![d] = 0] /\ broken' = broken \ {d}
      /\ UNCHANGED <<op, batch, cur>>
  BY DEF Destroy, callVars
<1>2. /\ cur = 0 /\ batch = <<>> /\ kv_len \in [Requests -> Nat] /\ fed \in [Requests -> Nat]
  BY <1>1 DEF AInv, LimitInv, CoverInv, Inv, TypeOK, FedCounts, Place, Prompted
<1>3. \A r : ~Entered(r)
  BY <1>2 DEF Entered
<1>4. \A r \in Requests \ broken' : kv_len'[r] = fed'[r]
  <2> SUFFICES ASSUME NEW r \in Requests \ broken'
               PROVE  kv_len'[r] = fed'[r]
    OBVIOUS
  <2>1. CASE r = d
    BY <1>1, <1>2, <2>1
  <2>2. CASE r # d
    <3>1. r \notin broken /\ kv_len'[r] = kv_len[r] /\ fed'[r] = fed[r]
      BY <1>1, <1>2, <2>2
    <3> QED BY <1>3, <3>1 DEF AInv, FedCounts
  <2> QED BY <2>1, <2>2
<1>5. fed' \in [Requests -> Nat] /\ cur' = 0 /\ Len(batch') = 0
  BY <1>1, <1>2
<1> QED
  BY <1>1, <1>2, <1>4, <1>5, NoneEntered DEF Prompted

LEMMA BookkeepingCounts ==
  ASSUME AInv, Bookkeeping, UNCHANGED fed
  PROVE  FedCounts' /\ Prompted'
<1>0. op = "idle" => cur = 0 /\ batch = <<>>
  BY DEF AInv, LimitInv, CoverInv, Place, Prompted
<1>1. CASE SetPrefill
  <2>1. /\ op = "idle" /\ UNCHANGED <<seq_len, kv_len, op, batch, cur, broken>>
    BY <1>1 DEF SetPrefill, callVars
  <2>2. \A r : ~Entered(r)
    BY <1>0, <2>1 DEF Entered
  <2>3. fed' \in [Requests -> Nat] /\ \A r \in Requests \ broken' : kv_len'[r] = fed'[r]
    BY <2>1, <2>2 DEF AInv, FedCounts
  <2> QED BY <1>0, <2>1, <2>3, NoneEntered DEF AInv, Prompted
<1>2. ASSUME NEW b \in Batches, NEW lens \in [Range(b) -> SeqLens], Bind(b, lens)
      PROVE  FedCounts' /\ Prompted'
  <2>1. /\ op = "idle" /\ op' = "bind" /\ batch' = b /\ cur' = 0
        /\ seq_len' = [r \in Requests |-> IF r \in Range(b) THEN lens[r] ELSE seq_len[r]]
        /\ UNCHANGED <<kv_len, broken>>
    BY <1>2 DEF Bind
  <2>2. \A r : ~Entered(r)
    BY <1>0, <2>1 DEF Entered
  <2>3. fed' \in [Requests -> Nat] /\ \A r \in Requests \ broken' : kv_len'[r] = fed'[r]
    BY <2>1, <2>2 DEF AInv, FedCounts
  <2>4. b \in Seq(Requests \ broken)
    BY BatchesType
  <2>5. \A i \in 1 .. Len(b) : b[i] \in Range(b) /\ b[i] \in Requests
    BY <2>4, InRange
  <2>6. \A i \in 1 .. Len(b) : seq_len'[b[i]] \in SeqLens
    BY <2>1, <2>5
  <2> QED BY <2>1, <2>3, <2>6, NoneEntered DEF Prompted
<1>3. CASE EnterMeta
  <2>1. UNCHANGED <<op, batch, seq_len>>
    BY <1>3 DEF EnterMeta
  <2> QED BY <1>3, <2>1, EnterCounts DEF AInv, Prompted
<1>4. CASE UNCHANGED <<is_prefill_, seq_len, kv_len, batch, cur, broken>> /\ op # "idle" /\ op' # "idle"
  BY <1>4 DEF AInv, FedCounts, Prompted, Entered
<1>5. CASE Abort
  BY <1>5, AbortCounts
<1>6. ASSUME NEW l \in Layers, VisitLayer(l)
      PROVE  UNCHANGED <<is_prefill_, seq_len, kv_len, batch, cur, broken>> /\ op # "idle" /\ op' # "idle"
  BY <1>6 DEF VisitLayer
<1>7. CASE Publish
  BY <1>4, <1>7 DEF Publish
<1> QED
  BY <1>1, <1>2, <1>3, <1>4, <1>5, <1>6, <1>7
  DEF Bookkeeping, TooLongThrows, ExhaustedThrows, MetaThrows

(* A stored row is within its table.                                        *)
LEMMA StoredFits ==
  ASSUME NEW n \in Nat \ {0}, NEW t \in Nat, Block(n) + 1 \in 1 .. t
  PROVE  n <= t * PageSize
<1>1. PageSize \in Nat /\ PageSize > 0
  BY RuntimeAssumption
<1> DEFINE m == n - 1
           d == m \div PageSize
           c == m % PageSize
<1>2. m \in Nat /\ n = m + 1
  OBVIOUS
<1>3. d \in Int /\ c \in 0 .. PageSize - 1 /\ m = PageSize * d + c
  BY <1>1, <1>2
<1>4. d + 1 \in 1 .. t
  BY DEF Block
<1> HIDE DEF m, d, c
<1>5. t = d + 1 + (t - d - 1) /\ t - d - 1 \in Nat
  BY <1>3, <1>4
<1>6. (t - d - 1) * PageSize \in Nat /\ PageSize * d \in Int
  BY <1>1, <1>3, <1>5
<1>7. t * PageSize = PageSize * d + PageSize + (t - d - 1) * PageSize
  BY <1>1, <1>3
<1> QED
  BY <1>1, <1>2, <1>3, <1>6, <1>7

(* The history, through the steps.                                          *)
LEMMA SameHistory ==
  ASSUME History, UNCHANGED <<mem, fed, kv_pages>>, broken \subseteq broken'
  PROVE  History'
<1> SUFFICES ASSUME NEW l \in Layers, NEW r \in Requests \ broken, NEW n \in 1 .. fed[r]
             PROVE  Stored(l, r, n)'
  BY DEF History
<1>1. Stored(l, r, n)
  BY DEF History
<1> QED
  BY <1>1 DEF Stored, PageOf, Block, SlotOf

(* A table only grows.                                                      *)
LEMMA VisitExtends ==
  ASSUME Inv, NEW l \in Layers, VisitLayer(l), NEW m \in Layers, NEW r \in Requests,
         NEW x \in 1 .. Len(kv_pages[m][r])
  PROVE  x \in 1 .. Len(kv_pages'[m][r]) /\ kv_pages'[m][r][x] = kv_pages[m][r][x]
<1> DEFINE q == batch[cur]
           n == PagesNeeded(l, q)
           new == Popped(free_list_[l], n)
<1>1. /\ DOMAIN kv_pages = Layers /\ \A k \in Layers : kv_pages[k] \in [Requests -> Seq(Pages(k))]
      /\ free_list_[l] \in Seq(Pages(l)) /\ q \in Requests /\ kv_len[q] \in Nat
  BY DEF VisitLayer, Inv, TypeOK
<1>2. n \in Nat
  BY <1>1, PagesForBounds DEF PagesNeeded
<1>3. /\ n <= Len(free_list_[l])
      /\ kv_pages' = [kv_pages EXCEPT ![l] = [kv_pages[l] EXCEPT ![q] = kv_pages[l][q] \o new]]
  BY DEF VisitLayer, CanAllocate
<1> HIDE DEF n, q
<1>4. new \in Seq(Pages(l))
  BY <1>1, <1>2, <1>3, AllocateSplits
<1> HIDE DEF new
<1>5. CASE m = l /\ r = q
  <2> DEFINE old == kv_pages[l][q]
  <2>1. old \in Seq(Pages(l))
    BY <1>1
  <2>2. kv_pages'[m][r] = old \o new
    BY <1>1, <1>3, <1>5
  <2>3. x \in 1 .. Len(old) /\ kv_pages[m][r] = old
    BY <1>5
  <2> HIDE DEF old
  <2>4. x \in 1 .. Len(old \o new) /\ (old \o new)[x] = old[x]
    BY <1>4, <2>1, <2>3
  <2> QED BY <2>2, <2>3, <2>4
<1>6. CASE ~(m = l /\ r = q)
  <2>1. kv_pages'[m][r] = kv_pages[m][r]
    BY <1>1, <1>3, <1>6
  <2> QED BY <2>1
<1> QED
  BY <1>5, <1>6

LEMMA VisitHistory ==
  ASSUME AInv, NEW m \in Layers, VisitLayer(m), UNCHANGED <<mem, fed>>
  PROVE  History'
<1>1. Inv /\ UNCHANGED broken
  BY DEF AInv, LimitInv, CoverInv, VisitLayer
<1> SUFFICES ASSUME NEW l \in Layers, NEW r \in Requests \ broken, NEW n \in 1 .. fed[r]
             PROVE  Stored(l, r, n)'
  BY <1>1 DEF History
<1>2. /\ Block(n) + 1 \in 1 .. Len(kv_pages[l][r])
      /\ mem[l][PageOf(l, r, n)][SlotOf(n)] = <<r, n>>
  BY DEF AInv, History, Stored
<1>3. /\ Block(n) + 1 \in 1 .. Len(kv_pages'[l][r])
      /\ kv_pages'[l][r][Block(n) + 1] = kv_pages[l][r][Block(n) + 1]
  BY <1>1, <1>2, VisitExtends
<1> QED
  BY <1>2, <1>3 DEF Stored, PageOf, Block, SlotOf

LEMMA BookkeepingHistory ==
  ASSUME AInv, Bookkeeping, UNCHANGED <<mem, fed>>
  PROVE  History'
<1>1. CASE UNCHANGED kv_pages /\ broken \subseteq broken'
  BY <1>1, SameHistory DEF AInv
<1>2. ASSUME NEW l \in Layers, VisitLayer(l) PROVE History'
  BY <1>2, VisitHistory
<1>3. \/ UNCHANGED kv_pages /\ broken \subseteq broken'
      \/ \E l \in Layers : VisitLayer(l)
  BY DEF Bookkeeping, SetPrefill, Bind, EnterMeta, TooLongThrows, ExhaustedThrows,
         MetaThrows, Abort, Publish
<1> QED
  BY <1>1, <1>2, <1>3

(* A row of a request outside the batch stays where it is when a layer      *)
(* runs, and so it does when the layer does not.                            *)
LEMMA OthersKept ==
  ASSUME AInv, op = "bound", NEW l \in Layers, NEW junk,
         NEW r \in Requests \ broken, r \notin Range(batch), NEW n \in 1 .. fed[r]
  PROVE  /\ Block(n) + 1 \in 1 .. Len(kv_pages[l][r])
         /\ mem[l][PageOf(l, r, n)][SlotOf(n)] = <<r, n>>
         /\ AfterWrites(l, junk)[PageOf(l, r, n)][SlotOf(n)] = <<r, n>>
<1>1. fed[r] \in Nat /\ Len(kv_pages[l][r]) \in Nat
  BY DEF AInv, FedCounts, LimitInv, CoverInv, Inv, TypeOK
<1>2. n \in Nat \ {0}
  BY <1>1
<1>3. /\ Block(n) + 1 \in 1 .. Len(kv_pages[l][r])
      /\ mem[l][PageOf(l, r, n)][SlotOf(n)] = <<r, n>>
  BY DEF AInv, History, Stored
<1>4. n <= Len(kv_pages[l][r]) * PageSize
  BY <1>1, <1>2, <1>3, StoredFits
<1>5. AfterWrites(l, junk)[PageOf(l, r, n)][SlotOf(n)] = mem[l][PageOf(l, r, n)][SlotOf(n)]
  BY <1>2, <1>4, OldRows
<1> QED
  BY <1>3, <1>5

(* A request of the batch is its i-th for some i.                           *)
LEMMA InBatch ==
  ASSUME AInv, NEW r \in Range(batch)
  PROVE  \E i \in 0 .. LastReq : Req(i) = r
<1>1. batch \in Seq(Requests \ broken)
  BY DEF AInv, LimitInv, CoverInv, Inv, TypeOK
<1>2. PICK j \in 1 .. Len(batch) : batch[j] = r
  BY <1>1, InRange
<1>3. j - 1 \in 0 .. LastReq /\ (j - 1) + 1 = j
  BY <1>1 DEF LastReq, num_requests
<1>4. Req(j - 1) = r
  BY <1>2, <1>3 DEF Req
<1> QED
  BY <1>3, <1>4

LEMMA ExecuteHistory ==
  ASSUME AInv, AExecute
  PROVE  History'
<1>1. PICK junk : mem' = [l \in Layers |-> AfterWrites(l, junk[l])]
  BY DEF AExecute
<1>2. /\ op = "bound" /\ UNCHANGED <<kv_pages, broken>>
      /\ fed' = [r \in Requests |-> IF r \in Range(batch) THEN fed[r] + seq_len[r] ELSE fed[r]]
  BY DEF AExecute, Execute
<1> SUFFICES ASSUME NEW l \in Layers, NEW r \in Requests \ broken, NEW n \in 1 .. fed'[r]
             PROVE  Stored(l, r, n)'
  BY <1>2 DEF History
<1>3. mem'[l] = AfterWrites(l, junk[l])
  BY <1>1
<1>4. /\ Block(n) + 1 \in 1 .. Len(kv_pages[l][r])
      /\ AfterWrites(l, junk[l])[PageOf(l, r, n)][SlotOf(n)] = <<r, n>>
  <2>1. CASE r \in Range(batch)
    <3>1. PICK i \in 0 .. LastReq : Req(i) = r
      BY <2>1, InBatch
    <3>2. /\ fed[Req(i)] \in Nat /\ seq_len[Req(i)] \in Nat
          /\ kv_len[Req(i)] = fed[Req(i)] + seq_len[Req(i)]
      BY <1>2, BoundRequest
    <3>3. n \in 1 .. fed[r] + seq_len[r]
      BY <1>2, <2>1
    <3>4. n \in Nat \ {0} /\ n <= kv_len[Req(i)]
      BY <3>1, <3>2, <3>3
    <3>5. Block(n) + 1 \in 1 .. Len(kv_pages[l][Req(i)])
      BY <1>2, <3>4, RowInTable
    <3>6. AfterWrites(l, junk[l])[PageOf(l, Req(i), n)][SlotOf(n)] = <<Req(i), n>>
      BY <1>2, <3>4, WrittenRow
    <3> QED BY <3>1, <3>5, <3>6
  <2>2. CASE r \notin Range(batch)
    <3>1. n \in 1 .. fed[r]
      BY <1>2, <2>2
    <3> QED BY <1>2, <2>2, <3>1, OthersKept
  <2> QED BY <2>1, <2>2
<1> QED
  BY <1>2, <1>3, <1>4 DEF Stored, PageOf, Block, SlotOf

LEMMA ExecuteThrowsHistory ==
  ASSUME AInv, AExecuteThrows
  PROVE  History'
<1>1. PICK done : mem' = [l \in Layers |-> IF l \in done THEN AfterWrites(l, 0) ELSE mem[l]]
  BY DEF AExecuteThrows
<1>2. op = "bound" /\ UNCHANGED <<kv_pages, fed>> /\ broken' = broken \cup Range(batch)
  BY DEF AExecuteThrows, ExecuteThrows, Abort
<1> SUFFICES ASSUME NEW l \in Layers, NEW r \in Requests \ broken, r \notin Range(batch),
                    NEW n \in 1 .. fed[r]
             PROVE  Stored(l, r, n)'
  BY <1>2 DEF History
<1>3. /\ Block(n) + 1 \in 1 .. Len(kv_pages[l][r])
      /\ mem[l][PageOf(l, r, n)][SlotOf(n)] = <<r, n>>
      /\ AfterWrites(l, 0)[PageOf(l, r, n)][SlotOf(n)] = <<r, n>>
  BY <1>2, OthersKept
<1>4. mem'[l] = AfterWrites(l, 0) \/ mem'[l] = mem[l]
  BY <1>1
<1> QED
  BY <1>2, <1>3, <1>4 DEF Stored, PageOf, Block, SlotOf

LEMMA DestroyHistory ==
  ASSUME AInv, NEW d \in Requests, ADestroy(d)
  PROVE  History'
<1>1. /\ kv_pages' = [l \in Layers |-> [kv_pages[l] EXCEPT ![d] = <<>>]]
      /\ broken' = broken \ {d} /\ fed' = [fed EXCEPT ![d] = 0]
      /\ mem' = [l \in Layers |-> [p \in Pages(l) |->
           IF p \in Range(kv_pages[l][d]) THEN [s \in Slots |-> NoRow] ELSE mem[l][p]]]
  BY DEF ADestroy, Destroy
<1>2. /\ fed \in [Requests -> Nat]
      /\ \A l \in Layers : /\ kv_pages[l] \in [Requests -> Seq(Pages(l))]
                          /\ Unshared(free_list_[l], kv_pages[l])
  BY DEF AInv, FedCounts, LimitInv, CoverInv, Inv, TypeOK, PagesPartitioned
<1> SUFFICES ASSUME NEW l \in Layers, NEW r \in Requests \ broken', NEW n \in 1 .. fed'[r]
             PROVE  Stored(l, r, n)'
  BY DEF History
<1>3. r # d /\ r \notin broken /\ fed'[r] = fed[r]
  BY <1>1, <1>2
<1>4. /\ Block(n) + 1 \in 1 .. Len(kv_pages[l][r])
      /\ mem[l][PageOf(l, r, n)][SlotOf(n)] = <<r, n>>
  BY <1>3 DEF AInv, History, Stored
<1>5. kv_pages'[l][r] = kv_pages[l][r]
  BY <1>1, <1>2, <1>3
<1> DEFINE p == PageOf(l, r, n)
<1>6. p \in Range(kv_pages[l][r]) /\ p \in Pages(l)
  BY <1>2, <1>4 DEF PageOf, Range
<1>7. p \notin Range(kv_pages[l][d])
  BY <1>2, <1>3, <1>6 DEF Unshared
<1> HIDE DEF p
<1>8. mem'[l][p] = mem[l][p]
  BY <1>1, <1>6, <1>7
<1>9. Block(n)' = Block(n) /\ SlotOf(n)' = SlotOf(n) /\ PageOf(l, r, n)' = p
  BY <1>5 DEF Block, SlotOf, PageOf, p
<1> QED
  BY <1>4, <1>5, <1>8, <1>9 DEF Stored, p

LEMMA NextA == AInv /\ [ANext]_avars => AInv'
<1> SUFFICES ASSUME AInv, [ANext]_avars PROVE AInv'
  OBVIOUS
<1>1. LimitInv'
  <2>1. LimitInv /\ [Next]_vars
    BY DEF AInv, ANext, avars, ABookkeeping, AExecute, AExecuteThrows, ADestroy, Next
  <2> QED BY <2>1, NextLimit
<1>2. CASE ABookkeeping
  BY <1>1, <1>2, BookkeepingCounts, BookkeepingHistory DEF ABookkeeping, AInv
<1>3. CASE AExecute
  BY <1>1, <1>3, ExecuteCounts, ExecuteHistory DEF AExecute, AInv
<1>4. CASE AExecuteThrows
  BY <1>1, <1>4, AbortCounts, ExecuteThrowsHistory DEF AExecuteThrows, ExecuteThrows, AInv
<1>5. ASSUME NEW r \in Requests, ADestroy(r) PROVE AInv'
  BY <1>1, <1>5, DestroyCounts, DestroyHistory DEF ADestroy, AInv
<1>6. CASE UNCHANGED avars
  <2>1. UNCHANGED <<is_prefill_, seq_len, kv_len, kv_pages, op, batch, cur, broken, mem, fed>>
    BY <1>6 DEF avars, vars, callVars
  <2>2. FedCounts' /\ Prompted'
    BY <2>1 DEF AInv, FedCounts, Prompted, Entered
  <2>3. History'
    BY <2>1, SameHistory DEF AInv
  <2> QED BY <1>1, <2>2, <2>3 DEF AInv
<1> QED
  BY <1>2, <1>3, <1>4, <1>5, <1>6 DEF ANext

-----------------------------------------------------------------------------
(* The results.                                                             *)

(* The client's view of the histories.                                      *)
histories == [r \in Requests |-> [n \in 1 .. fed[r] |-> <<r, n>>]]

LEMMA HistoryLength ==
  ASSUME fed \in [Requests -> Nat], NEW r \in Requests
  PROVE  Len(histories[r]) = fed[r]
<1> DEFINE h == [n \in 1 .. fed[r] |-> <<r, n>>]
<1>1. fed[r] \in Nat
  OBVIOUS
<1>2. h \in Seq({<<r, n>> : n \in Nat})
  BY <1>1
<1>3. Len(h) = fed[r]
  BY <1>1, <1>2
<1> QED
  BY <1>3 DEF histories

(* No two queries of a batch store their rows in one slot.                  *)
THEOREM NoWriteRaceCorrect == ASpec => []NoWriteRace
<1>1. AInv => NoWriteRace
  BY WritersApart DEF NoWriteRace
<1> QED
  BY <1>1, InitA, NextA, PTL DEF ASpec

(* The tables of a request lead to the rows it was fed, in order.           *)
THEOREM CacheCorrect == ASpec => []CacheHoldsHistory
<1>1. AInv => CacheHoldsHistory
  <2> SUFFICES ASSUME AInv, NEW l \in Layers, NEW r \in Requests \ broken, r \notin Range(batch)
               PROVE  /\ kv_len[r] = fed[r]
                      /\ Cached(l, r) = [n \in 1 .. fed[r] |-> <<r, n>>]
    BY DEF CacheHoldsHistory
  <2>1. ~Entered(r)
    BY EnteredInBatch DEF AInv, LimitInv, CoverInv
  <2>2. kv_len[r] = fed[r]
    BY <2>1 DEF AInv, FedCounts
  <2> DEFINE row(n) == mem[l][kv_pages[l][r][(n - 1) \div PageSize + 1]][(n - 1) % PageSize]
  <2>3. ASSUME NEW n \in 1 .. fed[r] PROVE row(n) = <<r, n>>
    BY DEF AInv, History, Stored, PageOf, Block, SlotOf
  <2>4. Cached(l, r) = [n \in 1 .. fed[r] |-> row(n)]
    BY <2>2 DEF Cached
  <2> HIDE DEF row
  <2>5. [n \in 1 .. fed[r] |-> row(n)] = [n \in 1 .. fed[r] |-> <<r, n>>]
    BY <2>3
  <2> QED BY <2>2, <2>4, <2>5
<1> QED
  BY <1>1, InitA, NextA, PTL DEF ASpec

(* execute feeds the rows of the batch.                                     *)
LEMMA ExecuteFeeds ==
  ASSUME AInv, AExecute,
         NEW S, S = Range(batch), NEW lens, lens = [r \in S |-> seq_len[r]]
  PROVE  Cache!Feed(S, lens)
<1>1. PICK junk : attended' = [l \in Layers |-> Attention(l, junk[l])]
  BY DEF AExecute
<1>2. /\ op = "bound"
      /\ fed' = [r \in Requests |-> IF r \in Range(batch) THEN fed[r] + seq_len[r] ELSE fed[r]]
  BY DEF AExecute, Execute
<1>3. fed \in [Requests -> Nat] /\ Range(batch) \subseteq Requests
  BY DEF AInv, FedCounts, LimitInv, CoverInv, Inv, TypeOK, Range
<1>4. \A r \in Requests : Len(histories[r]) = fed[r]
  BY <1>3, HistoryLength
<1> DEFINE total(r) == Len(histories[r]) + lens[r]
<1>5. \A r \in Range(batch) : total(r) = fed[r] + seq_len[r] /\ total(r) = fed'[r]
  BY <1>2, <1>3, <1>4
<1>6. histories' = [r \in Requests |-> IF r \in Range(batch) THEN Cache!Rows(r, total(r)) ELSE histories[r]]
  <2>1. histories' = [r \in Requests |-> [n \in 1 .. fed'[r] |-> <<r, n>>]]
    BY DEF histories
  <2>2. ASSUME NEW r \in Requests
        PROVE  [n \in 1 .. fed'[r] |-> <<r, n>>] =
                 IF r \in Range(batch) THEN Cache!Rows(r, total(r)) ELSE histories[r]
    <3>1. CASE r \in Range(batch)
      BY <1>5, <3>1 DEF Cache!Rows
    <3>2. CASE r \notin Range(batch)
      BY <1>2, <3>2 DEF histories
    <3> QED BY <3>1, <3>2
  <2> HIDE DEF total
  <2> QED BY <2>1, <2>2
<1>7. ASSUME NEW l \in Layers
      PROVE  Attention(l, junk[l]) =
               UNION {{<< <<r, i>>, Cache!Rows(r, i) >> : i \in Len(histories[r]) + 1 .. total(r)}
                        : r \in Range(batch)}
  <2>1. Attention(l, junk[l]) = UNION {Attends(r) : r \in Range(batch)}
    BY <1>2, AttentionIs
  <2>2. ASSUME NEW r \in Range(batch)
        PROVE  Attends(r) = {<< <<r, i>>, Cache!Rows(r, i) >> : i \in Len(histories[r]) + 1 .. total(r)}
    <3>1. Len(histories[r]) = fed[r] /\ total(r) = fed[r] + seq_len[r]
      BY <1>3, <1>4, <1>5
    <3> HIDE DEF total
    <3>2. Attends(r) = {<< <<r, i>>, RowsOf(r, i) >> : i \in Len(histories[r]) + 1 .. total(r)}
      BY <3>1 DEF Attends
    <3>3. \A i : RowsOf(r, i) = Cache!Rows(r, i)
      BY DEF RowsOf, Cache!Rows
    <3> QED BY <3>2, <3>3
  <2> HIDE DEF total
  <2> QED BY <2>1, <2>2
<1>8. attended' = [l \in Layers |->
        UNION {{<< <<r, i>>, Cache!Rows(r, i) >> : i \in Len(histories[r]) + 1 .. total(r)}
                 : r \in Range(batch)}]
  BY <1>1, <1>7
<1> QED
  BY <1>6, <1>8 DEF Cache!Feed, histories

(* Clients see a KV cache: what a batch attends to is, in every layer, the  *)
(* rows of each of its requests, and a step that feeds nothing changes no   *)
(* history but that of a request destroyed.                                 *)
THEOREM ImplementsCache == ASpec => ImplementsKVCache
<1>1. AInit => Cache!Init
  <2> SUFFICES ASSUME AInit PROVE Cache!Init
    OBVIOUS
  <2>1. attended = Cache!Nothing
    BY DEF AInit, Nothing, Cache!Nothing
  <2>2. ASSUME NEW r \in Requests PROVE [n \in 1 .. fed[r] |-> <<r, n>>] = <<>>
    BY DEF AInit
  <2>3. histories = [r \in Requests |-> <<>>]
    BY <2>2 DEF histories
  <2> QED BY <2>1, <2>3 DEF Cache!Init, histories
<1>2. AInv /\ [ANext]_avars => [Cache!Next]_(Cache!vars)
  <2> SUFFICES ASSUME AInv, [ANext]_avars PROVE [Cache!Next]_(Cache!vars)
    OBVIOUS
  <2>1. ASSUME UNCHANGED fed, attended' = Nothing PROVE Cache!Next
    <3>1. UNCHANGED histories /\ attended' = Cache!Nothing
      BY <2>1 DEF histories, Nothing, Cache!Nothing
    <3> QED BY <3>1 DEF Cache!Next, Cache!Rest, histories
  <2>2. CASE ABookkeeping
    BY <2>1, <2>2 DEF ABookkeeping
  <2>3. CASE AExecute
    <3>0. PICK S : S = Range(batch)
      OBVIOUS
    <3>1. PICK lens : lens = [r \in S |-> seq_len[r]]
      OBVIOUS
    <3>2. Cache!Feed(S, lens)
      BY <2>3, <3>0, <3>1, ExecuteFeeds
    <3>3. batch \in Seq(Requests \ broken)
      BY DEF AInv, LimitInv, CoverInv, Inv, TypeOK
    <3>4. S \in SUBSET Requests
      BY <3>0, <3>3 DEF Range
    <3>5. lens \in [S -> SeqLens]
      BY <3>0, <3>1, <3>3, InRange DEF AInv, Prompted
    <3>6. \E T \in SUBSET Requests : \E f \in [T -> SeqLens] : Cache!Feed(T, f)
      BY <3>2, <3>4, <3>5, Zenon
    <3> QED BY <3>6 DEF Cache!Next
  <2>4. CASE AExecuteThrows
    BY <2>1, <2>4 DEF AExecuteThrows
  <2>5. ASSUME NEW d \in Requests, ADestroy(d) PROVE Cache!Next
    <3>1. fed' = [fed EXCEPT ![d] = 0] /\ attended' = Nothing /\ fed \in [Requests -> Nat]
      BY <2>5 DEF ADestroy, AInv, FedCounts
    <3>2. attended' = Cache!Nothing
      BY <3>1 DEF Nothing, Cache!Nothing
    <3>3. histories' = [histories EXCEPT ![d] = <<>>]
      <4>1. histories' = [r \in Requests |-> [n \in 1 .. fed'[r] |-> <<r, n>>]]
        BY DEF histories
      <4>2. ASSUME NEW r \in Requests
            PROVE  [n \in 1 .. fed'[r] |-> <<r, n>>] = IF r = d THEN <<>> ELSE histories[r]
        <5>1. CASE r = d
          <6>1. fed'[r] = 0
            BY <3>1, <5>1
          <6> QED BY <5>1, <6>1
        <5>2. CASE r # d
          BY <3>1, <5>2 DEF histories
        <5> QED BY <5>1, <5>2
      <4>3. histories' = [r \in Requests |-> IF r = d THEN <<>> ELSE histories[r]]
        BY <4>1, <4>2
      <4> QED BY <4>3 DEF histories
    <3>4. Cache!Drop(d)
      BY <3>2, <3>3 DEF Cache!Drop, histories
    <3> QED BY <3>4 DEF Cache!Next
  <2>6. CASE UNCHANGED avars
    BY <2>6 DEF avars, Cache!vars
  <2> QED BY <2>2, <2>3, <2>4, <2>5, <2>6 DEF ANext
<1> QED
  BY <1>1, <1>2, InitA, NextA, PTL DEF ASpec, ImplementsKVCache, Cache!Spec
-----------------------------------------------------------------------------
(* The pipeline.  apply and the runtime count tokens apart: apply the       *)
(* prompts and the rounds of sampling, the runtime kv_len or, in each       *)
(* layer, cache_length.  The invariant says how far each has come in every  *)
(* phase of a call, and which requests may hold pages then; it rests on     *)
(* LimitInv, the runtime's own, which every step of apply keeps.            *)

(* The phases of apply.                                                     *)
Phases == {"idle", "prefill", "runtime", "prefilled", "loop", "sample", "destroy"}

(* How a call may end.                                                      *)
Endings == Refusals \cup {"execute threw", "sampling threw", "returned", "nothing to do"}

(* Request i of the call under way, and how many tokens it was sampled.     *)
Mine(i) == <<calls, i>>
Rounds == Len(generated[1])

(* In a call, but for its end.                                              *)
Running == phase \notin {"idle", "destroy"}

(* The types, and how far the counts have come.                             *)
PTypeOK ==
  /\ paged_ \in BOOLEAN /\ from_prefill \in BOOLEAN /\ phase \in Phases
  /\ calls \in 0 .. MaxCalls /\ max_new_tokens \in Nat
  /\ prompts \in Seq(SeqLens)
  /\ ran \in 0 .. Len(AttnTasks) /\ DOMAIN cache_length = Layers
  /\ phase # "idle" => calls > 0 /\ NumPrompts \in 1 .. MaxPrompts
  /\ outcome \in Seq(Endings) /\ Len(outcome) = IF phase = "idle" THEN calls ELSE calls - 1

(* Which side works when, and whether it is a prefill.                      *)
Control ==
  /\ op # "idle" => phase = "runtime" /\ paged_
  /\ phase = "runtime" /\ paged_ => op # "idle" /\ batch = request_metas
  /\ phase \notin {"idle", "prefill"} /\ paged_ => NumPrompts <= MaxRequestNum
  /\ ran # 0 => phase = "runtime" /\ ~paged_ /\ InputsFit
  /\ phase = "prefill" => is_prefill_
  /\ phase = "runtime" => is_prefill_ = from_prefill
  /\ phase = "prefilled" => from_prefill
  /\ phase \in {"loop", "sample", "destroy"} => ~is_prefill_
  /\ phase \in {"loop", "sample", "runtime"} /\ ~from_prefill => RowsMatch

(* The rounds of sampling and what is derived of them.                      *)
InLoop == phase \in {"loop", "sample"} \/ (phase = "runtime" /\ ~from_prefill)

RoundsCounted ==
  InLoop =>
    /\ generated \in [1 .. NumPrompts -> Seq(BOOLEAN)]
    /\ \A i \in 1 .. NumPrompts : Len(generated[i]) = Rounds
    /\ from_prefill => Rounds = 0
    /\ ~from_prefill => Rounds > 0
    /\ phase \in {"loop", "runtime"} /\ ~from_prefill =>
         \A i \in 1 .. NumPrompts : pos_ids[i] = prompts[i] + Rounds - 1
    /\ phase # "loop" => Rounds < max_new_tokens

(* The tokens of request i that are stored when no call of the runtime is   *)
(* under way, and those that such a call adds.                              *)
InCache(i) ==
  IF from_prefill THEN IF phase = "runtime" THEN 0 ELSE prompts[i]
  ELSE IF phase = "sample" THEN prompts[i] + Rounds ELSE prompts[i] + Rounds - 1

Fed(i) == IF from_prefill THEN prompts[i] ELSE 1

(* With pages: kv_len through a call of apply, and the tokens to be fed.     *)
KvCounted ==
  paged_ =>
    /\ Running /\ phase # "prefill" =>
         \A i \in 1 .. NumPrompts :
           kv_len[Mine(i)] = InCache(i) + IF phase = "runtime" /\ i <= cur THEN Fed(i) ELSE 0
    /\ phase = "runtime" => \A i \in 1 .. NumPrompts : seq_len[Mine(i)] = Fed(i)
    /\ phase \in {"loop", "sample"} => \A i \in 1 .. NumPrompts : seq_len[Mine(i)] = 1

(* Without: cache_length, of one prompt.                                    *)
DenseCounted ==
  ~paged_ /\ NumPrompts = 1 /\ Running /\ phase # "prefill" =>
    \A k \in DOMAIN AttnTasks :
      IF phase = "runtime" /\ k <= ran THEN cache_length[AttnTasks[k]] = InCache(1) + Fed(1)
      ELSE (phase = "runtime" /\ from_prefill) \/ cache_length[AttnTasks[k]] = InCache(1)

(* No pages in any layer.                                                   *)
Empty(r) == \A l \in Layers : kv_pages[l][r] = <<>>

(* A request that no call of the runtime was given.                         *)
Untouched(r) == kv_len[r] = 0 /\ Empty(r)

(* What the requests of this call, of later ones and of earlier ones hold.  *)
MetasFresh ==
  /\ \A r \in Requests : r[1] > calls \/ (phase # "idle" /\ r[1] = calls) => r \notin broken
  /\ \A r \in Requests :
       r[1] > calls \/ (r[1] = calls /\ (phase = "prefill" \/ r[2] > NumPrompts)) => Untouched(r)
  /\ phase = "runtime" /\ from_prefill =>
       \A i \in 1 .. NumPrompts : i > cur => Untouched(Mine(i))
  /\ ~paged_ => \A r \in Requests : Empty(r)
  /\ phase = "destroy" => \A i \in 1 .. NumPrompts : seq_len[Mine(i)] = 0 => Empty(Mine(i))

MetasGone ==
  ~ThrewBefore(Len(outcome) + 1) => \A r \in Requests : r[1] <= Len(outcome) => Empty(r)

PInv ==
  /\ LimitInv /\ PTypeOK /\ Control /\ RoundsCounted /\ KvCounted /\ DenseCounted
  /\ MetasFresh /\ MetasGone /\ WithinLimitsBinds

(* The layers in order.                                                     *)
LEMMA AttnTasksType ==
  /\ Len(AttnTasks) \in Nat /\ DOMAIN AttnTasks = 1 .. Len(AttnTasks)
  /\ \A k \in DOMAIN AttnTasks : AttnTasks[k] \in Layers
  /\ \A l \in Layers : \E k \in DOMAIN AttnTasks : l = AttnTasks[k]
  /\ \A k, m \in DOMAIN AttnTasks : AttnTasks[k] = AttnTasks[m] => k = m
BY DenseAssumption DEF Range, IsInjective

(* The requests of a call.                                                  *)
LEMMA MetasAre ==
  ASSUME PTypeOK, phase # "idle"
  PROVE  /\ NumPrompts \in Nat /\ NumPrompts > 0 /\ calls \in Nat
         /\ request_metas \in [1 .. NumPrompts -> Requests] /\ IsInjective(request_metas)
         /\ Len(request_metas) = NumPrompts
         /\ \A i \in 1 .. NumPrompts :
              /\ request_metas[i] = Mine(i) /\ Mine(i) \in Requests
              /\ Mine(i)[1] = calls /\ Mine(i)[2] = i
              /\ prompts[i] \in SeqLens /\ prompts[i] \in Nat \ {0}
         /\ \A r \in Range(request_metas) : r \in Requests /\ r[1] = calls /\ r[2] \in 1 .. NumPrompts
         /\ \A r \in Requests : r[1] = calls /\ r[2] <= NumPrompts =>
              r[2] \in 1 .. NumPrompts /\ r = Mine(r[2])
<1>1. /\ calls \in 1 .. MaxCalls /\ NumPrompts \in 1 .. MaxPrompts /\ MaxCalls \in Nat /\ MaxPrompts \in Nat
      /\ prompts \in Seq(SeqLens) /\ NumPrompts = Len(prompts)
      /\ Requests = (1 .. MaxCalls) \X (1 .. MaxPrompts)
  BY PipelineAssumption DEF PTypeOK, NumPrompts
<1>2. SeqLens \subseteq Nat \ {0}
  BY RuntimeAssumption
<1>3. ASSUME NEW i \in 1 .. NumPrompts
      PROVE  /\ request_metas[i] = Mine(i) /\ Mine(i) \in Requests
             /\ Mine(i)[1] = calls /\ Mine(i)[2] = i
             /\ prompts[i] \in SeqLens /\ prompts[i] \in Nat \ {0}
  <2>1. request_metas[i] = Mine(i) /\ Mine(i)[1] = calls /\ Mine(i)[2] = i
    BY DEF request_metas, Mine
  <2>2. calls \in 1 .. MaxCalls /\ i \in 1 .. MaxPrompts
    BY <1>1
  <2>3. <<calls, i>> \in (1 .. MaxCalls) \X (1 .. MaxPrompts)
    BY <2>2
  <2>4. Mine(i) \in Requests
    BY <1>1, <2>3, Zenon DEF Mine
  <2>5. i \in 1 .. Len(prompts)
    BY <1>1
  <2>6. prompts[i] \in SeqLens
    BY <1>1, <2>5
  <2> QED BY <1>2, <2>1, <2>4, <2>6
<1>4. /\ request_metas \in [1 .. NumPrompts -> Requests] /\ IsInjective(request_metas)
      /\ DOMAIN request_metas = 1 .. NumPrompts
  BY <1>3 DEF request_metas, Mine, IsInjective
<1>5. Len(request_metas) = NumPrompts
  BY <1>1, <1>4 DEF request_metas
<1>6. ASSUME NEW r \in Range(request_metas)
      PROVE  r \in Requests /\ r[1] = calls /\ r[2] \in 1 .. NumPrompts
  BY <1>3, <1>4 DEF Range
<1>7. ASSUME NEW r \in Requests, r[1] = calls, r[2] <= NumPrompts
      PROVE  r[2] \in 1 .. NumPrompts /\ r = Mine(r[2])
  BY <1>1, <1>7 DEF Mine
<1> QED
  BY <1>1, <1>3, <1>4, <1>5, <1>6, <1>7

(* It holds before the first call.                                          *)
LEMMA InitP == PInit => PInv
<1> SUFFICES ASSUME PInit PROVE PInv
  OBVIOUS
<1>1. /\ Init /\ DInit /\ phase = "idle" /\ calls = 0 /\ prompts = <<>> /\ max_new_tokens = 0
      /\ from_prefill = FALSE /\ outcome = <<>> /\ paged_ \in BOOLEAN
  BY DEF PInit
<1>2. LimitInv
  BY <1>1, InitLimit
<1>3. /\ ran = 0 /\ DOMAIN cache_length = Layers /\ Len(AttnTasks) \in Nat
  BY <1>1, AttnTasksType DEF DInit
<1>4. Len(prompts) = 0 /\ Len(outcome) = 0 /\ prompts \in Seq(SeqLens) /\ outcome \in Seq(Endings)
  BY <1>1
<1>5. PTypeOK
  <2>1. 0 \in 0 .. MaxCalls /\ 0 \in 0 .. Len(AttnTasks)
    BY <1>3, PipelineAssumption
  <2>2. phase \in Phases /\ from_prefill \in BOOLEAN
    BY <1>1 DEF Phases
  <2> QED BY <1>1, <1>3, <1>4, <2>1, <2>2 DEF PTypeOK
<1>6. op = "idle" /\ broken = {} /\ \A r \in Requests : Untouched(r)
  BY <1>1 DEF Init, Untouched, Empty
<1>7. Control /\ RoundsCounted /\ KvCounted /\ DenseCounted
  BY <1>1, <1>3, <1>6 DEF Control, RoundsCounted, InLoop, KvCounted, DenseCounted, Running
<1>8. MetasFresh /\ MetasGone
  BY <1>1, <1>6 DEF MetasFresh, MetasGone, Untouched
<1>9. WithinLimitsBinds
  BY <1>1 DEF WithinLimitsBinds
<1> QED
  BY <1>2, <1>5, <1>7, <1>8, <1>9 DEF PInv

-----------------------------------------------------------------------------
(* What the steps of apply do to the runtime.                               *)

(* Between calls of the runtime clients may fill in their metas.            *)
LEMMA LimitKept ==
  ASSUME LimitInv, op = "idle", is_prefill_' \in BOOLEAN, seq_len' \in [Requests -> Nat],
         UNCHANGED <<free_list_, kv_len, kv_pages, callVars, broken>>
  PROVE  LimitInv'
<1>1. UNCHANGED <<free_list_, kv_len, kv_pages, op, batch, cur, todo, broken>>
  BY DEF callVars
<1>2. CoverInv /\ Inv /\ TypeOK /\ todo = {}
  BY DEF LimitInv, CoverInv, Inv, TypeOK
<1>3. Inv'
  BY <1>1, <1>2, PagesUnchanged DEF Inv, TypeOK
<1>4. Place' /\ TablesCover' /\ Pending' /\ VisitedFits'
  BY <1>1, <1>2 DEF CoverInv, Place, TablesCover, UpToDate, Pending, VisitedFits
<1> QED
  BY <1>1, <1>3, <1>4 DEF LimitInv, CoverInv, TablesFit

(* What apply binds are batches.                                            *)
LEMMA MetasBatch ==
  ASSUME PInv, phase # "idle", NumPrompts <= MaxRequestNum
  PROVE  request_metas \in Batches
<1>1. /\ NumPrompts \in 1 .. MaxRequestNum /\ request_metas \in [1 .. NumPrompts -> Requests]
      /\ IsInjective(request_metas)
  BY MetasAre, RuntimeAssumption DEF PInv
<1>2. ASSUME NEW i \in 1 .. NumPrompts PROVE request_metas[i] \in Requests \ broken
  BY MetasAre DEF PInv, MetasFresh
<1>3. request_metas \in [1 .. NumPrompts -> Requests \ broken]
  BY <1>1, <1>2
<1> HIDE DEF request_metas
<1> QED
  BY <1>1, <1>3 DEF Batches

(* In every step of apply the runtime keeps its invariant.                  *)
LEMMA RuntimeKept ==
  ASSUME PInv, PNext
  PROVE  LimitInv'
<1>0. LimitInv /\ PTypeOK /\ Control /\ TypeOK
  BY DEF PInv, LimitInv, CoverInv, Inv
<1>1. CASE UNCHANGED vars
  BY <1>0, <1>1, NextLimit
<1>2. CASE Next
  BY <1>0, <1>2, NextLimit
<1>3. CASE Apply
  <2>1. op = "idle" /\ is_prefill_' = TRUE /\ seq_len' = seq_len
    BY <1>0, <1>3 DEF Apply, Control
  <2>2. UNCHANGED <<free_list_, kv_len, kv_pages, callVars, broken>>
    BY <1>3 DEF Apply
  <2> QED BY <1>0, <2>1, <2>2, LimitKept DEF TypeOK
<1>4. CASE PrefillDense
  <2>1. /\ op = "idle" /\ is_prefill_' = is_prefill_ /\ phase # "idle"
        /\ seq_len' = [r \in Requests |->
                         IF r \in Range(request_metas) THEN prompts[r[2]] ELSE seq_len[r]]
    BY <1>0, <1>4 DEF PrefillDense, Control
  <2>2. UNCHANGED <<free_list_, kv_len, kv_pages, callVars, broken>>
    BY <1>4 DEF PrefillDense
  <2>3. \A r \in Range(request_metas) : prompts[r[2]] \in Nat
    BY <1>0, <2>1, MetasAre
  <2>4. seq_len' \in [Requests -> Nat]
    BY <1>0, <2>1, <2>3 DEF TypeOK
  <2> QED BY <1>0, <2>1, <2>2, <2>4, LimitKept DEF TypeOK
<1>5. CASE StartDecoding
  <2>1. /\ op = "idle" /\ is_prefill_' = FALSE
        /\ seq_len' = [r \in Requests |-> IF r \in Range(request_metas) THEN 1 ELSE seq_len[r]]
    BY <1>0, <1>5 DEF StartDecoding, Control
  <2>2. UNCHANGED <<free_list_, kv_len, kv_pages, callVars, broken>>
    BY <1>5 DEF StartDecoding
  <2>3. seq_len' \in [Requests -> Nat]
    BY <1>0, <2>1 DEF TypeOK
  <2> QED BY <1>0, <2>1, <2>2, <2>3, LimitKept
<1>6. ASSUME NEW lens \in [Range(request_metas) -> SeqLens], phase # "idle",
             NumPrompts <= MaxRequestNum, Bind(request_metas, lens)
      PROVE  Next
  <2>1. request_metas \in Batches
    BY <1>6, MetasBatch
  <2> HIDE DEF request_metas
  <2> QED BY <1>6, <2>1 DEF Next, Bookkeeping
<1>7. CASE Prefill
  <2> DEFINE lens == [r \in Range(request_metas) |-> prompts[r[2]]]
  <2>1. /\ phase # "idle" /\ paged_ /\ ~TooManyPrompts /\ phase = "prefill"
        /\ Bind(request_metas, lens)
    BY <1>7 DEF Prefill
  <2>2. NumPrompts <= MaxRequestNum
    BY <1>0, <2>1, MetasAre, RuntimeAssumption DEF TooManyPrompts
  <2>3. \A r \in Range(request_metas) : prompts[r[2]] \in SeqLens
    BY <1>0, <2>1, MetasAre
  <2>4. lens \in [Range(request_metas) -> SeqLens]
    BY <2>3
  <2> HIDE DEF lens
  <2> QED BY <1>2, <1>6, <2>1, <2>2, <2>4
<1>8. CASE Decode
  <2> DEFINE lens == [r \in Range(request_metas) |-> 1]
  <2>1. CASE ~paged_
    BY <1>1, <1>8, <2>1 DEF Decode
  <2>2. CASE paged_
    <3>1. phase = "loop" /\ Bind(request_metas, lens)
      BY <1>8, <2>2 DEF Decode
    <3>2. NumPrompts <= MaxRequestNum
      BY <1>0, <2>2, <3>1 DEF Control
    <3>3. lens \in [Range(request_metas) -> SeqLens]
      BY RuntimeAssumption
    <3> HIDE DEF lens
    <3> QED BY <1>2, <1>6, <3>1, <3>2, <3>3
  <2> QED BY <2>1, <2>2
<1>9. CASE DestroyNext
  <2>1. PICK i \in Left : Destroy(<<calls, i>>)
    BY <1>9 DEF DestroyNext
  <2>2. Mine(i) \in Requests
    BY <1>0, <1>9, <2>1, MetasAre DEF DestroyNext, Left
  <2> QED BY <1>2, <2>1, <2>2 DEF Next, Mine
<1>10. UNCHANGED vars \/ Next \/ Apply \/ PrefillDense \/ StartDecoding \/ Prefill \/ Decode \/ DestroyNext
  BY DEF PNext, Step, ApplyToNothing, Runtime, Executed, ExecuteLayer, ExecutedDense, BindThrew,
         Refused, CopyThrew, LayerThrew, ExecuteThrew, UsePrefillLogits, ReshapeThrew, Sample,
         SampleThrew, LoopEnds, Return, Next, Bookkeeping
<1> QED
  BY <1>1, <1>2, <1>3, <1>4, <1>5, <1>7, <1>8, <1>9, <1>10

(* A request's call and its place there.                                    *)
LEMMA RequestIs ==
  ASSUME NEW r \in Requests
  PROVE  r[1] \in Nat /\ r[1] > 0 /\ r[1] <= MaxCalls /\ r[2] \in Nat /\ r[2] > 0
BY PipelineAssumption

-----------------------------------------------------------------------------
(* The end of a call.                                                       *)

(* How a call may be left: not with a refusal, unless it was beyond the     *)
(* limits or an earlier call threw, and not returning with pages.           *)
EndsWell(how) ==
  /\ how \in Endings /\ how # "nothing to do"
  /\ how \in Refusals => ~(WithinLimits /\ (paged_ => ~ThrewBefore(calls)))
  /\ how = "returned" => \A i \in 1 .. NumPrompts : Empty(Mine(i))

(* What Append does, apart from what is appended.                           *)
LEMMA Appended ==
  ASSUME NEW S, NEW s \in Seq(S), NEW n \in Nat, n > 0, Len(s) = n - 1, NEW e \in S
  PROVE  /\ Append(s, e) \in Seq(S) /\ Len(Append(s, e)) = n /\ Append(s, e)[n] = e
         /\ \A c \in 1 .. n - 1 : Append(s, e)[c] = s[c]
OBVIOUS

(* A call that did not throw.                                               *)
Fine(how) == how \in {"returned", "nothing to do"}

(* None threw when none did before and the last one did not.                *)
LEMMA NoneThrew ==
  ASSUME NEW n \in Nat
  PROVE  /\ ~ThrewBefore(n + 1) <=> \A c \in 1 .. n : Fine(outcome[c])
         /\ ~ThrewBefore(n + 1)' <=> \A c \in 1 .. n : Fine(outcome'[c])
<1>1. 1 .. (n + 1) - 1 = 1 .. n
  OBVIOUS
<1> QED
  BY <1>1, Zenon DEF ThrewBefore, Fine

(* However apply is left, and provided what it says of its end is so.       *)
LEMMA LeaveKept ==
  ASSUME PInv, LimitInv', phase # "idle", NEW how, Leave(how), EndsWell(how),
         op' = "idle", ran' = 0, DOMAIN cache_length' = Layers, UNCHANGED <<kv_len, kv_pages>>,
         broken' \subseteq broken \cup Range(request_metas)
  PROVE  PInv'
<1>1. /\ outcome' = Append(outcome, how) /\ phase' = "idle"
      /\ UNCHANGED <<paged_, calls, prompts, max_new_tokens, from_prefill, generated, unfinished, pos_ids>>
  BY DEF Leave, applyVars, loopVars
<1>2. /\ PTypeOK /\ Control /\ MetasFresh /\ MetasGone /\ calls \in Nat /\ calls > 0
      /\ outcome \in Seq(Endings) /\ Len(outcome) = calls - 1 /\ NumPrompts \in Nat
      /\ NumPrompts' = NumPrompts
  BY <1>1, MetasAre DEF PInv, PTypeOK, NumPrompts
<1>a. how \in Endings /\ (Fine(how) => how = "returned")
  BY DEF EndsWell, Fine
<1>3. /\ outcome' \in Seq(Endings) /\ Len(outcome') = calls /\ outcome'[calls] = how
      /\ \A c \in 1 .. calls - 1 : outcome'[c] = outcome[c]
  <2>1. how \in Endings
    BY <1>a
  <2> QED BY <1>1, <1>2, <2>1, Appended
<1>4. PTypeOK'
  <2>1. 0 \in 0 .. Len(AttnTasks)
    BY AttnTasksType
  <2>2. phase' \in Phases
    BY <1>1 DEF Phases
  <2> QED BY <1>1, <1>2, <1>3, <2>1, <2>2 DEF PTypeOK
<1>5. Control' /\ RoundsCounted' /\ KvCounted' /\ DenseCounted'
  BY <1>1 DEF Control, RoundsCounted, InLoop, KvCounted, DenseCounted, Running
<1>6. \A r : Empty(r)' = Empty(r) /\ Untouched(r)' = Untouched(r)
  BY DEF Empty, Untouched
<1>7. MetasFresh'
  <2>1. ASSUME NEW r \in Requests, r[1] > calls PROVE r \notin broken'
    <3>1. r[1] # calls
      BY <1>2, <2>1, RequestIs
    <3>2. r \notin broken /\ r \notin Range(request_metas)
      BY <1>2, <2>1, <3>1, MetasAre DEF MetasFresh
    <3> QED BY <3>2
  <2> QED BY <1>1, <1>2, <1>6, <2>1 DEF MetasFresh
<1>8. MetasGone'
  <2> SUFFICES ASSUME ~ThrewBefore(calls + 1)', NEW r \in Requests, r[1] <= calls
               PROVE  Empty(r)
    BY <1>1, <1>3, <1>6 DEF MetasGone
  <2>1. \A c \in 1 .. calls : Fine(outcome'[c])
    BY <1>1, <1>2, NoneThrew
  <2>2. how = "returned"
    BY <1>a, <1>2, <1>3, <2>1
  <2>3. \A c \in 1 .. calls - 1 : Fine(outcome[c])
    BY <1>2, <1>3, <2>1
  <2>4. ~ThrewBefore(Len(outcome) + 1)
    BY <1>2, <2>3, NoneThrew
  <2>5. CASE r[1] < calls
    BY <1>2, <2>4, <2>5, RequestIs DEF MetasGone
  <2>6. CASE r[1] = calls /\ r[2] <= NumPrompts
    BY <1>2, <2>2, <2>6, MetasAre DEF EndsWell
  <2>7. CASE r[1] = calls /\ r[2] > NumPrompts
    BY <1>2, <2>7 DEF MetasFresh, Untouched
  <2> QED BY <1>2, <2>5, <2>6, <2>7, RequestIs
<1>9. WithinLimitsBinds'
  <2>1. WithinLimits' = WithinLimits
    BY <1>1 DEF WithinLimits, NumPrompts, max_requests
  <2>2. ThrewBefore(calls)' = ThrewBefore(calls)
    BY <1>1, <1>3 DEF ThrewBefore
  <2>3. outcome'[calls'] = how /\ paged_' = paged_
    BY <1>1, <1>3
  <2> QED BY <2>1, <2>2, <2>3 DEF WithinLimitsBinds, EndsWell
<1> QED
  BY <1>4, <1>5, <1>7, <1>8, <1>9 DEF PInv

(* The tokens of one prompt.                                                *)
LEMMA OneTokens ==
  ASSUME NumPrompts = 1, prompts[1] \in Nat
  PROVE  TokensUpTo[NumPrompts] = prompts[1]
<1> DEFINE IsSum(f) == f = [i \in 0 .. NumPrompts |-> IF i = 0 THEN 0 ELSE f[i - 1] + prompts[i]]
           g == [i \in 0 .. 1 |-> IF i = 0 THEN 0 ELSE prompts[1]]
           F == [i \in 0 .. 1 |-> IF i = 0 THEN 0 ELSE TokensUpTo[i - 1] + prompts[i]]
<1>1. IsSum(g)
  <2> DEFINE h == [i \in 0 .. 1 |-> IF i = 0 THEN 0 ELSE g[i - 1] + prompts[i]]
  <2>1. g = h
    <3>1. g[0] = h[0] /\ g[1] = h[1]
      OBVIOUS
    <3>2. 0 .. 1 = {0, 1}
      OBVIOUS
    <3>3. g = [i \in 0 .. 1 |-> g[i]] /\ h = [i \in 0 .. 1 |-> h[i]]
      OBVIOUS
    <3> HIDE DEF g, h
    <3> QED BY <3>1, <3>2, <3>3
  <2> HIDE DEF g
  <2> QED BY <2>1
<1>2. IsSum(TokensUpTo)
  <2>1. \E f : IsSum(f)
    <3> HIDE DEF g, IsSum
    <3> QED BY <1>1
  <2>2. TokensUpTo = CHOOSE f : IsSum(f)
    BY DEF TokensUpTo
  <2> HIDE DEF IsSum
  <2> QED BY <2>1, <2>2
<1>3. TokensUpTo = F
  <2> USE DEF IsSum
  <2> QED BY <1>2
<1>4. F[0] = 0 /\ F[1] = TokensUpTo[0] + prompts[1]
  OBVIOUS
<1> HIDE DEF F
<1> QED
  BY <1>3, <1>4

(* The tokens apply feeds when it has one prompt.                           *)
LEMMA OneInput ==
  ASSUME PInv, NumPrompts = 1, phase # "idle"
  PROVE  /\ InputTokens = Fed(1) /\ Fed(1) \in Nat /\ prompts[1] \in Nat \ {0}
         /\ request_metas[1] = Mine(1)
<1>1. prompts[1] \in Nat \ {0} /\ request_metas[1] = Mine(1)
  BY MetasAre DEF PInv
<1> QED
  BY <1>1, OneTokens DEF InputTokens, Fed

(* Destroying has taken the pages of every request of the call.             *)
LEMMA ReturnKept ==
  ASSUME PInv, LimitInv', Return
  PROVE  PInv'
<1>1. /\ phase = "destroy" /\ Left = {} /\ UNCHANGED <<vars, denseVars>> /\ Leave("returned")
  BY DEF Return
<1>2. op = "idle" /\ ran = 0 /\ DOMAIN cache_length = Layers
  BY <1>1 DEF PInv, Control, PTypeOK
<1>3. \A i \in 1 .. NumPrompts : Empty(Mine(i))
  BY <1>1 DEF Left, PInv, MetasFresh, Mine
<1>4. EndsWell("returned")
  BY <1>3 DEF EndsWell, Endings, Refusals
<1> QED
  BY <1>1, <1>2, <1>4, LeaveKept DEF vars, denseVars, callVars

(* A failure that is no refusal.                                            *)
LEMMA Failures ==
  EndsWell("sampling threw") /\ EndsWell("execute threw")
BY DEF EndsWell, Endings, Refusals

LEMMA SampleThrewKept ==
  ASSUME PInv, LimitInv', SampleThrew
  PROVE  PInv'
<1>1. phase \in {"sample", "loop"} /\ UNCHANGED <<vars, denseVars>> /\ Leave("sampling threw")
  BY DEF SampleThrew
<1>2. op = "idle" /\ ran = 0 /\ DOMAIN cache_length = Layers
  BY <1>1 DEF PInv, Control, PTypeOK
<1> QED
  BY <1>1, <1>2, Failures, LeaveKept DEF vars, denseVars, callVars

LEMMA ExecuteThrewKept ==
  ASSUME PInv, LimitInv', ExecuteThrew
  PROVE  PInv'
<1>1. phase = "runtime" /\ Leave("execute threw")
  BY DEF ExecuteThrew
<1>2. DOMAIN cache_length = Layers
  BY DEF PInv, PTypeOK
<1>3. CASE paged_
  <2>1. /\ op' = "idle" /\ broken' = broken \cup Range(batch)
        /\ UNCHANGED <<kv_len, kv_pages, cache_length, ran>>
    BY <1>3 DEF ExecuteThrew, ExecuteThrows, Abort, denseVars
  <2>2. ran = 0 /\ batch = request_metas
    BY <1>1, <1>3 DEF PInv, Control
  <2> QED BY <1>1, <1>2, <2>1, <2>2, Failures, LeaveKept
<1>4. CASE ~paged_
  <2>1. ran' = 0 /\ UNCHANGED <<vars, cache_length>>
    BY <1>4 DEF ExecuteThrew, LayersAbandoned
  <2>2. op = "idle"
    BY <1>4 DEF PInv, Control
  <2> QED BY <1>1, <1>2, <2>1, <2>2, Failures, LeaveKept DEF vars, callVars
<1> QED
  BY <1>3, <1>4

(* What is refused was beyond the limits.                                   *)
LEMMA RefusedWell ==
  ASSUME ~WithinLimits, NEW how, how \in Refusals
  PROVE  EndsWell(how)
BY DEF EndsWell, Endings, Refusals

(* Without pages a call within the limits has one prompt.                   *)
LEMMA OnePrompt ==
  ASSUME PInv, phase # "idle", ~paged_, WithinLimits
  PROVE  NumPrompts = 1
BY MetasAre DEF PInv, WithinLimits, max_requests

LEMMA ReshapeThrewKept ==
  ASSUME PInv, LimitInv', ReshapeThrew
  PROVE  PInv'
<1>1. /\ phase = "sample" /\ ~RowsMatch /\ UNCHANGED <<vars, denseVars>> /\ Leave("reshape threw")
  BY DEF ReshapeThrew
<1>2. op = "idle" /\ ran = 0 /\ DOMAIN cache_length = Layers
  BY <1>1 DEF PInv, Control, PTypeOK
<1>3. ~WithinLimits
  BY <1>1, OnePrompt DEF RowsMatch
<1>4. EndsWell("reshape threw")
  BY <1>3, RefusedWell DEF Refusals
<1> QED
  BY <1>1, <1>2, <1>4, LeaveKept DEF vars, denseVars, callVars

LEMMA RefusedKept ==
  ASSUME PInv, LimitInv', Refused
  PROVE  PInv'
<1>0. NumPrompts > MaxRequestNum
  BY DEF Refused, TooManyPrompts
<1>1. phase = "prefill" /\ paged_ /\ UNCHANGED <<vars, denseVars>> /\ Leave("bind threw")
  BY DEF Refused, TooManyPrompts
<1>2. op = "idle" /\ ran = 0 /\ DOMAIN cache_length = Layers
  BY <1>1 DEF PInv, Control, PTypeOK
<1>3. ~WithinLimits
  <2>1. NumPrompts \in Nat /\ MaxRequestNum \in Nat
    BY <1>1, MetasAre, RuntimeAssumption DEF PInv
  <2>2. ~(NumPrompts <= MaxRequestNum)
    BY <1>0, <2>1
  <2>3. max_requests = MaxRequestNum
    BY <1>1 DEF max_requests
  <2> QED BY <2>2, <2>3 DEF WithinLimits
<1>4. EndsWell("bind threw")
  BY <1>3, RefusedWell DEF Refusals
<1> QED
  BY <1>1, <1>2, <1>4, LeaveKept DEF vars, denseVars, callVars

(* One prompt within the limits fits in the inputs.                         *)
LEMMA CopyThrewKept ==
  ASSUME PInv, LimitInv', CopyThrew
  PROVE  PInv'
<1>1. /\ phase = "runtime" /\ ~paged_ /\ ~InputsFit
      /\ UNCHANGED <<vars, denseVars>> /\ Leave("copy threw")
  BY DEF CopyThrew
<1>2. op = "idle" /\ ran = 0 /\ DOMAIN cache_length = Layers
  BY <1>1 DEF PInv, Control, PTypeOK
<1>3. ~WithinLimits
  <2> SUFFICES ASSUME WithinLimits, NEW l \in Layers
               PROVE  InputTokens <= max_requests * MaxLen[l]
    BY <1>1 DEF InputsFit
  <2>0. phase # "idle"
    BY <1>1
  <2>1. NumPrompts = 1
    BY <1>1, <2>0, OnePrompt
  <2>2. /\ InputTokens = Fed(1) /\ prompts[1] \in Nat \ {0} /\ MaxLen[l] \in Nat \ {0}
        /\ prompts[1] <= MaxLen[l]
    <3>1. InputTokens = Fed(1) /\ prompts[1] \in Nat \ {0} /\ MaxLen[l] \in Nat \ {0}
      BY <2>0, <2>1, OneInput, RuntimeAssumption
    <3>2. 1 \in 1 .. NumPrompts
      BY <2>1
    <3> QED BY <3>1, <3>2 DEF WithinLimits
  <2>3. Fed(1) <= MaxLen[l]
    BY <2>2 DEF Fed
  <2>4. max_requests = 1
    BY <1>1 DEF max_requests
  <2> QED BY <2>2, <2>3, <2>4
<1>4. EndsWell("copy threw")
  BY <1>3, RefusedWell DEF Refusals
<1> QED
  BY <1>1, <1>2, <1>4, LeaveKept DEF vars, denseVars, callVars

(* A decode under way: what has been stored before it.                      *)
LEMMA InDecode ==
  ASSUME PInv, phase = "runtime", ~from_prefill
  PROVE  /\ Rounds \in Nat /\ Rounds > 0 /\ max_new_tokens \in Nat /\ Rounds < max_new_tokens
         /\ \A i \in 1 .. NumPrompts :
              InCache(i) = prompts[i] + Rounds - 1 /\ Fed(i) = 1 /\ pos_ids[i] = InCache(i)
         /\ RowsMatch
<1>1. 1 \in 1 .. NumPrompts /\ max_new_tokens \in Nat
  BY MetasAre DEF PInv, PTypeOK
<1>2. /\ generated \in [1 .. NumPrompts -> Seq(BOOLEAN)] /\ Rounds > 0 /\ Rounds < max_new_tokens
      /\ \A i \in 1 .. NumPrompts : pos_ids[i] = prompts[i] + Rounds - 1
  BY DEF PInv, RoundsCounted, InLoop
<1>3. Rounds \in Nat
  BY <1>1, <1>2 DEF Rounds
<1>4. \A i \in 1 .. NumPrompts : InCache(i) = prompts[i] + Rounds - 1 /\ Fed(i) = 1
  BY DEF InCache, Fed
<1>5. RowsMatch
  BY DEF PInv, Control
<1> QED
  BY <1>1, <1>2, <1>3, <1>4, <1>5

(* A prefill under way.                                                     *)
LEMMA InPrefill ==
  ASSUME phase = "runtime", from_prefill
  PROVE  \A i \in 1 .. NumPrompts : InCache(i) = 0 /\ Fed(i) = prompts[i]
BY DEF InCache, Fed

(* A layer has room for the tokens of a call within the limits.             *)
LEMMA LayerThrewKept ==
  ASSUME PInv, LimitInv', LayerThrew
  PROVE  PInv'
<1>1. phase = "runtime" /\ ~paged_ /\ UNCHANGED vars /\ Leave("layer threw")
  BY DEF LayerThrew
<1>2. LayerThrows(InputTokens)
  BY DEF LayerThrew
<1>3. op = "idle" /\ DOMAIN cache_length = Layers /\ is_prefill_ = from_prefill
  BY <1>1 DEF PInv, Control, PTypeOK
<1>4. ran' = 0 /\ DOMAIN cache_length' = Layers
  BY <1>2, <1>3 DEF LayerThrows
<1>5. ~WithinLimits
  <2> SUFFICES ASSUME WithinLimits PROVE FALSE
    OBVIOUS
  <2>0. phase # "idle"
    BY <1>1
  <2>1. NumPrompts = 1 /\ 1 \in 1 .. NumPrompts
    <3>1. NumPrompts = 1
      BY <1>1, <2>0, OnePrompt
    <3> QED BY <3>1
  <2>2. /\ InputTokens = Fed(1) /\ Fed(1) \in Nat /\ prompts[1] \in Nat \ {0}
    BY <2>0, <2>1, OneInput
  <2>3. ran \in Nat /\ ran + 1 \in DOMAIN AttnTasks /\ ~(ran + 1 <= ran) /\ NextLayer \in Layers
    <3>1. ran \in Nat /\ ran < Len(AttnTasks)
      BY <1>2, AttnTasksType DEF LayerThrows, PInv, PTypeOK
    <3>2. ran + 1 \in DOMAIN AttnTasks
      BY <3>1, AttnTasksType
    <3> QED BY <3>1, <3>2, AttnTasksType DEF NextLayer
  <2>4. /\ prompts[1] <= MaxLen[NextLayer] /\ MaxLen[NextLayer] \in Nat
        /\ prompts[1] + max_new_tokens - 1 <= MaxLen[NextLayer]
    BY <2>1, <2>3, RuntimeAssumption DEF WithinLimits
  <2>5. ~Takes(NextLayer, Fed(1))
    BY <1>2, <2>2 DEF LayerThrows
  <2>6. CASE from_prefill
    <3>1. Fed(1) = prompts[1] /\ CacheBefore(NextLayer) = 0 /\ is_prefill_
      BY <1>3, <2>6 DEF Fed, CacheBefore
    <3>2. Takes(NextLayer, Fed(1))
      BY <2>2, <2>4, <3>1 DEF Takes
    <3> QED BY <2>5, <3>2
  <2>7. CASE ~from_prefill
    <3>1. /\ Rounds \in Nat /\ max_new_tokens \in Nat /\ Rounds < max_new_tokens
          /\ InCache(1) = prompts[1] + Rounds - 1 /\ Fed(1) = 1
      BY <1>1, <2>1, <2>7, InDecode
    <3>2. cache_length[NextLayer] = InCache(1)
      BY <1>1, <2>1, <2>3, <2>7 DEF PInv, DenseCounted, Running, NextLayer
    <3>3. CacheBefore(NextLayer) = InCache(1)
      BY <1>3, <2>7, <3>2 DEF CacheBefore
    <3>4. 1 + InCache(1) <= MaxLen[NextLayer]
      BY <2>2, <2>4, <3>1
    <3>5. Takes(NextLayer, Fed(1))
      BY <3>1, <3>3, <3>4 DEF Takes
    <3> QED BY <2>5, <3>5
  <2> QED BY <2>6, <2>7
<1>6. EndsWell("layer threw")
  BY <1>5, RefusedWell DEF Refusals
<1> QED
  BY <1>1, <1>3, <1>4, <1>6, LeaveKept DEF vars, callVars

-----------------------------------------------------------------------------
(* A bind within the limits does not throw.                                 *)

(* The runtime at work for apply.                                           *)
LEMMA AtWork ==
  ASSUME PInv, phase = "runtime", paged_
  PROVE  /\ phase # "idle" /\ phase # "prefill" /\ Running
         /\ batch = request_metas /\ Len(batch) = NumPrompts /\ is_prefill_ = from_prefill
         /\ cur \in 0 .. NumPrompts /\ NumPrompts \in Nat /\ NumPrompts <= MaxRequestNum
         /\ \A i \in 1 .. NumPrompts :
              /\ batch[i] = Mine(i) /\ Mine(i) \in Requests \ broken
              /\ prompts[i] \in Nat \ {0}
              /\ kv_len[Mine(i)] = InCache(i) + IF i <= cur THEN Fed(i) ELSE 0
              /\ seq_len[Mine(i)] = Fed(i)
<1>1. /\ phase # "idle" /\ phase # "prefill" /\ Running
      /\ batch = request_metas /\ is_prefill_ = from_prefill /\ NumPrompts <= MaxRequestNum
  BY DEF PInv, Control, Running
<1>2. cur \in 0 .. Len(batch)
  BY DEF PInv, LimitInv, CoverInv, Inv, TypeOK
<1>3. ASSUME NEW i \in 1 .. NumPrompts
      PROVE  /\ kv_len[Mine(i)] = InCache(i) + IF i <= cur THEN Fed(i) ELSE 0
             /\ seq_len[Mine(i)] = Fed(i)
  BY <1>1 DEF PInv, KvCounted
<1>4. ASSUME NEW i \in 1 .. NumPrompts PROVE Mine(i) \notin broken
  BY <1>1, MetasAre DEF PInv, MetasFresh
<1> HIDE DEF request_metas
<1> QED
  BY <1>1, <1>2, <1>3, <1>4, MetasAre DEF PInv

(* The metas are as bind_request_meta wants them.                           *)
LEMMA MetasOK ==
  ASSUME PInv, phase = "runtime", paged_, todo = {}, cur < Len(batch)
  PROVE  MetaOK(batch[cur + 1])
<1> DEFINE i == cur + 1
<1>1. /\ i \in 1 .. NumPrompts /\ i > cur /\ ~(i <= cur)
      /\ batch[i] = Mine(i) /\ Mine(i) \in Requests \ broken
      /\ prompts[i] \in Nat \ {0} /\ is_prefill_ = from_prefill
      /\ kv_len[Mine(i)] = InCache(i) + 0 /\ seq_len[Mine(i)] = Fed(i)
  <2>1. cur \in 0 .. NumPrompts /\ Len(batch) = NumPrompts /\ NumPrompts \in Nat
    BY AtWork
  <2>2. i \in 1 .. NumPrompts /\ i > cur /\ ~(i <= cur)
    BY <2>1
  <2> HIDE DEF i
  <2> QED BY <2>2, AtWork
<1> HIDE DEF i
<1>2. CASE from_prefill
  <2>1. Untouched(Mine(i))
    BY <1>1, <1>2 DEF PInv, MetasFresh
  <2> QED BY <1>1, <1>2, <2>1 DEF MetaOK, Untouched, Empty, i
<1>3. CASE ~from_prefill
  <2>1. /\ Rounds \in Nat /\ Rounds > 0 /\ InCache(i) = prompts[i] + Rounds - 1 /\ Fed(i) = 1
    BY <1>1, <1>3, InDecode
  <2>2. kv_len[Mine(i)] \in Nat /\ kv_len[Mine(i)] > 0
    BY <1>1, <2>1
  <2>3. ASSUME NEW l \in Layers PROVE kv_pages[l][Mine(i)] # <<>>
    <3>1. Len(kv_pages[l][Mine(i)]) = PagesFor(kv_len[Mine(i)])
      BY <1>1, Settled DEF PInv, LimitInv
    <3>2. PagesFor(kv_len[Mine(i)]) # 0
      <4>1. PageSize \in Nat
        BY RuntimeAssumption
      <4>2. kv_len[Mine(i)] <= PagesFor(kv_len[Mine(i)]) * PageSize
        BY <2>2, PagesForBounds
      <4> QED BY <2>2, <4>1, <4>2
    <3>3. Len(<<>>) = 0
      OBVIOUS
    <3> QED BY <3>1, <3>2, <3>3
  <2> QED BY <1>1, <1>3, <2>1, <2>3 DEF MetaOK, i
<1> QED
  BY <1>2, <1>3

(* A request that was entered has no more tokens than WithinLimits allows.  *)
LEMMA EnteredFits ==
  ASSUME PInv, phase = "runtime", paged_, WithinLimits, NEW l \in todo
  PROVE  Fits(l, batch[cur])
<1>1. l \in Layers /\ cur > 0
  BY DEF PInv, LimitInv, CoverInv, Inv, TypeOK
<1>2. /\ cur \in 1 .. NumPrompts /\ cur <= cur
      /\ batch[cur] = Mine(cur) /\ prompts[cur] \in Nat \ {0}
      /\ kv_len[Mine(cur)] = InCache(cur) + Fed(cur)
  <2>1. cur \in 1 .. NumPrompts /\ cur <= cur
    <3>1. cur \in 0 .. NumPrompts /\ NumPrompts \in Nat
      BY AtWork
    <3> QED BY <1>1, <3>1
  <2> QED BY <2>1, AtWork
<1>3. /\ prompts[cur] <= MaxLen[l] /\ MaxLen[l] \in Nat
      /\ prompts[cur] + max_new_tokens - 1 <= MaxLen[l]
  BY <1>1, <1>2, RuntimeAssumption DEF WithinLimits
<1>4. kv_len[Mine(cur)] <= MaxLen[l]
  <2>1. CASE from_prefill
    <3>1. InCache(cur) = 0 /\ Fed(cur) = prompts[cur]
      BY <1>2, <2>1, InPrefill
    <3> QED BY <1>2, <1>3, <3>1
  <2>2. CASE ~from_prefill
    <3>1. /\ Rounds \in Nat /\ max_new_tokens \in Nat /\ Rounds < max_new_tokens
          /\ InCache(cur) = prompts[cur] + Rounds - 1 /\ Fed(cur) = 1
      BY <1>2, <2>2, InDecode
    <3> QED BY <1>2, <1>3, <3>1
  <2> QED BY <2>1, <2>2
<1> QED
  BY <1>2, <1>4 DEF Fits

(* When no call threw before, only the requests of this one hold pages.     *)
LEMMA OnlyMine ==
  ASSUME PInv, phase = "runtime", paged_, ~ThrewBefore(calls), NEW r \in Requests, ~Empty(r)
  PROVE  r[1] = calls /\ r[2] \in 1 .. NumPrompts /\ r = Mine(r[2])
<1>1. /\ calls \in Nat /\ Len(outcome) = calls - 1 /\ NumPrompts \in Nat
      /\ \A q \in Requests : q[1] = calls /\ q[2] <= NumPrompts =>
            q[2] \in 1 .. NumPrompts /\ q = Mine(q[2])
  BY MetasAre DEF PInv, PTypeOK
<1>2. r[1] \in Nat /\ r[2] \in Nat
  BY RequestIs
<1>3. Len(outcome) + 1 = calls
  BY <1>1
<1>4. ~(r[1] <= calls - 1)
  BY <1>1, <1>3 DEF PInv, MetasGone
<1>5. ~(r[1] > calls \/ (r[1] = calls /\ r[2] > NumPrompts))
  BY DEF PInv, MetasFresh, Untouched
<1>6. r[1] = calls /\ r[2] <= NumPrompts
  BY <1>1, <1>2, <1>4, <1>5
<1> QED
  BY <1>1, <1>6

(* They are no more than the runtime was made for.                          *)
LEMMA FewHolders ==
  ASSUME PInv, phase = "runtime", paged_, ~ThrewBefore(calls), NEW l \in todo
  PROVE  Cardinality(Holders(l)) <= MaxRequestNum
<1> DEFINE H == Holders(l)
           place == [r \in H |-> r[2]]
<1>1. l \in Layers /\ cur > 0
  BY DEF PInv, LimitInv, CoverInv, Inv, TypeOK
<1>2. NumPrompts \in Nat /\ NumPrompts <= MaxRequestNum /\ MaxRequestNum \in Nat
  BY AtWork, RuntimeAssumption
<1>3. batch[cur] = Mine(cur) /\ cur \in 1 .. NumPrompts
  <2>1. cur \in 1 .. NumPrompts
    <3>1. cur \in 0 .. NumPrompts
      BY AtWork
    <3> QED BY <1>1, <1>2, <3>1
  <2> QED BY <2>1, AtWork
<1>4. ASSUME NEW r \in H PROVE r[2] \in 1 .. NumPrompts /\ r = Mine(r[2])
  <2>1. CASE kv_pages[l][r] # <<>>
    <3>1. r \in Requests /\ ~Empty(r)
      BY <1>1, <2>1 DEF Holders, Empty
    <3> QED BY <3>1, OnlyMine
  <2>2. CASE r = batch[cur]
    BY <1>3, <2>2 DEF Mine
  <2> QED BY <2>1, <2>2 DEF Holders
<1>5. place \in Injection(H, 1 .. NumPrompts)
  <2>1. place \in [H -> 1 .. NumPrompts]
    BY <1>4
  <2>2. ASSUME NEW q \in H, NEW r \in H, place[q] = place[r] PROVE q = r
    <3>1. q[2] = r[2] /\ q = Mine(q[2]) /\ r = Mine(r[2])
      BY <1>4, <2>2
    <3> QED BY <3>1
  <2> HIDE DEF place, H
  <2> QED BY <2>1, <2>2 DEF Injection, IsInjective
<1>6. IsFiniteSet(1 .. NumPrompts) /\ Cardinality(1 .. NumPrompts) = NumPrompts
  BY <1>2, UpTo
<1>7. IsFiniteSet(H) /\ Cardinality(H) <= NumPrompts
  <2> HIDE DEF place, H
  <2> QED BY <1>5, <1>6, FS_Injection
<1>8. Cardinality(H) \in Nat
  <2> HIDE DEF H
  <2> QED BY <1>7, FS_CardinalityType
<1> HIDE DEF H
<1>9. Cardinality(H) <= MaxRequestNum
  BY <1>2, <1>7, <1>8
<1> QED
  BY <1>9 DEF H

LEMMA BindThrewKept ==
  ASSUME PInv, LimitInv', BindThrew
  PROVE  PInv'
<1>1. phase = "runtime" /\ paged_ /\ UNCHANGED denseVars /\ Leave("bind threw")
  BY DEF BindThrew
<1>2. MetaThrows \/ \E l \in Layers : TooLongThrows(l) \/ ExhaustedThrows(l)
  BY DEF BindThrew
<1>3. Abort
  BY <1>2 DEF MetaThrows, TooLongThrows, ExhaustedThrows
<1>4. /\ op' = "idle" /\ broken' = broken \cup Range(batch) /\ UNCHANGED <<kv_len, kv_pages>>
  BY <1>3 DEF Abort
<1>5. ran = 0 /\ DOMAIN cache_length = Layers /\ batch = request_metas
  BY <1>1 DEF PInv, Control, PTypeOK
<1>6. ~MetaThrows
  BY <1>1, MetasOK DEF MetaThrows
<1>7. ASSUME WithinLimits, ~ThrewBefore(calls) PROVE FALSE
  <2>1. PICK l \in Layers : TooLongThrows(l) \/ ExhaustedThrows(l)
    BY <1>2, <1>6
  <2>2. l \in todo
    BY <2>1 DEF TooLongThrows, ExhaustedThrows
  <2>3. Fits(l, batch[cur])
    BY <1>1, <1>7, <2>2, EnteredFits
  <2>4. CanAllocate(free_list_[l], PagesNeeded(l, batch[cur]))
    BY <1>1, <1>7, <2>2, <2>3, FewHolders, EnoughPages DEF PInv
  <2> QED BY <2>1, <2>3, <2>4 DEF TooLongThrows, ExhaustedThrows
<1>8. EndsWell("bind threw")
  BY <1>1, <1>7 DEF EndsWell, Endings, Refusals
<1>9. ran' = 0 /\ DOMAIN cache_length' = Layers
  BY <1>1, <1>5 DEF denseVars
<1> HIDE DEF request_metas
<1> QED
  BY <1>1, <1>4, <1>5, <1>8, <1>9, LeaveKept

-----------------------------------------------------------------------------
(* The other steps, one after another.                                      *)

LEMMA OneLess ==
  ASSUME NEW n \in Nat, NEW k, k = n - 1
  PROVE  k # n
OBVIOUS

(* In a call there is no end to speak of.                                   *)
LEMMA NoEndYet ==
  ASSUME PTypeOK', phase' # "idle"
  PROVE  WithinLimitsBinds'
<1>1. Len(outcome') = calls' - 1 /\ calls' \in Nat
  BY PipelineAssumption DEF PTypeOK
<1>2. Len(outcome') # calls'
  BY <1>1, OneLess
<1> QED
  BY <1>2 DEF WithinLimitsBinds

LEMMA ApplyKept ==
  ASSUME PInv, LimitInv', Apply
  PROVE  PInv'
<1>1. /\ phase = "idle" /\ phase' = "prefill" /\ calls' = calls + 1 /\ is_prefill_' = TRUE
      /\ UNCHANGED <<op, cur, kv_len, kv_pages, broken, ran, cache_length, paged_, from_prefill, outcome>>
  BY DEF Apply, callVars, denseVars, loopVars
<1>2. /\ calls' \in Nat /\ calls' > 0 /\ calls' \in 0 .. MaxCalls /\ Len(outcome') = calls' - 1
      /\ calls \in Nat /\ outcome' \in Seq(Endings)
  BY <1>1, PipelineAssumption DEF PInv, PTypeOK, Apply
<1>3. prompts' \in Seq(SeqLens) /\ NumPrompts' \in 1 .. MaxPrompts /\ max_new_tokens' \in Nat
  <2>1. PICK n \in 1 .. MaxPrompts : prompts' \in [1 .. n -> SeqLens]
    BY DEF Apply
  <2>2. n \in Nat
    BY PipelineAssumption
  <2>3. prompts' \in Seq(SeqLens) /\ Len(prompts') = n
    BY <2>1, <2>2
  <2>4. max_new_tokens' \in Nat
    BY PipelineAssumption DEF Apply
  <2> QED BY <2>3, <2>4 DEF NumPrompts
<1>4. PTypeOK'
  BY <1>1, <1>2, <1>3 DEF PInv, PTypeOK, Phases
<1>5. op = "idle" /\ ran = 0
  BY <1>1 DEF PInv, Control
<1>6. Control' /\ RoundsCounted' /\ KvCounted' /\ DenseCounted'
  BY <1>1, <1>5 DEF Control, RoundsCounted, InLoop, KvCounted, DenseCounted, Running
<1>7. \A r : Empty(r)' = Empty(r) /\ Untouched(r)' = Untouched(r)
  BY <1>1 DEF Empty, Untouched
<1>8. MetasFresh'
  <2>1. ASSUME NEW r \in Requests, r[1] >= calls' PROVE r[1] > calls
    BY <1>1, <1>2, <2>1, RequestIs
  <2>2. ASSUME NEW r \in Requests, r[1] > calls' \/ r[1] = calls' PROVE r[1] > calls
    BY <1>2, <2>1, <2>2, RequestIs
  <2> QED BY <1>1, <1>7, <2>2 DEF PInv, MetasFresh
<1>9. MetasGone'
  BY <1>1, <1>7 DEF PInv, MetasGone, ThrewBefore
<1>10. WithinLimitsBinds'
  BY <1>1, <1>4, NoEndYet
<1> QED
  BY <1>4, <1>6, <1>8, <1>9, <1>10 DEF PInv

(* Nothing is said to no prompts, and no request of theirs was touched.     *)
LEMMA ApplyToNothingKept ==
  ASSUME PInv, LimitInv', ApplyToNothing
  PROVE  PInv'
<1> DEFINE how == "nothing to do"
<1>a. outcome' = Append(outcome, how) /\ prompts' = <<>> /\ calls < MaxCalls
  BY DEF ApplyToNothing
<1>b. how \in Endings /\ how \notin Refusals
  BY DEF Endings, Refusals
<1> HIDE DEF how
<1>1. /\ phase = "idle" /\ calls' = calls + 1
      /\ UNCHANGED <<op, cur, is_prefill_, kv_len, kv_pages, broken, ran, cache_length, paged_, phase,
                     from_prefill, max_new_tokens>>
  BY DEF ApplyToNothing, vars, callVars, denseVars, loopVars
<1>2. /\ calls \in Nat /\ calls + 1 \in 0 .. MaxCalls /\ outcome \in Seq(Endings)
      /\ Len(outcome) = (calls + 1) - 1
  <2>1. calls \in 0 .. MaxCalls /\ MaxCalls \in Nat
    BY PipelineAssumption DEF PInv, PTypeOK
  <2>2. outcome \in Seq(Endings) /\ Len(outcome) = calls
    BY <1>1 DEF PInv, PTypeOK
  <2>3. calls \in Nat /\ calls + 1 \in 0 .. MaxCalls /\ calls = (calls + 1) - 1
    BY <1>a, <2>1
  <2> QED BY <2>2, <2>3
<1>3. /\ outcome' \in Seq(Endings) /\ Len(outcome') = calls + 1
      /\ outcome'[calls + 1] = how
      /\ \A c \in 1 .. calls : outcome'[c] = outcome[c]
  <2>1. (calls + 1) - 1 = calls /\ calls + 1 \in Nat /\ calls + 1 > 0
    BY <1>2
  <2> QED BY <1>a, <1>b, <1>2, <2>1, Appended
<1>4. PTypeOK'
  <2>1. prompts' \in Seq(SeqLens)
    BY <1>a
  <2> QED BY <1>1, <1>2, <1>3, <2>1 DEF PInv, PTypeOK
<1>5. op = "idle" /\ ran = 0
  BY <1>1 DEF PInv, Control
<1>6. Control' /\ RoundsCounted' /\ KvCounted' /\ DenseCounted'
  BY <1>1, <1>5 DEF Control, RoundsCounted, InLoop, KvCounted, DenseCounted, Running
<1>7. \A r : Empty(r)' = Empty(r) /\ Untouched(r)' = Untouched(r)
  BY <1>1 DEF Empty, Untouched
<1>8. MetasFresh'
  <2>1. ASSUME NEW r \in Requests, r[1] > calls' PROVE r[1] > calls
    BY <1>1, <1>2, <2>1, RequestIs
  <2>2. ASSUME NEW r \in Requests, r[1] = calls' PROVE r[1] > calls
    BY <1>1, <1>2, <2>2, RequestIs
  <2> QED BY <1>1, <1>7, <2>1, <2>2 DEF PInv, MetasFresh
<1>9. MetasGone'
  <2> SUFFICES ASSUME ~ThrewBefore(calls + 1)', NEW r \in Requests, r[1] <= calls + 1
               PROVE  Empty(r)
    BY <1>1, <1>3, <1>7 DEF MetasGone
  <2>1. \A c \in 1 .. calls + 1 : Fine(outcome'[c])
    BY <1>1, <1>2, NoneThrew
  <2>2. \A c \in 1 .. calls : Fine(outcome[c])
    BY <1>2, <1>3, <2>1
  <2>3. ~ThrewBefore(calls + 1) /\ Len(outcome) = calls
    BY <1>2, <2>2, NoneThrew
  <2>4. CASE r[1] <= calls
    BY <2>3, <2>4 DEF PInv, MetasGone
  <2>5. CASE r[1] > calls
    BY <2>5 DEF PInv, MetasFresh, Untouched
  <2> QED BY <1>2, <2>4, <2>5, RequestIs
<1>10. WithinLimitsBinds'
  <2>1. outcome'[calls'] = how
    BY <1>1, <1>3
  <2> QED BY <1>b, <2>1 DEF WithinLimitsBinds
<1> QED
  BY <1>4, <1>6, <1>8, <1>9, <1>10 DEF PInv

(* A step within a call.                                                    *)
LEMMA InCallKept ==
  ASSUME PInv, phase # "idle", phase' \in Phases, phase' # "idle", from_prefill' \in BOOLEAN,
         UNCHANGED <<paged_, calls, prompts, max_new_tokens, outcome>>,
         ran' \in 0 .. Len(AttnTasks), DOMAIN cache_length' = Layers,
         \A r \in Requests : r[1] < calls /\ Empty(r) => Empty(r)'
  PROVE  /\ PTypeOK' /\ WithinLimitsBinds' /\ MetasGone'
         /\ NumPrompts' = NumPrompts /\ request_metas' = request_metas
         /\ \A i \in 1 .. NumPrompts : Mine(i)' = Mine(i)
<1>1. NumPrompts' = NumPrompts /\ request_metas' = request_metas /\ \A i : Mine(i)' = Mine(i)
  BY DEF NumPrompts, request_metas, Mine
<1>2. /\ PTypeOK /\ calls \in Nat /\ calls > 0 /\ NumPrompts \in 1 .. MaxPrompts
      /\ Len(outcome) = calls - 1 /\ outcome \in Seq(Endings)
  BY MetasAre DEF PInv, PTypeOK
<1>3. PTypeOK'
  BY <1>1, <1>2 DEF PTypeOK
<1>4. MetasGone'
  <2> SUFFICES ASSUME ~ThrewBefore(Len(outcome) + 1), NEW r \in Requests, r[1] <= Len(outcome)
               PROVE  Empty(r)'
    BY DEF MetasGone, ThrewBefore
  <2>1. r[1] < calls
    BY <1>2, RequestIs
  <2> QED BY <2>1 DEF PInv, MetasGone
<1> QED
  BY <1>1, <1>3, <1>4, NoEndYet

(* The requests of the call, at the start of a prefill.                     *)
LEMMA PrefillStarts ==
  ASSUME PInv, phase = "prefill"
  PROVE  \A i \in 1 .. NumPrompts : Untouched(Mine(i)) /\ Mine(i) \in Requests
BY MetasAre DEF PInv, MetasFresh

LEMMA PrefillKept ==
  ASSUME PInv, LimitInv', Prefill
  PROVE  PInv'
<1>1. /\ phase = "prefill" /\ paged_ /\ ~TooManyPrompts /\ phase' = "runtime" /\ from_prefill' = TRUE
      /\ UNCHANGED <<cache_length, ran, paged_, calls, prompts, max_new_tokens, outcome>>
  BY DEF Prefill, denseVars, applyVars
<1>2. Bind(request_metas, [r \in Range(request_metas) |-> prompts[r[2]]])
  BY DEF Prefill
<1>3. /\ op' = "bind" /\ batch' = request_metas /\ cur' = 0
      /\ UNCHANGED <<is_prefill_, kv_len, kv_pages, broken>>
      /\ seq_len' = [r \in Requests |->
                       IF r \in Range(request_metas) THEN prompts[r[2]] ELSE seq_len[r]]
  BY <1>2 DEF Bind
<1>4. NumPrompts <= MaxRequestNum /\ is_prefill_ /\ ran = 0
  <2>1. NumPrompts <= MaxRequestNum
    <3>1. ~(NumPrompts > MaxRequestNum)
      BY <1>1 DEF TooManyPrompts
    <3>2. NumPrompts \in Nat /\ MaxRequestNum \in Nat
      BY <1>1, MetasAre, RuntimeAssumption DEF PInv
    <3> QED BY <3>1, <3>2
  <2> QED BY <1>1, <2>1 DEF PInv, Control
<1>5. \A r : Empty(r)' = Empty(r) /\ Untouched(r)' = Untouched(r)
  BY <1>3 DEF Empty, Untouched
<1>6. phase # "idle" /\ phase' # "idle" /\ phase' \in Phases /\ DOMAIN cache_length = Layers
  BY <1>1 DEF Phases, PInv, PTypeOK
<1>7. ran' \in 0 .. Len(AttnTasks)
  BY <1>1, <1>4, AttnTasksType
<1>8. /\ PTypeOK' /\ WithinLimitsBinds' /\ MetasGone'
      /\ NumPrompts' = NumPrompts /\ request_metas' = request_metas
      /\ \A i \in 1 .. NumPrompts : Mine(i)' = Mine(i)
  BY <1>1, <1>5, <1>6, <1>7, InCallKept
<1>9. ASSUME NEW i \in 1 .. NumPrompts
      PROVE  kv_len'[Mine(i)] = 0 /\ seq_len'[Mine(i)] = prompts[i]
  <2>1. kv_len[Mine(i)] = 0 /\ Mine(i) \in Requests
    BY <1>1, PrefillStarts DEF Untouched
  <2>2. Mine(i) \in Range(request_metas) /\ Mine(i)[2] = i
    BY <1>6, MetasAre DEF PInv, Range
  <2> HIDE DEF request_metas
  <2> QED BY <1>3, <2>1, <2>2
<1>10. Control' /\ RoundsCounted' /\ DenseCounted'
  BY <1>1, <1>3, <1>4, <1>8 DEF Control, RoundsCounted, InLoop, DenseCounted
<1>11. KvCounted'
  <2>1. ASSUME NEW i \in 1 .. NumPrompts PROVE ~(i <= 0) /\ 0 + 0 = 0
    OBVIOUS
  <2>2. \A i \in 1 .. NumPrompts : InCache(i)' = 0 /\ Fed(i)' = prompts[i]
    BY <1>1 DEF InCache, Fed
  <2>3. \A i \in 1 .. NumPrompts :
          kv_len'[Mine(i)] = InCache(i)' + IF phase' = "runtime" /\ i <= cur' THEN Fed(i)' ELSE 0
    BY <1>3, <1>9, <2>1, <2>2
  <2> QED BY <1>1, <1>8, <1>9, <2>2, <2>3 DEF KvCounted
<1>12. MetasFresh'
  BY <1>1, <1>3, <1>5, <1>8, PrefillStarts DEF PInv, MetasFresh
<1> QED
  BY <1>8, <1>10, <1>11, <1>12 DEF PInv

LEMMA PrefillDenseKept ==
  ASSUME PInv, LimitInv', PrefillDense
  PROVE  PInv'
<1>1. /\ phase = "prefill" /\ ~paged_ /\ phase' = "runtime" /\ from_prefill' = TRUE
      /\ UNCHANGED <<is_prefill_, kv_len, kv_pages, op, cur, broken, cache_length, ran, paged_, calls,
                     prompts, max_new_tokens, outcome>>
  BY DEF PrefillDense, callVars, denseVars, applyVars
<1>2. is_prefill_ /\ ran = 0 /\ op = "idle"
  BY <1>1 DEF PInv, Control
<1>3. \A r : Empty(r)' = Empty(r) /\ Untouched(r)' = Untouched(r)
  BY <1>1 DEF Empty, Untouched
<1>4. phase # "idle" /\ phase' # "idle" /\ phase' \in Phases /\ DOMAIN cache_length = Layers
  BY <1>1 DEF Phases, PInv, PTypeOK
<1>5. ran' \in 0 .. Len(AttnTasks)
  BY <1>1, <1>2, AttnTasksType
<1>6. /\ PTypeOK' /\ WithinLimitsBinds' /\ MetasGone' /\ NumPrompts' = NumPrompts
      /\ \A i \in 1 .. NumPrompts : Mine(i)' = Mine(i)
  BY <1>1, <1>3, <1>4, <1>5, InCallKept
<1>7. Control' /\ RoundsCounted' /\ KvCounted'
  BY <1>1, <1>2, <1>6 DEF Control, RoundsCounted, InLoop, KvCounted
<1>8. DenseCounted'
  <2>1. \A k \in DOMAIN AttnTasks : ~(k <= 0)
    BY AttnTasksType
  <2> QED BY <1>1, <1>2, <2>1 DEF DenseCounted
<1>9. MetasFresh'
  BY <1>1, <1>3, <1>6, PrefillStarts DEF PInv, MetasFresh
<1> QED
  BY <1>6, <1>7, <1>8, <1>9 DEF PInv

(* What a step of the runtime at work leaves to itself.                     *)
LEMMA AtWorkKept ==
  ASSUME PInv, phase = "runtime", paged_,
         UNCHANGED <<denseVars, paged_, phase, applyVars, loopVars, outcome>>,
         \A r \in Requests : r[1] < calls /\ Empty(r) => Empty(r)',
         op' # "idle", UNCHANGED <<batch, is_prefill_>>
  PROVE  /\ PTypeOK' /\ WithinLimitsBinds' /\ MetasGone'
         /\ Control' /\ RoundsCounted' /\ DenseCounted'
         /\ NumPrompts' = NumPrompts
         /\ \A i \in 1 .. NumPrompts : Mine(i)' = Mine(i) /\ InCache(i)' = InCache(i) /\ Fed(i)' = Fed(i)
<1>1. UNCHANGED <<cache_length, ran, paged_, phase, calls, prompts, max_new_tokens, from_prefill,
                  generated, unfinished, pos_ids, outcome>>
  BY DEF denseVars, applyVars, loopVars
<1>2. /\ phase # "idle" /\ phase' # "idle" /\ phase' \in Phases /\ from_prefill' \in BOOLEAN
      /\ ran \in 0 .. Len(AttnTasks) /\ DOMAIN cache_length = Layers
  BY <1>1 DEF PInv, PTypeOK, Phases
<1>3. /\ PTypeOK' /\ WithinLimitsBinds' /\ MetasGone'
      /\ NumPrompts' = NumPrompts /\ request_metas' = request_metas
      /\ \A i \in 1 .. NumPrompts : Mine(i)' = Mine(i)
  BY <1>1, <1>2, InCallKept
<1>4. Rounds' = Rounds /\ RowsMatch' = RowsMatch
  BY <1>1, <1>3 DEF Rounds, RowsMatch
<1>5. \A i : InCache(i)' = InCache(i) /\ Fed(i)' = Fed(i)
  BY <1>1, <1>4 DEF InCache, Fed
<1>6. RoundsCounted'
  BY <1>1, <1>3, <1>4 DEF PInv, RoundsCounted, InLoop
<1>7. DenseCounted'
  BY <1>1 DEF DenseCounted
<1>8. Control'
  BY <1>1, <1>3, <1>4 DEF PInv, Control
<1> QED
  BY <1>3, <1>5, <1>6, <1>7, <1>8

LEMMA EnterMetaKept ==
  ASSUME PInv, LimitInv', phase = "runtime", paged_, EnterMeta,
         UNCHANGED <<denseVars, paged_, phase, applyVars, loopVars, outcome>>
  PROVE  PInv'
<1> DEFINE i == cur + 1
<1>1. /\ op = "bind" /\ cur < Len(batch) /\ cur' = i
      /\ kv_len' = [kv_len EXCEPT ![batch[i]] = NewKvLen(batch[i])]
      /\ UNCHANGED <<is_prefill_, seq_len, kv_pages, op, batch, broken>>
  BY DEF EnterMeta
<1>2. /\ cur \in 0 .. NumPrompts /\ NumPrompts \in Nat /\ Len(batch) = NumPrompts
      /\ is_prefill_ = from_prefill
  BY AtWork
<1>3. /\ i \in 1 .. NumPrompts /\ ~(i <= cur)
      /\ \A j \in 1 .. NumPrompts : j # i => (j <= i <=> j <= cur)
      /\ \A j \in 1 .. NumPrompts : j > i => j > cur
      /\ i <= i
  BY <1>1, <1>2
<1> HIDE DEF i
<1>4. batch[i] = Mine(i) /\ Mine(i) \in Requests
  BY <1>3, AtWork
<1>5. \A r : Empty(r)' = Empty(r)
  BY <1>1 DEF Empty
<1>6. \A r \in Requests : r # Mine(i) => kv_len'[r] = kv_len[r] /\ Untouched(r)' = Untouched(r)
  <2>1. kv_len \in [Requests -> Nat]
    BY DEF PInv, LimitInv, CoverInv, Inv, TypeOK
  <2> QED BY <1>1, <1>4, <1>5, <2>1 DEF Untouched
<1>7. kv_len'[Mine(i)] = InCache(i) + Fed(i)
  <2>1. kv_len \in [Requests -> Nat]
    BY DEF PInv, LimitInv, CoverInv, Inv, TypeOK
  <2>2. kv_len'[Mine(i)] = NewKvLen(Mine(i))
    BY <1>1, <1>4, <2>1
  <2>3. /\ kv_len[Mine(i)] = InCache(i) + IF i <= cur THEN Fed(i) ELSE 0
        /\ seq_len[Mine(i)] = Fed(i) /\ prompts[i] \in Nat
    BY <1>3, AtWork
  <2>4. kv_len[Mine(i)] = InCache(i) + 0
    BY <1>3, <2>3
  <2>5. CASE from_prefill
    <3>1. InCache(i) = 0 /\ Fed(i) = prompts[i]
      BY <1>3, <2>5, InPrefill
    <3>2. NewKvLen(Mine(i)) = Fed(i)
      BY <1>2, <2>3, <2>5 DEF NewKvLen
    <3> QED BY <2>2, <2>3, <3>1, <3>2
  <2>6. CASE ~from_prefill
    <3>1. Rounds \in Nat /\ InCache(i) = prompts[i] + Rounds - 1 /\ Fed(i) = 1
      BY <1>3, <2>6, InDecode
    <3>2. NewKvLen(Mine(i)) = kv_len[Mine(i)] + 1
      BY <1>2, <2>6 DEF NewKvLen
    <3> QED BY <2>2, <2>3, <2>4, <3>1, <3>2
  <2> QED BY <2>5, <2>6
<1>8. op' # "idle" /\ \A r \in Requests : r[1] < calls /\ Empty(r) => Empty(r)'
  BY <1>1, <1>5
<1>9. /\ PTypeOK' /\ WithinLimitsBinds' /\ MetasGone' /\ Control' /\ RoundsCounted' /\ DenseCounted'
      /\ NumPrompts' = NumPrompts
      /\ \A j \in 1 .. NumPrompts : Mine(j)' = Mine(j) /\ InCache(j)' = InCache(j) /\ Fed(j)' = Fed(j)
  BY <1>1, <1>8, AtWorkKept
<1>10. UNCHANGED <<paged_, phase, calls, from_prefill>>
  BY DEF applyVars, loopVars
<1>11. /\ \A j \in 1 .. NumPrompts :
             /\ Mine(j) \in Requests /\ Mine(j)[1] = calls /\ Mine(j)[2] = j
             /\ kv_len[Mine(j)] = InCache(j) + IF j <= cur THEN Fed(j) ELSE 0
             /\ seq_len[Mine(j)] = Fed(j)
       /\ calls \in Nat
  BY AtWork, MetasAre DEF PInv
<1>12. KvCounted'
  <2>1. ASSUME NEW j \in 1 .. NumPrompts
        PROVE  kv_len'[Mine(j)] = InCache(j) + IF j <= i THEN Fed(j) ELSE 0
    <3>1. CASE j = i
      BY <1>3, <1>7, <3>1
    <3>2. CASE j # i
      <4>1. Mine(j) # Mine(i)
        BY <1>3, <1>11, <3>2
      <4>2. kv_len'[Mine(j)] = kv_len[Mine(j)]
        BY <1>6, <1>11, <4>1
      <4> QED BY <1>3, <1>11, <3>2, <4>2
    <3> QED BY <3>1, <3>2
  <2>2. \A j \in 1 .. NumPrompts : seq_len'[Mine(j)] = Fed(j)
    BY <1>1, <1>11
  <2>3. phase' = "runtime"
    BY <1>10
  <2>4. phase' \notin {"loop", "sample"}
    BY <2>3
  <2> QED BY <1>1, <1>9, <2>1, <2>2, <2>3, <2>4 DEF KvCounted
<1>13. MetasFresh'
  <2>1. ASSUME NEW r \in Requests, r[1] > calls \/ (r[1] = calls /\ r[2] > NumPrompts)
        PROVE  Untouched(r)'
    <3>1. r # Mine(i)
      BY <1>2, <1>3, <1>11, <2>1
    <3>2. Untouched(r)
      BY <2>1 DEF PInv, MetasFresh
    <3> QED BY <1>6, <3>1, <3>2
  <2>2. ASSUME from_prefill, NEW j \in 1 .. NumPrompts, j > i
        PROVE  Untouched(Mine(j))'
    <3>1. Mine(j) # Mine(i) /\ j > cur
      BY <1>2, <1>3, <1>11, <2>2
    <3>2. Untouched(Mine(j))
      BY <2>2, <3>1 DEF PInv, MetasFresh
    <3>3. \A r \in Requests : r # Mine(i) => kv_len'[r] = kv_len[r]
      BY <1>6
    <3>4. kv_len'[Mine(j)] = 0 /\ Empty(Mine(j))
      BY <1>11, <3>1, <3>2, <3>3 DEF Untouched
    <3> QED BY <1>1, <1>9, <3>4 DEF Untouched, Empty
  <2> QED BY <1>1, <1>5, <1>9, <1>10, <2>1, <2>2 DEF PInv, MetasFresh
<1> QED
  BY <1>9, <1>12, <1>13 DEF PInv

LEMMA VisitLayerKept ==
  ASSUME PInv, LimitInv', phase = "runtime", paged_, NEW l \in Layers, VisitLayer(l),
         UNCHANGED <<denseVars, paged_, phase, applyVars, loopVars, outcome>>
  PROVE  PInv'
<1>1. op = "bind" /\ l \in todo /\ UNCHANGED <<is_prefill_, seq_len, kv_len, op, batch, cur, broken>>
  BY DEF VisitLayer
<1>2. cur \in 1 .. NumPrompts /\ cur \in Nat /\ NumPrompts \in Nat
  <2>1. cur > 0
    BY <1>1 DEF PInv, LimitInv, CoverInv, Inv, TypeOK
  <2>2. cur \in 0 .. NumPrompts /\ NumPrompts \in Nat
    BY AtWork
  <2> QED BY <2>1, <2>2
<1>3. batch[cur] = Mine(cur)
  BY <1>2, AtWork
<1>4. /\ \A j \in 1 .. NumPrompts :
            /\ Mine(j) \in Requests /\ Mine(j)[1] = calls /\ Mine(j)[2] = j
            /\ kv_len[Mine(j)] = InCache(j) + IF j <= cur THEN Fed(j) ELSE 0
            /\ seq_len[Mine(j)] = Fed(j)
      /\ calls \in Nat
  BY AtWork, MetasAre DEF PInv
<1>5. \A r \in Requests : r # Mine(cur) => Empty(r)' = Empty(r) /\ Untouched(r)' = Untouched(r)
  <2>1. \A m \in Layers, r \in Requests : r # Mine(cur) => kv_pages'[m][r] = kv_pages[m][r]
    BY <1>3, VisitCatchesUp DEF PInv, LimitInv
  <2> QED BY <1>1, <2>1 DEF Empty, Untouched
<1>6. op' # "idle" /\ UNCHANGED <<batch, is_prefill_>>
  BY <1>1
<1>7. \A r \in Requests : r[1] < calls /\ Empty(r) => Empty(r)'
  <2> SUFFICES ASSUME NEW r \in Requests, r[1] < calls PROVE r # Mine(cur)
    BY <1>5
  <2>1. r[1] # calls
    BY <1>4
  <2> QED BY <1>2, <1>4, <2>1
<1>8. /\ PTypeOK' /\ WithinLimitsBinds' /\ MetasGone' /\ Control' /\ RoundsCounted' /\ DenseCounted'
      /\ NumPrompts' = NumPrompts
      /\ \A j \in 1 .. NumPrompts : Mine(j)' = Mine(j) /\ InCache(j)' = InCache(j) /\ Fed(j)' = Fed(j)
  BY <1>6, <1>7, AtWorkKept
<1>9. UNCHANGED <<paged_, phase, calls, from_prefill>>
  BY DEF applyVars, loopVars
<1>10. KvCounted'
  <2>1. phase' = "runtime"
    BY <1>9
  <2>2. phase' \notin {"loop", "sample"}
    BY <2>1
  <2> QED BY <1>1, <1>4, <1>8, <2>1, <2>2 DEF KvCounted
<1>11. MetasFresh'
  <2>1. ASSUME NEW r \in Requests, r[1] > calls \/ (r[1] = calls /\ r[2] > NumPrompts)
        PROVE  Untouched(r)'
    <3>1. r # Mine(cur)
      BY <1>2, <1>4, <2>1
    <3>2. Untouched(r)
      BY <2>1 DEF PInv, MetasFresh
    <3> QED BY <1>5, <3>1, <3>2
  <2>2. ASSUME from_prefill, NEW j \in 1 .. NumPrompts, j > cur
        PROVE  Untouched(Mine(j))'
    <3>1. Mine(j) # Mine(cur)
      BY <1>2, <1>4, <2>2
    <3>2. Untouched(Mine(j))
      BY <2>2 DEF PInv, MetasFresh
    <3>3. kv_len[Mine(j)] = 0 /\ \A m \in Layers : kv_pages'[m][Mine(j)] = <<>>
      <4>1. \A m \in Layers, r \in Requests : r # Mine(cur) => kv_pages'[m][r] = kv_pages[m][r]
        BY <1>3, VisitCatchesUp DEF PInv, LimitInv
      <4> QED BY <1>4, <3>1, <3>2, <4>1 DEF Untouched, Empty
    <3> QED BY <1>1, <1>8, <3>3 DEF Untouched, Empty
  <2>3. \A r \in Requests : r \in broken' => r \in broken
    BY <1>1
  <2> QED BY <1>1, <1>8, <1>9, <2>1, <2>2, <2>3 DEF PInv, MetasFresh
<1> QED
  BY <1>8, <1>10, <1>11 DEF PInv

LEMMA PublishKept ==
  ASSUME PInv, LimitInv', phase = "runtime", paged_, Publish,
         UNCHANGED <<denseVars, paged_, phase, applyVars, loopVars, outcome>>
  PROVE  PInv'
<1>1. op' = "bound" /\ UNCHANGED <<is_prefill_, seq_len, kv_len, kv_pages, batch, cur, broken>>
  BY DEF Publish
<1>2. \A r : Empty(r)' = Empty(r) /\ Untouched(r)' = Untouched(r)
  BY <1>1 DEF Empty, Untouched
<1>3. op' # "idle"
  BY <1>1
<1>4. /\ PTypeOK' /\ WithinLimitsBinds' /\ MetasGone' /\ Control' /\ RoundsCounted' /\ DenseCounted'
      /\ NumPrompts' = NumPrompts
      /\ \A j \in 1 .. NumPrompts : Mine(j)' = Mine(j) /\ InCache(j)' = InCache(j) /\ Fed(j)' = Fed(j)
  BY <1>1, <1>2, <1>3, AtWorkKept
<1>5. UNCHANGED <<paged_, phase, calls, from_prefill>>
  BY DEF applyVars, loopVars
<1>6. KvCounted'
  <2>1. phase' = "runtime"
    BY <1>5
  <2>2. phase' \notin {"loop", "sample"}
    BY <2>1
  <2>3. \A j \in 1 .. NumPrompts : /\ kv_len[Mine(j)] = InCache(j) + IF j <= cur THEN Fed(j) ELSE 0
                                   /\ seq_len[Mine(j)] = Fed(j)
    BY AtWork
  <2> QED BY <1>1, <1>4, <2>1, <2>2, <2>3 DEF KvCounted
<1>7. MetasFresh'
  <2>1. \A i \in 1 .. NumPrompts : Untouched(Mine(i))' = Untouched(Mine(i))
    BY <1>1, <1>4 DEF Untouched, Empty
  <2> QED BY <1>1, <1>2, <1>4, <1>5, <2>1 DEF PInv, MetasFresh
<1> QED
  BY <1>4, <1>6, <1>7 DEF PInv

LEMMA RuntimeStepKept ==
  ASSUME PInv, LimitInv', Runtime
  PROVE  PInv'
BY EnterMetaKept, VisitLayerKept, PublishKept DEF Runtime

-----------------------------------------------------------------------------
(* execute returns.                                                         *)

(* What has been stored when it does: nothing is left of the tokens fed.    *)
LEMMA InCacheAfter ==
  ASSUME PInv, phase = "runtime", AfterExecute, UNCHANGED <<prompts, from_prefill, generated>>
  PROVE  /\ phase' \in Phases /\ phase' \notin {"idle", "prefill", "runtime", "loop", "destroy"}
         /\ phase' = "prefilled" <=> from_prefill
         /\ Rounds' = Rounds
         /\ \A i \in 1 .. NumPrompts : InCache(i)' = InCache(i) + Fed(i)
<1>1. phase' = IF from_prefill THEN "prefilled" ELSE "sample"
  BY DEF AfterExecute
<1>2. /\ phase' \in Phases /\ phase' \notin {"idle", "prefill", "runtime", "loop", "destroy"}
      /\ phase' = "prefilled" <=> from_prefill
  BY <1>1 DEF Phases
<1>3. Rounds' = Rounds
  BY DEF Rounds
<1>4. ASSUME NEW i \in 1 .. NumPrompts PROVE InCache(i)' = InCache(i) + Fed(i)
  <2>1. prompts[i] \in Nat
    BY MetasAre DEF PInv
  <2>2. CASE from_prefill
    <3>1. InCache(i) = 0 /\ Fed(i) = prompts[i]
      BY <2>2, InPrefill
    <3>2. InCache(i)' = prompts[i]
      BY <1>1, <2>2 DEF InCache
    <3> QED BY <2>1, <3>1, <3>2
  <2>3. CASE ~from_prefill
    <3>1. Rounds \in Nat /\ InCache(i) = prompts[i] + Rounds - 1 /\ Fed(i) = 1
      BY <2>3, InDecode
    <3>2. InCache(i)' = prompts[i] + Rounds
      BY <1>1, <1>3, <2>3 DEF InCache
    <3> QED BY <2>1, <3>1, <3>2
  <2> QED BY <2>2, <2>3
<1> QED
  BY <1>2, <1>3, <1>4

(* The rounds after it.                                                     *)
LEMMA RoundsAfter ==
  ASSUME PInv, phase = "runtime", AfterExecute, NumPrompts' = NumPrompts,
         UNCHANGED <<max_new_tokens, prompts, from_prefill, generated>>
  PROVE  RoundsCounted'
<1>1. /\ phase' \notin {"idle", "prefill", "runtime", "loop", "destroy"} /\ Rounds' = Rounds
      /\ phase' = "prefilled" <=> from_prefill
  BY InCacheAfter
<1>2. CASE from_prefill
  BY <1>1, <1>2 DEF RoundsCounted, InLoop
<1>3. CASE ~from_prefill
  BY <1>1, <1>3 DEF PInv, RoundsCounted, InLoop
<1> QED
  BY <1>2, <1>3

LEMMA ExecutedKept ==
  ASSUME PInv, LimitInv', Executed
  PROVE  PInv'
<1>1. /\ phase = "runtime" /\ paged_ /\ AfterExecute
      /\ UNCHANGED <<cache_length, ran, paged_, calls, prompts, max_new_tokens, from_prefill,
                     generated, outcome>>
  BY DEF Executed, denseVars, applyVars, loopVars
<1>2. op = "bound" /\ op' = "idle" /\ UNCHANGED <<is_prefill_, seq_len, kv_len, kv_pages, broken>>
  BY DEF Executed, Execute
<1>3. /\ phase' \in Phases /\ phase' \notin {"idle", "prefill", "runtime", "loop", "destroy"}
      /\ phase' = "prefilled" <=> from_prefill
      /\ \A i \in 1 .. NumPrompts : InCache(i)' = InCache(i) + Fed(i)
  BY <1>1, InCacheAfter
<1>4. \A r : Empty(r)' = Empty(r) /\ Untouched(r)' = Untouched(r)
  BY <1>2 DEF Empty, Untouched
<1>5. /\ phase # "idle" /\ phase' # "idle" /\ from_prefill' \in BOOLEAN
      /\ ran' \in 0 .. Len(AttnTasks) /\ DOMAIN cache_length' = Layers
  BY <1>1, <1>3 DEF PInv, PTypeOK
<1>6. /\ PTypeOK' /\ WithinLimitsBinds' /\ MetasGone'
      /\ NumPrompts' = NumPrompts
      /\ \A i \in 1 .. NumPrompts : Mine(i)' = Mine(i)
  BY <1>1, <1>3, <1>4, <1>5, InCallKept
<1>7. RoundsCounted'
  BY <1>1, <1>6, RoundsAfter
<1>8. ran = 0 /\ is_prefill_ = from_prefill /\ NumPrompts <= MaxRequestNum
  BY <1>1 DEF PInv, Control
<1>9. Control'
  BY <1>1, <1>2, <1>3, <1>6, <1>8 DEF Control, RowsMatch
<1>10. KvCounted'
  <2>1. cur = NumPrompts /\ NumPrompts \in Nat
    BY <1>1, <1>2, AtWork DEF PInv, LimitInv, CoverInv, Place
  <2>2. ASSUME NEW i \in 1 .. NumPrompts
        PROVE  /\ kv_len[Mine(i)] = InCache(i)' + 0
               /\ ~from_prefill => seq_len[Mine(i)] = 1
    <3>1. i <= cur
      BY <2>1
    <3>2. kv_len[Mine(i)] = InCache(i) + Fed(i) /\ seq_len[Mine(i)] = Fed(i)
      BY <1>1, <3>1, AtWork
    <3>3. kv_len[Mine(i)] \in Nat
      BY <1>1, AtWork DEF PInv, LimitInv, CoverInv, Inv, TypeOK
    <3> QED BY <1>3, <3>2, <3>3 DEF Fed
  <2> QED BY <1>2, <1>3, <1>6, <2>2 DEF KvCounted
<1>11. DenseCounted'
  BY <1>1 DEF DenseCounted
<1>12. MetasFresh'
  BY <1>1, <1>2, <1>3, <1>4, <1>6 DEF PInv, MetasFresh
<1> QED
  BY <1>6, <1>7, <1>9, <1>10, <1>11, <1>12 DEF PInv

(* A layer counts the tokens: the others are untouched.                     *)
LEMMA ExecuteLayerKept ==
  ASSUME PInv, LimitInv', ExecuteLayer
  PROVE  PInv'
<1>1. /\ phase = "runtime" /\ ~paged_ /\ InputsFit /\ RunLayer(InputTokens)
      /\ UNCHANGED <<is_prefill_, op, cur, kv_len, kv_pages, seq_len, broken, paged_, phase, calls, prompts,
                     max_new_tokens, from_prefill, generated, pos_ids, outcome>>
  BY DEF ExecuteLayer, vars, callVars, applyVars, loopVars
<1> DEFINE k == ran + 1
<1>2. /\ ran < Len(AttnTasks) /\ ran' = k
      /\ cache_length' = [cache_length EXCEPT ![NextLayer] = InputTokens + CacheBefore(NextLayer)]
  BY <1>1 DEF RunLayer
<1>3. /\ ran \in Nat /\ k \in DOMAIN AttnTasks /\ k \in 0 .. Len(AttnTasks) /\ ~(k <= ran)
      /\ \A m \in DOMAIN AttnTasks : m # k => (m <= k <=> m <= ran)
      /\ k <= k
  <2>1. ran \in 0 .. Len(AttnTasks) /\ Len(AttnTasks) \in Nat /\ DOMAIN AttnTasks = 1 .. Len(AttnTasks)
    BY AttnTasksType DEF PInv, PTypeOK
  <2> QED BY <1>2, <2>1
<1>4. NextLayer = AttnTasks[k]
  BY DEF NextLayer
<1> HIDE DEF k
<1>5. /\ NextLayer \in Layers
      /\ \A m \in DOMAIN AttnTasks : AttnTasks[m] \in Layers /\ (m # k => AttnTasks[m] # NextLayer)
  BY <1>3, <1>4, AttnTasksType
<1>6. DOMAIN cache_length = Layers /\ is_prefill_ = from_prefill /\ phase # "idle" /\ op = "idle"
  BY <1>1 DEF PInv, PTypeOK, Control
<1>7. /\ cache_length'[NextLayer] = InputTokens + CacheBefore(NextLayer)
      /\ \A m \in DOMAIN AttnTasks : m # k => cache_length'[AttnTasks[m]] = cache_length[AttnTasks[m]]
      /\ DOMAIN cache_length' = Layers
  BY <1>2, <1>5, <1>6
<1>8. \A r : Empty(r)' = Empty(r) /\ Untouched(r)' = Untouched(r)
  BY <1>1 DEF Empty, Untouched
<1>9. phase' \in Phases /\ phase' # "idle" /\ from_prefill' \in BOOLEAN /\ ran' \in 0 .. Len(AttnTasks)
  BY <1>1, <1>2, <1>3 DEF PInv, PTypeOK, Phases
<1>10. /\ PTypeOK' /\ WithinLimitsBinds' /\ MetasGone' /\ NumPrompts' = NumPrompts
       /\ \A i \in 1 .. NumPrompts : Mine(i)' = Mine(i)
  BY <1>1, <1>6, <1>7, <1>8, <1>9, InCallKept
<1>11. Rounds' = Rounds /\ RowsMatch' = RowsMatch /\ InputsFit'
  <2>1. InputsFit' = InputsFit
    BY <1>1 DEF InputsFit, InputTokens, TokensUpTo, max_requests, NumPrompts
  <2> QED BY <1>1, <1>10, <2>1 DEF Rounds, RowsMatch
<1>12. Control'
  BY <1>1, <1>6, <1>10, <1>11 DEF PInv, Control
<1>13. RoundsCounted'
  BY <1>1, <1>10, <1>11 DEF PInv, RoundsCounted, InLoop
<1>14. KvCounted'
  BY <1>1 DEF KvCounted
<1>15. DenseCounted'
  <2>1. \A i : InCache(i)' = InCache(i) /\ Fed(i)' = Fed(i)
    BY <1>1, <1>11 DEF InCache, Fed
  <2> SUFFICES ASSUME NumPrompts = 1
               PROVE  \A m \in DOMAIN AttnTasks :
                        IF m <= k THEN cache_length'[AttnTasks[m]] = InCache(1) + Fed(1)
                        ELSE from_prefill \/ cache_length'[AttnTasks[m]] = InCache(1)
    BY <1>1, <1>2, <1>10, <2>1 DEF DenseCounted
  <2>2. \A m \in DOMAIN AttnTasks :
          IF m <= ran THEN cache_length[AttnTasks[m]] = InCache(1) + Fed(1)
          ELSE from_prefill \/ cache_length[AttnTasks[m]] = InCache(1)
    BY <1>1 DEF PInv, DenseCounted, Running
  <2>3. InputTokens = Fed(1) /\ Fed(1) \in Nat /\ prompts[1] \in Nat /\ 1 \in 1 .. NumPrompts
    BY <1>6, OneInput
  <2>4. cache_length'[AttnTasks[k]] = InCache(1) + Fed(1)
    <3>1. CASE from_prefill
      <4>1. InCache(1) = 0 /\ CacheBefore(NextLayer) = 0
        BY <1>1, <1>6, <2>3, <3>1, InPrefill DEF CacheBefore
      <4> QED BY <1>4, <1>7, <2>3, <4>1
    <3>2. CASE ~from_prefill
      <4>1. CacheBefore(NextLayer) = InCache(1)
        BY <1>3, <1>4, <1>6, <2>2, <3>2 DEF CacheBefore
      <4>2. Rounds \in Nat /\ InCache(1) = prompts[1] + Rounds - 1
        BY <1>1, <2>3, <3>2, InDecode
      <4> QED BY <1>4, <1>7, <2>3, <4>1, <4>2
    <3> QED BY <3>1, <3>2
  <2>5. ASSUME NEW m \in DOMAIN AttnTasks
        PROVE  IF m <= k THEN cache_length'[AttnTasks[m]] = InCache(1) + Fed(1)
               ELSE from_prefill \/ cache_length'[AttnTasks[m]] = InCache(1)
    <3>1. CASE m = k
      BY <1>3, <2>4, <3>1
    <3>2. CASE m # k
      BY <1>3, <1>7, <2>2, <3>2
    <3> QED BY <3>1, <3>2
  <2> QED BY <2>5
<1>16. MetasFresh'
  BY <1>1, <1>8, <1>10 DEF PInv, MetasFresh
<1> QED
  BY <1>10, <1>12, <1>13, <1>14, <1>15, <1>16 DEF PInv

LEMMA ExecutedDenseKept ==
  ASSUME PInv, LimitInv', ExecutedDense
  PROVE  PInv'
<1>1. /\ phase = "runtime" /\ ~paged_ /\ LayersDone /\ AfterExecute
      /\ UNCHANGED <<is_prefill_, op, kv_len, kv_pages, seq_len, broken, paged_, calls, prompts,
                     max_new_tokens, from_prefill, generated, pos_ids, outcome>>
  BY DEF ExecutedDense, vars, callVars, applyVars, loopVars
<1>2. ran = Len(AttnTasks) /\ ran' = 0 /\ cache_length' = cache_length
  BY <1>1 DEF LayersDone
<1>3. /\ phase' \in Phases /\ phase' \notin {"idle", "prefill", "runtime", "loop", "destroy"}
      /\ phase' = "prefilled" <=> from_prefill
      /\ \A i \in 1 .. NumPrompts : InCache(i)' = InCache(i) + Fed(i)
  BY <1>1, InCacheAfter
<1>4. \A r : Empty(r)' = Empty(r) /\ Untouched(r)' = Untouched(r)
  BY <1>1 DEF Empty, Untouched
<1>5. /\ phase # "idle" /\ phase' # "idle" /\ from_prefill' \in BOOLEAN
      /\ ran' \in 0 .. Len(AttnTasks) /\ DOMAIN cache_length' = Layers
  BY <1>1, <1>2, <1>3, AttnTasksType DEF PInv, PTypeOK
<1>6. /\ PTypeOK' /\ WithinLimitsBinds' /\ MetasGone' /\ NumPrompts' = NumPrompts
      /\ \A i \in 1 .. NumPrompts : Mine(i)' = Mine(i)
  BY <1>1, <1>3, <1>4, <1>5, InCallKept
<1>7. RoundsCounted'
  BY <1>1, <1>6, RoundsAfter
<1>8. is_prefill_ = from_prefill /\ op = "idle" /\ (~from_prefill => RowsMatch)
  BY <1>1 DEF PInv, Control
<1>9. Control'
  BY <1>1, <1>2, <1>3, <1>6, <1>8 DEF Control, RowsMatch
<1>10. KvCounted'
  BY <1>1 DEF KvCounted
<1>11. DenseCounted'
  <2> SUFFICES ASSUME NumPrompts = 1, NEW k \in DOMAIN AttnTasks
               PROVE  cache_length[AttnTasks[k]] = InCache(1)'
    BY <1>1, <1>2, <1>3, <1>6 DEF DenseCounted
  <2>1. k <= ran
    BY <1>2, AttnTasksType
  <2>2. cache_length[AttnTasks[k]] = InCache(1) + Fed(1)
    BY <1>1, <2>1 DEF PInv, DenseCounted, Running
  <2>3. 1 \in 1 .. NumPrompts
    OBVIOUS
  <2> QED BY <1>3, <2>2, <2>3
<1>12. MetasFresh'
  BY <1>1, <1>3, <1>4, <1>6 DEF PInv, MetasFresh
<1> QED
  BY <1>6, <1>7, <1>9, <1>10, <1>11, <1>12 DEF PInv

-----------------------------------------------------------------------------
(* The loop.                                                                *)

(* The runtime is not at work.                                              *)
LEMMA AtRest ==
  ASSUME PInv, phase \notin {"idle", "runtime"}
  PROVE  /\ op = "idle" /\ ran = 0 /\ ran \in 0 .. Len(AttnTasks) /\ DOMAIN cache_length = Layers
         /\ Running <=> phase # "destroy"
BY DEF PInv, Control, PTypeOK, Running

LEMMA StartDecodingKept ==
  ASSUME PInv, LimitInv', StartDecoding
  PROVE  PInv'
<1>1. /\ phase = "prefilled" /\ phase' = "loop" /\ is_prefill_' = FALSE
      /\ seq_len' = [r \in Requests |-> IF r \in Range(request_metas) THEN 1 ELSE seq_len[r]]
      /\ generated' = [i \in 1 .. NumPrompts |-> <<>>]
      /\ UNCHANGED <<op, kv_len, kv_pages, broken, cache_length, ran, paged_, calls, prompts,
                     max_new_tokens, from_prefill, outcome>>
  BY DEF StartDecoding, callVars, denseVars, applyVars
<1>2. op = "idle" /\ ran = 0 /\ ran \in 0 .. Len(AttnTasks) /\ DOMAIN cache_length = Layers /\ Running
  BY <1>1, AtRest
<1>3. from_prefill /\ (paged_ => NumPrompts <= MaxRequestNum)
  BY <1>1 DEF PInv, Control
<1>4. \A r : Empty(r)' = Empty(r) /\ Untouched(r)' = Untouched(r)
  BY <1>1 DEF Empty, Untouched
<1>5. phase # "idle" /\ phase' # "idle" /\ phase' \in Phases /\ from_prefill' \in BOOLEAN
  BY <1>1 DEF PInv, PTypeOK, Phases
<1>6. /\ PTypeOK' /\ WithinLimitsBinds' /\ MetasGone' /\ NumPrompts' = NumPrompts
      /\ \A i \in 1 .. NumPrompts : Mine(i)' = Mine(i)
  BY <1>1, <1>2, <1>4, <1>5, InCallKept
<1>7. \A i \in 1 .. NumPrompts : InCache(i)' = InCache(i)
  BY <1>1, <1>3 DEF InCache
<1>8. ASSUME NEW i \in 1 .. NumPrompts PROVE seq_len'[Mine(i)] = 1
  <2>1. Mine(i) \in Requests /\ Mine(i) \in Range(request_metas)
    BY <1>5, MetasAre DEF PInv, Range
  <2> HIDE DEF request_metas
  <2> QED BY <1>1, <2>1
<1>9. Control'
  BY <1>1, <1>2, <1>3, <1>6 DEF Control
<1>10. RoundsCounted'
  <2>1. 1 \in 1 .. NumPrompts
    BY <1>5, MetasAre DEF PInv
  <2>2. \A i \in 1 .. NumPrompts : generated'[i] = <<>>
    BY <1>1
  <2>3. Rounds' = 0 /\ \A i \in 1 .. NumPrompts : Len(generated'[i]) = 0
    BY <2>1, <2>2 DEF Rounds
  <2>4. generated' \in [1 .. NumPrompts -> Seq(BOOLEAN)]
    BY <1>1
  <2> QED BY <1>1, <1>3, <1>6, <2>3, <2>4 DEF RoundsCounted
<1>11. KvCounted'
  <2>1. paged_ => \A i \in 1 .. NumPrompts : kv_len[Mine(i)] = InCache(i) + 0
    BY <1>1, <1>2 DEF PInv, KvCounted
  <2> QED BY <1>1, <1>6, <1>7, <1>8, <2>1 DEF KvCounted
<1>12. DenseCounted'
  <2> SUFFICES ASSUME ~paged_, NumPrompts = 1, NEW k \in DOMAIN AttnTasks
               PROVE  cache_length[AttnTasks[k]] = InCache(1)
    <3>1. 1 \in 1 .. 1
      OBVIOUS
    <3> QED BY <1>1, <1>6, <1>7, <3>1 DEF DenseCounted
  <2> QED BY <1>1, <1>2 DEF PInv, DenseCounted
<1>13. MetasFresh'
  BY <1>1, <1>4, <1>6 DEF PInv, MetasFresh
<1> QED
  BY <1>6, <1>9, <1>10, <1>11, <1>12, <1>13 DEF PInv

(* Only where apply is changes.                                             *)
LEMMA UsePrefillLogitsKept ==
  ASSUME PInv, LimitInv', UsePrefillLogits
  PROVE  PInv'
<1>1. /\ phase = "loop" /\ phase' = "sample" /\ Continues /\ from_prefill
      /\ UNCHANGED <<is_prefill_, op, seq_len, kv_len, kv_pages, broken, cache_length, ran, paged_,
                     calls, prompts, max_new_tokens, from_prefill, generated, pos_ids, outcome>>
  BY DEF UsePrefillLogits, vars, callVars, denseVars, applyVars, loopVars
<1>2. op = "idle" /\ ran = 0 /\ ran \in 0 .. Len(AttnTasks) /\ DOMAIN cache_length = Layers /\ Running
  BY <1>1, AtRest
<1>3. ~is_prefill_ /\ (paged_ => NumPrompts <= MaxRequestNum)
  BY <1>1 DEF PInv, Control
<1>4. \A r : Empty(r)' = Empty(r) /\ Untouched(r)' = Untouched(r)
  BY <1>1 DEF Empty, Untouched
<1>5. phase # "idle" /\ phase' # "idle" /\ phase' \in Phases /\ from_prefill' \in BOOLEAN
  BY <1>1 DEF PInv, PTypeOK, Phases
<1>6. /\ PTypeOK' /\ WithinLimitsBinds' /\ MetasGone' /\ NumPrompts' = NumPrompts
      /\ \A i \in 1 .. NumPrompts : Mine(i)' = Mine(i)
  BY <1>1, <1>2, <1>4, <1>5, InCallKept
<1>7. Rounds' = Rounds /\ \A i \in 1 .. NumPrompts : InCache(i)' = InCache(i)
  BY <1>1 DEF InCache, Rounds
<1>8. Control'
  BY <1>1, <1>2, <1>3, <1>6 DEF Control
<1>9. RoundsCounted'
  BY <1>1, <1>6, <1>7 DEF PInv, RoundsCounted, InLoop, Continues, Rounds
<1>10. KvCounted'
  <2>1. paged_ => \A i \in 1 .. NumPrompts :
                    kv_len[Mine(i)] = InCache(i) + 0 /\ seq_len[Mine(i)] = 1
    BY <1>1, <1>2 DEF PInv, KvCounted
  <2> QED BY <1>1, <1>6, <1>7, <2>1 DEF KvCounted
<1>11. DenseCounted'
  <2> SUFFICES ASSUME ~paged_, NumPrompts = 1, NEW k \in DOMAIN AttnTasks
               PROVE  cache_length[AttnTasks[k]] = InCache(1)
    <3>1. 1 \in 1 .. 1
      OBVIOUS
    <3> QED BY <1>1, <1>6, <1>7, <3>1 DEF DenseCounted
  <2> QED BY <1>1, <1>2 DEF PInv, DenseCounted
<1>12. MetasFresh'
  BY <1>1, <1>4, <1>6 DEF PInv, MetasFresh
<1> QED
  BY <1>6, <1>8, <1>9, <1>10, <1>11, <1>12 DEF PInv

LEMMA LoopEndsKept ==
  ASSUME PInv, LimitInv', LoopEnds
  PROVE  PInv'
<1>1. /\ phase = "loop" /\ phase' = "destroy"
      /\ UNCHANGED <<is_prefill_, op, seq_len, kv_len, kv_pages, broken, cache_length, ran, paged_,
                     calls, prompts, max_new_tokens, from_prefill, generated, pos_ids, outcome>>
  BY DEF LoopEnds, vars, callVars, denseVars, applyVars, loopVars
<1>2. op = "idle" /\ ran = 0 /\ ran \in 0 .. Len(AttnTasks) /\ DOMAIN cache_length = Layers
  BY <1>1, AtRest
<1>3. ~is_prefill_ /\ (paged_ => NumPrompts <= MaxRequestNum)
  BY <1>1 DEF PInv, Control
<1>4. \A r : Empty(r)' = Empty(r) /\ Untouched(r)' = Untouched(r)
  BY <1>1 DEF Empty, Untouched
<1>5. phase # "idle" /\ phase' # "idle" /\ phase' \in Phases /\ from_prefill' \in BOOLEAN
  BY <1>1 DEF PInv, PTypeOK, Phases
<1>6. /\ PTypeOK' /\ WithinLimitsBinds' /\ MetasGone' /\ NumPrompts' = NumPrompts
      /\ \A i \in 1 .. NumPrompts : Mine(i)' = Mine(i)
  BY <1>1, <1>2, <1>4, <1>5, InCallKept
<1>7. Control' /\ RoundsCounted' /\ KvCounted' /\ DenseCounted'
  BY <1>1, <1>2, <1>3, <1>6
     DEF Control, RoundsCounted, InLoop, KvCounted, DenseCounted, Running
<1>8. MetasFresh'
  <2>1. ASSUME NEW i \in 1 .. NumPrompts, seq_len[Mine(i)] = 0 PROVE Empty(Mine(i))
    <3>1. CASE paged_
      BY <1>1, <2>1, <3>1 DEF PInv, KvCounted
    <3>2. CASE ~paged_
      BY <1>5, <3>2, MetasAre DEF PInv, MetasFresh
    <3> QED BY <3>1, <3>2
  <2>2. \A i \in 1 .. NumPrompts : Empty(Mine(i))' = Empty(Mine(i))
    BY <1>1, <1>6 DEF Empty
  <2> QED BY <1>1, <1>4, <1>6, <2>1, <2>2 DEF PInv, MetasFresh
<1> QED
  BY <1>6, <1>7, <1>8 DEF PInv

LEMMA DecodeKept ==
  ASSUME PInv, LimitInv', Decode
  PROVE  PInv'
<1>1. /\ phase = "loop" /\ phase' = "runtime" /\ Continues /\ ~from_prefill
      /\ UNCHANGED <<cache_length, ran, paged_, calls, prompts, max_new_tokens, from_prefill, generated,
                     pos_ids, outcome>>
  BY DEF Decode, denseVars, applyVars, loopVars
<1>2. /\ op = "idle" /\ ran = 0 /\ ran \in 0 .. Len(AttnTasks) /\ DOMAIN cache_length = Layers /\ Running
  BY <1>1, AtRest
<1>3. ~is_prefill_ /\ (paged_ => NumPrompts <= MaxRequestNum) /\ RowsMatch
  BY <1>1 DEF PInv, Control
<1>4. /\ UNCHANGED <<is_prefill_, kv_len, kv_pages, broken>>
      /\ paged_ => /\ op' = "bind" /\ batch' = request_metas /\ cur' = 0
                   /\ seq_len' = [r \in Requests |-> IF r \in Range(request_metas) THEN 1 ELSE seq_len[r]]
      /\ ~paged_ => op' = op
  <2>1. CASE paged_
    <3>1. Bind(request_metas, [r \in Range(request_metas) |-> 1])
      BY <2>1 DEF Decode
    <3>2. /\ op' = "bind" /\ batch' = request_metas /\ cur' = 0
          /\ UNCHANGED <<is_prefill_, kv_len, kv_pages, broken>>
          /\ seq_len' = [r \in Requests |->
                           IF r \in Range(request_metas) THEN [q \in Range(request_metas) |-> 1][r]
                           ELSE seq_len[r]]
      BY <3>1 DEF Bind
    <3> HIDE DEF request_metas
    <3> QED BY <2>1, <3>2
  <2>2. CASE ~paged_
    BY <2>2 DEF Decode, vars, callVars
  <2> QED BY <2>1, <2>2
<1>5. \A r : Empty(r)' = Empty(r) /\ Untouched(r)' = Untouched(r)
  BY <1>4 DEF Empty, Untouched
<1>6. phase # "idle" /\ phase' # "idle" /\ phase' \in Phases /\ from_prefill' \in BOOLEAN
  BY <1>1 DEF PInv, PTypeOK, Phases
<1>7. /\ PTypeOK' /\ WithinLimitsBinds' /\ MetasGone' /\ NumPrompts' = NumPrompts
      /\ request_metas' = request_metas /\ \A i \in 1 .. NumPrompts : Mine(i)' = Mine(i)
  BY <1>1, <1>2, <1>5, <1>6, InCallKept
<1>8. Rounds' = Rounds /\ RowsMatch' = RowsMatch /\ \A i \in 1 .. NumPrompts : InCache(i)' = InCache(i) /\ Fed(i)' = 1
  BY <1>1, <1>7 DEF InCache, Rounds, RowsMatch, Fed
<1>9. Control'
  <2>1. is_prefill_ = FALSE /\ from_prefill = FALSE
    BY <1>1, <1>3 DEF PInv, LimitInv, CoverInv, Inv, TypeOK, PTypeOK
  <2> HIDE DEF request_metas
  <2> QED BY <1>1, <1>2, <1>3, <1>4, <1>7, <1>8, <2>1 DEF Control
<1>10. RoundsCounted'
  BY <1>1, <1>7, <1>8 DEF PInv, RoundsCounted, InLoop, Continues, Rounds
<1>11. KvCounted'
  <2> SUFFICES ASSUME paged_, NEW i \in 1 .. NumPrompts
               PROVE  /\ kv_len[Mine(i)] = InCache(i) + IF i <= 0 THEN 1 ELSE 0
                      /\ seq_len'[Mine(i)] = 1
    BY <1>1, <1>4, <1>7, <1>8 DEF KvCounted
  <2>1. kv_len[Mine(i)] = InCache(i) + 0
    BY <1>1, <1>2 DEF PInv, KvCounted
  <2>2. ~(i <= 0)
    OBVIOUS
  <2>3. seq_len'[Mine(i)] = 1
    <3>1. Mine(i) \in Requests /\ Mine(i) \in Range(request_metas)
      BY <1>6, MetasAre DEF PInv, Range
    <3> HIDE DEF request_metas
    <3> QED BY <1>4, <3>1
  <2> QED BY <2>1, <2>2, <2>3
<1>12. DenseCounted'
  <2> SUFFICES ASSUME ~paged_, NumPrompts = 1, NEW k \in DOMAIN AttnTasks
               PROVE  ~(k <= 0) /\ cache_length[AttnTasks[k]] = InCache(1)
    <3>1. 1 \in 1 .. 1
      OBVIOUS
    <3> QED BY <1>1, <1>2, <1>7, <1>8, <3>1 DEF DenseCounted
  <2>1. ~(k <= 0)
    BY AttnTasksType
  <2> QED BY <1>1, <1>2, <2>1 DEF PInv, DenseCounted
<1>13. MetasFresh'
  BY <1>1, <1>4, <1>5, <1>7 DEF PInv, MetasFresh
<1> QED
  BY <1>7, <1>9, <1>10, <1>11, <1>12, <1>13 DEF PInv

(* What the processors pick is eos or not.                                  *)
LEMMA PicksType == Picks \cup {Eos} \subseteq BOOLEAN
<1>1. ASSUME NEW S, NEW e PROVE {t = e : t \in S} \subseteq BOOLEAN
  OBVIOUS
<1>2. Picks \subseteq BOOLEAN
  BY <1>1 DEF Picks
<1> QED
  BY <1>2 DEF Eos

(* One more token of each request, and its position.                        *)
LEMMA SampleKept ==
  ASSUME PInv, LimitInv', Sample
  PROVE  PInv'
<1>1. /\ phase = "sample" /\ phase' = "loop" /\ RowsMatch /\ from_prefill' = FALSE
      /\ pos_ids' = [i \in 1 .. NumPrompts |-> PosId(i, generated'[i])]
      /\ UNCHANGED <<is_prefill_, op, seq_len, kv_len, kv_pages, broken, cache_length, ran, paged_,
                     calls, prompts, max_new_tokens, outcome>>
  BY DEF Sample, vars, callVars, denseVars, applyVars
<1>2. PICK next_token \in [1 .. NumPrompts -> BOOLEAN] :
        generated' = [i \in 1 .. NumPrompts |-> Append(generated[i], next_token[i])]
  <2>1. PICK s \in NextTokens : generated' = [i \in 1 .. NumPrompts |-> Append(generated[i], s[i])]
    BY DEF Sample
  <2>2. s \in [1 .. NumPrompts -> Picks \cup {Eos}]
    BY DEF NextTokens
  <2>3. s \in [1 .. NumPrompts -> BOOLEAN]
    BY <2>2, PicksType
  <2> QED BY <2>1, <2>3
<1>3. op = "idle" /\ ran = 0 /\ ran \in 0 .. Len(AttnTasks) /\ DOMAIN cache_length = Layers /\ Running
  BY <1>1, AtRest
<1>4. ~is_prefill_ /\ (paged_ => NumPrompts <= MaxRequestNum)
  BY <1>1 DEF PInv, Control
<1>5. \A r : Empty(r)' = Empty(r) /\ Untouched(r)' = Untouched(r)
  BY <1>1 DEF Empty, Untouched
<1>6. phase # "idle" /\ phase' # "idle" /\ phase' \in Phases /\ from_prefill' \in BOOLEAN
  BY <1>1 DEF Phases
<1>7. /\ PTypeOK' /\ WithinLimitsBinds' /\ MetasGone' /\ NumPrompts' = NumPrompts
      /\ \A i \in 1 .. NumPrompts : Mine(i)' = Mine(i)
  BY <1>1, <1>3, <1>5, <1>6, InCallKept
<1>8. /\ generated \in [1 .. NumPrompts -> Seq(BOOLEAN)] /\ 1 \in 1 .. NumPrompts
      /\ \A i \in 1 .. NumPrompts : Len(generated[i]) = Rounds
      /\ from_prefill => Rounds = 0
  BY <1>1, <1>6, MetasAre DEF PInv, RoundsCounted, InLoop
<1>9. Rounds \in Nat
  BY <1>8 DEF Rounds
<1>10. /\ generated' \in [1 .. NumPrompts -> Seq(BOOLEAN)]
       /\ \A i \in 1 .. NumPrompts : Len(generated'[i]) = Rounds + 1
  <2>1. ASSUME NEW i \in 1 .. NumPrompts
        PROVE  /\ Append(generated[i], next_token[i]) \in Seq(BOOLEAN)
               /\ Len(Append(generated[i], next_token[i])) = Rounds + 1
    <3>1. generated[i] \in Seq(BOOLEAN) /\ Len(generated[i]) = Rounds /\ next_token[i] \in BOOLEAN
      BY <1>8
    <3>2. Rounds = (Rounds + 1) - 1 /\ Rounds + 1 \in Nat /\ Rounds + 1 > 0
      BY <1>9
    <3> HIDE DEF Rounds
    <3> QED BY <3>1, <3>2, Appended
  <2> QED BY <1>2, <2>1
<1>11. Rounds' = Rounds + 1
  BY <1>8, <1>10 DEF Rounds
<1>12. \A i \in 1 .. NumPrompts : pos_ids'[i] = prompts[i] + (Rounds + 1) - 1
  BY <1>1, <1>10 DEF PosId
<1>13. \A i \in 1 .. NumPrompts : InCache(i)' = InCache(i)
  <2>1. \A i \in 1 .. NumPrompts : InCache(i)' = prompts[i] + (Rounds + 1) - 1
    BY <1>1, <1>11 DEF InCache
  <2>2. ASSUME NEW i \in 1 .. NumPrompts PROVE InCache(i) = prompts[i] + Rounds /\ prompts[i] \in Nat
    <3>1. prompts[i] \in Nat
      BY <1>6, MetasAre DEF PInv
    <3>2. CASE from_prefill
      <4>1. InCache(i) = prompts[i] /\ Rounds = 0
        BY <1>1, <1>8, <3>2 DEF InCache
      <4> QED BY <3>1, <4>1
    <3>3. CASE ~from_prefill
      BY <1>1, <3>1, <3>3 DEF InCache
    <3> QED BY <3>2, <3>3
  <2>3. ASSUME NEW i \in 1 .. NumPrompts PROVE prompts[i] + (Rounds + 1) - 1 = prompts[i] + Rounds
    BY <1>9, <2>2
  <2> QED BY <2>1, <2>2, <2>3
<1>14. Control'
  BY <1>1, <1>3, <1>4, <1>7 DEF Control, RowsMatch
<1>15. RoundsCounted'
  <2>1. Rounds + 1 > 0
    BY <1>9
  <2>2. phase' # "runtime"
    BY <1>1
  <2> QED BY <1>1, <1>7, <1>10, <1>11, <1>12, <2>1, <2>2 DEF RoundsCounted
<1>16. KvCounted'
  <2>1. paged_ => \A i \in 1 .. NumPrompts :
                    kv_len[Mine(i)] = InCache(i) + 0 /\ seq_len[Mine(i)] = 1
    BY <1>1, <1>3 DEF PInv, KvCounted
  <2> QED BY <1>1, <1>7, <1>13, <2>1 DEF KvCounted
<1>17. DenseCounted'
  <2> SUFFICES ASSUME ~paged_, NumPrompts = 1, NEW k \in DOMAIN AttnTasks
               PROVE  cache_length[AttnTasks[k]] = InCache(1)
    <3>1. 1 \in 1 .. 1
      OBVIOUS
    <3> QED BY <1>1, <1>7, <1>13, <3>1 DEF DenseCounted
  <2> QED BY <1>1, <1>3 DEF PInv, DenseCounted
<1>18. MetasFresh'
  BY <1>1, <1>5, <1>7 DEF PInv, MetasFresh
<1> QED
  BY <1>7, <1>14, <1>15, <1>16, <1>17, <1>18 DEF PInv

-----------------------------------------------------------------------------
(* The end of it.                                                           *)

LEMMA DestroyNextKept ==
  ASSUME PInv, LimitInv', DestroyNext
  PROVE  PInv'
<1>1. /\ phase = "destroy"
      /\ UNCHANGED <<cache_length, ran, paged_, phase, calls, prompts, max_new_tokens, from_prefill,
                     outcome>>
  BY DEF DestroyNext, denseVars, applyVars, loopVars
<1>2. PICK i \in Left : Destroy(Mine(i))
  BY DEF DestroyNext, Mine
<1> DEFINE r == Mine(i)
<1>3. i \in 1 .. NumPrompts /\ r \in Requests
  BY <1>1, MetasAre DEF Left, PInv
<1>4. /\ op = "idle" /\ op' = op /\ is_prefill_' = is_prefill_ /\ broken' = broken \ {r}
      /\ kv_pages' = [l \in Layers |-> [kv_pages[l] EXCEPT ![r] = <<>>]]
      /\ seq_len' = [seq_len EXCEPT ![r] = 0]
      /\ kv_len' = [kv_len EXCEPT ![r] = 0]
  BY <1>2 DEF Destroy, callVars
<1> HIDE DEF r
<1>5. /\ kv_len \in [Requests -> Nat] /\ seq_len \in [Requests -> Nat]
      /\ \A l \in Layers : kv_pages[l] \in [Requests -> Seq(Pages(l))]
  BY DEF PInv, LimitInv, CoverInv, Inv, TypeOK
<1>6. \A q \in Requests : /\ q # r => Empty(q)' = Empty(q)
                          /\ q = r => Empty(q)'
                          /\ Untouched(q) => Untouched(q)'
                          /\ q # r => seq_len'[q] = seq_len[q]
  BY <1>3, <1>4, <1>5 DEF Empty, Untouched
<1>7. /\ op = "idle" /\ ran = 0 /\ ran \in 0 .. Len(AttnTasks) /\ DOMAIN cache_length = Layers
  BY <1>1, AtRest
<1>8. ~is_prefill_ /\ (paged_ => NumPrompts <= MaxRequestNum)
  BY <1>1 DEF PInv, Control
<1>9. /\ phase # "idle" /\ phase' # "idle" /\ phase' \in Phases /\ from_prefill' \in BOOLEAN
      /\ \A q \in Requests : q[1] < calls /\ Empty(q) => Empty(q)'
  BY <1>1, <1>6 DEF PInv, PTypeOK, Phases
<1>10. /\ PTypeOK' /\ WithinLimitsBinds' /\ MetasGone' /\ NumPrompts' = NumPrompts
       /\ \A j \in 1 .. NumPrompts : Mine(j)' = Mine(j)
  BY <1>1, <1>7, <1>9, InCallKept
<1>11. Control' /\ RoundsCounted' /\ KvCounted' /\ DenseCounted'
  BY <1>1, <1>4, <1>7, <1>8, <1>10
     DEF Control, RoundsCounted, InLoop, KvCounted, DenseCounted, Running
<1>12. MetasFresh'
  <2>1. ASSUME NEW j \in 1 .. NumPrompts, seq_len'[Mine(j)] = 0 PROVE Empty(Mine(j))'
    <3>1. Mine(j) \in Requests
      BY <1>9, MetasAre DEF PInv
    <3>2. Mine(j) # r => Empty(Mine(j))
      BY <1>1, <1>6, <2>1, <3>1 DEF PInv, MetasFresh
    <3>3. \A l \in Layers : kv_pages'[l][Mine(j)] = <<>>
      BY <1>4, <1>5, <3>1, <3>2 DEF Empty
    <3> QED BY <1>10, <3>3 DEF Empty
  <2>2. \A q \in Requests : Empty(q) => Empty(q)'
    BY <1>6
  <2> QED BY <1>1, <1>4, <1>6, <1>10, <2>1, <2>2 DEF PInv, MetasFresh
<1> QED
  BY <1>10, <1>11, <1>12 DEF PInv

LEMMA NextP == PInv /\ [PNext]_pvars => PInv'
<1> SUFFICES ASSUME PInv, [PNext]_pvars PROVE PInv'
  OBVIOUS
<1>1. CASE UNCHANGED pvars
  <2>1. UNCHANGED vars /\ LimitInv
    BY <1>1 DEF pvars, PInv
  <2>2. LimitInv'
    BY <2>1, NextLimit
  <2>3. UNCHANGED <<is_prefill_, free_list_, seq_len, kv_len, kv_pages, op, batch, cur, todo, broken,
                    cache_length, ran, paged_, phase, calls, prompts, max_new_tokens, from_prefill,
                    generated, unfinished, pos_ids, outcome>>
    BY <1>1 DEF pvars, vars, callVars, denseVars, applyVars, loopVars
  <2>a. /\ InputsFit' = InputsFit /\ RowsMatch' = RowsMatch /\ request_metas' = request_metas
        /\ NumPrompts' = NumPrompts /\ WithinLimits' = WithinLimits
    BY <2>3 DEF InputsFit, InputTokens, TokensUpTo, RowsMatch, request_metas, WithinLimits, max_requests,
                NumPrompts
  <2>4. PTypeOK' /\ Control' /\ WithinLimitsBinds'
    <3> HIDE DEF request_metas
    <3> QED BY <2>3, <2>a DEF PInv, PTypeOK, Control, WithinLimitsBinds, ThrewBefore
  <2>5. RoundsCounted' /\ KvCounted' /\ DenseCounted'
    BY <2>3 DEF PInv, RoundsCounted, InLoop, KvCounted, DenseCounted, Running, Rounds, InCache, Fed, Mine,
                NumPrompts
  <2>6. MetasFresh' /\ MetasGone'
    BY <2>3 DEF PInv, MetasFresh, MetasGone, ThrewBefore, Untouched, Empty, Mine, NumPrompts
  <2> QED BY <2>2, <2>4, <2>5, <2>6 DEF PInv
<1>2. CASE PNext
  <2>1. LimitInv'
    BY <1>2, RuntimeKept
  <2>2. CASE Apply \/ ApplyToNothing \/ Prefill \/ PrefillDense \/ Runtime
    BY <2>1, <2>2, ApplyKept, ApplyToNothingKept, PrefillKept, PrefillDenseKept, RuntimeStepKept
  <2>3. CASE Executed \/ ExecuteLayer \/ ExecutedDense
    BY <2>1, <2>3, ExecutedKept, ExecuteLayerKept, ExecutedDenseKept
  <2>4. CASE BindThrew \/ Refused \/ CopyThrew \/ LayerThrew \/ ExecuteThrew
    BY <2>1, <2>4, BindThrewKept, RefusedKept, CopyThrewKept, LayerThrewKept, ExecuteThrewKept
  <2>5. CASE ReshapeThrew \/ SampleThrew \/ DestroyNext \/ Return
    BY <2>1, <2>5, ReshapeThrewKept, SampleThrewKept, DestroyNextKept, ReturnKept
  <2>6. CASE StartDecoding \/ UsePrefillLogits \/ Decode \/ Sample \/ LoopEnds
    BY <2>1, <2>6, StartDecodingKept, UsePrefillLogitsKept, DecodeKept, SampleKept, LoopEndsKept
  <2> QED BY <1>2, <2>2, <2>3, <2>4, <2>5, <2>6 DEF PNext, Step
<1> QED
  BY <1>1, <1>2

LEMMA PipelineKeeps == PSpec => []PInv
BY InitP, NextP, PTL DEF PSpec

(* The positions apply counts are the slots the runtime counts, at every    *)
(* decode of every call.                                                    *)
THEOREM PosCorrect == PSpec => []PosMatchesSlot
<1>1. PInv => PosMatchesSlot
  <2> SUFFICES ASSUME PInv, phase = "runtime", ~from_prefill PROVE PosMatchesSlot
    BY DEF PosMatchesSlot
  <2>1. ASSUME op = "bound", NEW i \in 1 .. NumPrompts
        PROVE  pos_ids[i] = kv_len[request_metas[i]] - 1
    <3>1. paged_
      BY <2>1 DEF PInv, Control
    <3>2. cur = NumPrompts /\ NumPrompts \in Nat
      BY <2>1, <3>1, AtWork DEF PInv, LimitInv, CoverInv, Place
    <3>3. i <= cur
      BY <3>2
    <3>4. kv_len[Mine(i)] = InCache(i) + Fed(i) /\ prompts[i] \in Nat
      BY <3>1, <3>3, AtWork
    <3>5. Rounds \in Nat /\ InCache(i) = prompts[i] + Rounds - 1 /\ Fed(i) = 1 /\ pos_ids[i] = InCache(i)
      BY InDecode
    <3>6. request_metas[i] = Mine(i)
      BY MetasAre DEF PInv
    <3> HIDE DEF request_metas
    <3> QED BY <3>4, <3>5, <3>6
  <2>2. ASSUME ~paged_
        PROVE  /\ NumPrompts = 1
               /\ \A k \in DOMAIN AttnTasks :
                    cache_length[AttnTasks[k]] = IF k <= ran THEN pos_ids[1] + 1 ELSE pos_ids[1]
    <3>1. NumPrompts = 1
      BY <2>2, InDecode DEF RowsMatch
    <3>2. 1 \in 1 .. NumPrompts
      BY <3>1
    <3>3. Fed(1) = 1 /\ pos_ids[1] = InCache(1)
      BY <3>2, InDecode
    <3>4. \A k \in DOMAIN AttnTasks :
            IF k <= ran THEN cache_length[AttnTasks[k]] = InCache(1) + Fed(1)
            ELSE cache_length[AttnTasks[k]] = InCache(1)
      BY <2>2, <3>1 DEF PInv, DenseCounted, Running
    <3> QED BY <3>1, <3>3, <3>4
  <2> QED BY <2>1, <2>2 DEF PosMatchesSlot
<1> QED
  BY <1>1, PipelineKeeps, PTL

(* No check of the runtime refuses a call within the limits.                *)
THEOREM BindsCorrect == PSpec => []WithinLimitsBinds
<1>1. PInv => WithinLimitsBinds
  BY DEF PInv
<1> QED
  BY <1>1, PipelineKeeps, PTL

(* Pages do not leak: between calls, none of which threw, all are free.     *)
THEOREM NoLeakCorrect == PSpec => []NoLeakUnlessThrown
<1>1. PInv => NoLeakUnlessThrown
  <2> SUFFICES ASSUME PInv, phase = "idle", ~ThrewBefore(calls + 1), NEW l \in Layers
               PROVE  Range(free_list_[l]) = Pages(l)
    BY DEF NoLeakUnlessThrown
  <2>1. Len(outcome) = calls /\ calls \in Nat
    BY PipelineAssumption DEF PInv, PTypeOK
  <2>2. ASSUME NEW r \in Requests PROVE kv_pages[l][r] = <<>>
    <3>1. CASE r[1] <= calls
      BY <2>1, <3>1 DEF PInv, MetasGone, Empty
    <3>2. CASE r[1] > calls
      BY <3>2 DEF PInv, MetasFresh, Untouched, Empty
    <3> QED BY <2>1, <3>1, <3>2, RequestIs
  <2>3. /\ Covered(Pages(l), free_list_[l], kv_pages[l]) /\ free_list_[l] \in Seq(Pages(l))
        /\ kv_pages[l] \in [Requests -> Seq(Pages(l))]
    BY DEF PInv, LimitInv, CoverInv, Inv, PagesPartitioned, TypeOK
  <2>4. \A r \in Requests : Range(kv_pages[l][r]) = {}
    BY <2>2 DEF Range
  <2> QED BY <2>3, <2>4 DEF Covered, Range
<1> QED
  BY <1>1, PipelineKeeps, PTL

(***************************************************************************)
(* The processors.  Each of them is known by what becomes of a row: tokens  *)
(* are moved within the range, and what is larger than the pivot is on its  *)
(* left.  quick_select and quick_sort are the functions their definitions   *)
(* ask for, as each call is for a shorter range; and the first k in order   *)
(* weigh as much as any k tokens may.                                       *)
(***************************************************************************)

(* What holds of zero, and of the next number whenever it holds of one,     *)
(* holds up to n.                                                           *)
LEMMA ByNumbers ==
  ASSUME NEW n \in Nat, NEW S, 0 \in S, \A d \in 1 .. n : d - 1 \in S => d \in S
  PROVE  \A d \in 0 .. n : d \in S
<1> DEFINE T == {d \in 0 .. n : d \notin S}
<1>1. SUFFICES ASSUME T # {} PROVE FALSE
  OBVIOUS
<1>2. T \in SUBSET Nat
  OBVIOUS
<1>3. PICK d \in T : \A e \in T : d <= e
  <2> HIDE DEF T
  <2> QED BY <1>1, <1>2, LeastNumber
<1>4. d \in 1 .. n /\ d - 1 \in 0 .. n /\ ~(d <= d - 1)
  OBVIOUS
<1>5. d - 1 \in S
  <2>1. d - 1 \notin T
    BY <1>3, <1>4
  <2> QED BY <1>4, <2>1
<1> QED BY <1>4, <1>5

-----------------------------------------------------------------------------
(* Sums of weights.                                                         *)

IsWeights(weights) == weights \in Seq(Nat)

(* The sums of the first weights, of the positions in S.                    *)
Sums(sum, weights, S) ==
  /\ sum \in [0 .. Len(weights) -> Nat]
  /\ sum[0] = 0
  /\ \A n \in 1 .. Len(weights) : sum[n] = sum[n - 1] + IF n \in S THEN weights[n] ELSE 0

LEMMA SumsExist ==
  ASSUME NEW weights, IsWeights(weights), NEW S
  PROVE  \E sum : Sums(sum, weights, S)
<1> DEFINE L == Len(weights)
           Part(n) == IF n \in S THEN weights[n] ELSE 0
           Up(h, n) == /\ h \in [0 .. L -> Nat] /\ h[0] = 0
                       /\ \A m \in 1 .. n : h[m] = h[m - 1] + Part(m)
           Q == {n \in 0 .. L : \E h : Up(h, n)}
<1>1. L \in Nat /\ \A n \in 1 .. L : Part(n) \in Nat
  BY DEF IsWeights
<1> HIDE DEF L, Part
<1>2. 0 \in Q
  <2>1. Up([n \in 0 .. L |-> 0], 0)
    BY <1>1
  <2> HIDE DEF Up
  <2> QED BY <1>1, <2>1
<1>3. ASSUME NEW n \in 1 .. L, n - 1 \in Q PROVE n \in Q
  <2>1. PICK h : Up(h, n - 1)
    BY <1>3
  <2> DEFINE x == h[n - 1] + Part(n)
             f == [h EXCEPT ![n] = x]
  <2>2. x \in Nat
    BY <1>1, <2>1
  <2>3. f[n] = x /\ \A m \in 0 .. L : m # n => f[m] = h[m]
    BY <1>1, <2>1
  <2>4. f \in [0 .. L -> Nat]
    BY <2>1, <2>2
  <2> HIDE DEF f
  <2>5. f[0] = 0
    BY <1>1, <2>1, <2>3
  <2>6. ASSUME NEW m \in 1 .. n PROVE f[m] = f[m - 1] + Part(m)
    <3>1. m \in 1 .. L /\ m - 1 \in 0 .. L /\ m - 1 # n /\ (m # n => m \in 1 .. n - 1)
      BY <1>1
    <3> QED BY <2>1, <2>3, <3>1
  <2>7. Up(f, n)
    BY <2>4, <2>5, <2>6
  <2> HIDE DEF Up
  <2> QED BY <1>1, <2>7
<1>4. L \in Q
  <2> HIDE DEF Q
  <2>1. \A n \in 0 .. L : n \in Q
    BY <1>1, <1>2, <1>3, ByNumbers
  <2> QED BY <1>1, <2>1
<1> QED BY <1>4 DEF Sums, L, Part

LEMMA MassIs ==
  ASSUME NEW weights, IsWeights(weights), NEW S
  PROVE  \E sum : Sums(sum, weights, S) /\ Mass(weights, S) = sum[Len(weights)]
<1> DEFINE L == Len(weights)
           Following(h, n) == IF n = 0 THEN 0 ELSE h[n - 1] + IF n \in S THEN weights[n] ELSE 0
           P(h) == h = [n \in 0 .. L |-> Following(h, n)]
           c == CHOOSE h : P(h)
<1>1. Mass(weights, S) = c[L]
  BY Zenon DEF Mass
<1>2. L \in Nat /\ \A n \in 1 .. L : weights[n] \in Nat
  BY DEF IsWeights
<1>3. PICK f : Sums(f, weights, S)
  BY SumsExist
<1>4. P(f)
  <2>1. \A n \in 0 .. L : f[n] = Following(f, n)
    BY <1>2, <1>3 DEF Sums
  <2>2. f = [n \in 0 .. L |-> f[n]]
    BY <1>3 DEF Sums
  <2> HIDE DEF Next
  <2> QED BY <2>1, <2>2
<1>5. P(c)
  <2> HIDE DEF P
  <2> QED BY <1>4
<1> HIDE DEF c
<1>6. \A n \in 0 .. L : c[n] = Following(c, n)
  <2> HIDE DEF Next
  <2> QED BY <1>5
<1>7. \A n \in 0 .. L : c[n] = f[n]
  <2> DEFINE Q == {n \in 0 .. L : c[n] = f[n]}
  <2> HIDE DEF L
  <2>1. 0 \in Q
    BY <1>2, <1>3, <1>6 DEF Sums
  <2>2. ASSUME NEW n \in 1 .. L, n - 1 \in Q PROVE n \in Q
    BY <1>2, <1>3, <1>6, <2>2 DEF Sums, L
  <2> HIDE DEF Q
  <2>3. \A n \in 0 .. L : n \in Q
    BY <1>2, <2>1, <2>2, ByNumbers
  <2> QED BY <2>3 DEF Q
<1> QED BY <1>1, <1>2, <1>3, <1>7

LEMMA MassType ==
  ASSUME NEW weights, IsWeights(weights), NEW S
  PROVE  Mass(weights, S) \in Nat
<1>1. PICK p : Sums(p, weights, S) /\ Mass(weights, S) = p[Len(weights)]
  BY MassIs
<1>2. Len(weights) \in 0 .. Len(weights)
  BY DEF IsWeights
<1> QED BY <1>1, <1>2 DEF Sums

LEMMA MassOfNone ==
  ASSUME NEW weights, IsWeights(weights)
  PROVE  Mass(weights, {}) = 0
<1> DEFINE L == Len(weights)
<1>1. PICK p : Sums(p, weights, {}) /\ Mass(weights, {}) = p[L]
  BY MassIs
<1>2. L \in Nat
  BY DEF IsWeights
<1> DEFINE Q == {n \in 0 .. L : p[n] = 0}
<1>3. 0 \in Q
  BY <1>1, <1>2 DEF Sums
<1>4. ASSUME NEW n \in 1 .. L, n - 1 \in Q PROVE n \in Q
  BY <1>1, <1>2, <1>4 DEF Sums
<1>5. \A n \in 0 .. L : n \in Q
  <2> HIDE DEF Q, L
  <2> QED BY <1>2, <1>3, <1>4, ByNumbers
<1> QED BY <1>1, <1>2, <1>5

(* The mass of two sets that are apart is the sum of theirs.                *)
LEMMA MassOfBoth ==
  ASSUME NEW weights, IsWeights(weights), NEW S, NEW T, S \cap T = {}
  PROVE  Mass(weights, S \cup T) = Mass(weights, S) + Mass(weights, T)
<1> DEFINE L == Len(weights)
           w(n) == weights[n]
<1>1. PICK p : Sums(p, weights, S) /\ Mass(weights, S) = p[L]
  BY MassIs
<1>2. PICK q : Sums(q, weights, T) /\ Mass(weights, T) = q[L]
  BY MassIs
<1>3. PICK r : Sums(r, weights, S \cup T) /\ Mass(weights, S \cup T) = r[L]
  BY MassIs
<1>4. L \in Nat /\ \A n \in 1 .. L : w(n) \in Nat
  BY DEF IsWeights
<1>5. \A n \in 0 .. L : p[n] \in Nat /\ q[n] \in Nat /\ r[n] \in Nat
  BY <1>1, <1>2, <1>3 DEF Sums
<1>6. /\ p[0] = 0 /\ q[0] = 0 /\ r[0] = 0
      /\ \A n \in 1 .. L : /\ p[n] = p[n - 1] + IF n \in S THEN w(n) ELSE 0
                           /\ q[n] = q[n - 1] + IF n \in T THEN w(n) ELSE 0
                           /\ r[n] = r[n - 1] + IF n \in S \cup T THEN w(n) ELSE 0
  BY <1>1, <1>2, <1>3 DEF Sums
<1> HIDE DEF L, w
<1> DEFINE Q == {n \in 0 .. L : r[n] = p[n] + q[n]}
<1>7. 0 \in Q
  BY <1>4, <1>6
<1>8. ASSUME NEW n \in 1 .. L, n - 1 \in Q PROVE n \in Q
  <2>1. n \in 0 .. L /\ n - 1 \in 0 .. L /\ r[n - 1] = p[n - 1] + q[n - 1] /\ w(n) \in Nat
    BY <1>4, <1>8
  <2>2. p[n - 1] \in Nat /\ q[n - 1] \in Nat /\ r[n - 1] \in Nat
    BY <1>5, <2>1
  <2>3. /\ p[n] = p[n - 1] + IF n \in S THEN w(n) ELSE 0
        /\ q[n] = q[n - 1] + IF n \in T THEN w(n) ELSE 0
        /\ r[n] = r[n - 1] + IF n \in S \cup T THEN w(n) ELSE 0
    BY <1>6
  <2>4. r[n] = p[n] + q[n]
    BY <2>1, <2>2, <2>3
  <2> QED BY <2>1, <2>4
<1>9. L \in Q
  <2> HIDE DEF Q
  <2>1. \A n \in 0 .. L : n \in Q
    BY <1>4, <1>7, <1>8, ByNumbers
  <2> QED BY <1>4, <2>1
<1> QED BY <1>1, <1>2, <1>3, <1>9

LEMMA MassMore ==
  ASSUME NEW weights, IsWeights(weights), NEW S, NEW T, S \subseteq T
  PROVE  Mass(weights, S) <= Mass(weights, T)
<1>1. S \cap (T \ S) = {} /\ S \cup (T \ S) = T
  OBVIOUS
<1>2. Mass(weights, T) = Mass(weights, S) + Mass(weights, T \ S)
  BY <1>1, MassOfBoth
<1> QED BY <1>2, MassType

(* Of one set.                                                              *)
LEMMA MassOfOne ==
  ASSUME NEW weights, IsWeights(weights), NEW k \in 1 .. Len(weights)
  PROVE  Mass(weights, {k}) = weights[k]
<1> DEFINE L == Len(weights)
<1>1. PICK p : Sums(p, weights, {k}) /\ Mass(weights, {k}) = p[L]
  BY MassIs
<1>2. L \in Nat /\ weights[k] \in Nat
  BY DEF IsWeights
<1> DEFINE Q == {n \in 0 .. L : p[n] = IF n >= k THEN weights[k] ELSE 0}
<1>3. 0 \in Q
  BY <1>1, <1>2 DEF Sums
<1>4. ASSUME NEW n \in 1 .. L, n - 1 \in Q PROVE n \in Q
  <2>1. n \in 0 .. L /\ n - 1 \in 0 .. L /\ p[n - 1] = IF n - 1 >= k THEN weights[k] ELSE 0
    BY <1>2, <1>4
  <2>2. p[n] = p[n - 1] + IF n = k THEN weights[k] ELSE 0
    BY <1>1 DEF Sums
  <2>3. p[n] = IF n >= k THEN weights[k] ELSE 0
    BY <1>2, <2>1, <2>2
  <2> QED BY <2>1, <2>3
<1>5. L \in Q
  <2> HIDE DEF Q, L
  <2>1. \A n \in 0 .. L : n \in Q
    BY <1>2, <1>3, <1>4, ByNumbers
  <2> QED BY <1>2, <2>1
<1>6. L >= k
  BY <1>2
<1> HIDE DEF L
<1> QED BY <1>1, <1>5, <1>6

LEMMA MassWith ==
  ASSUME NEW weights, IsWeights(weights), NEW S, NEW k \in 1 .. Len(weights), k \notin S
  PROVE  Mass(weights, S \cup {k}) = Mass(weights, S) + weights[k]
<1>1. S \cap {k} = {}
  OBVIOUS
<1>2. Mass(weights, S \cup {k}) = Mass(weights, S) + Mass(weights, {k})
  BY <1>1, MassOfBoth
<1>3. Mass(weights, {k}) = weights[k]
  BY MassOfOne
<1> QED BY <1>2, <1>3

(* As many weights, none of which exceeds c; or none of which is less.      *)
LEMMA MassBounds ==
  ASSUME NEW weights, IsWeights(weights), NEW S \in SUBSET (1 .. Len(weights)), NEW c \in Nat
  PROVE  /\ (\A n \in S : weights[n] <= c) => Mass(weights, S) <= c * Cardinality(S)
         /\ (\A n \in S : weights[n] >= c) => Mass(weights, S) >= c * Cardinality(S)
<1> DEFINE L == Len(weights)
           Below(n) == S \cap (1 .. n)
           Least == \A n \in S : weights[n] >= c
           Most == \A n \in S : weights[n] <= c
           Good(n) == /\ IsFiniteSet(Below(n))
                      /\ Most => Mass(weights, Below(n)) <= c * Cardinality(Below(n))
                      /\ Least => Mass(weights, Below(n)) >= c * Cardinality(Below(n))
           Q == {n \in 0 .. L : Good(n)}
<1>1. L \in Nat /\ \A n \in 1 .. L : weights[n] \in Nat
  BY DEF IsWeights
<1>2a. S \subseteq 1 .. L
  OBVIOUS
<1> HIDE DEF L
<1>2. 0 \in Q
  <2>1. Below(0) = {}
    OBVIOUS
  <2>2. IsFiniteSet({}) /\ Mass(weights, {}) = 0 /\ Cardinality({}) = 0 /\ c * 0 = 0
    BY FS_EmptySet, MassOfNone
  <2>3. /\ IsFiniteSet(Below(0)) /\ Mass(weights, Below(0)) <= c * Cardinality(Below(0))
        /\ Mass(weights, Below(0)) >= c * Cardinality(Below(0))
    BY <2>1, <2>2
  <2> HIDE DEF Below, Most, Least
  <2>4. Good(0)
    BY <2>3
  <2> HIDE DEF Good
  <2> QED BY <1>1, <2>4
<1>3. ASSUME NEW n \in 1 .. L, n - 1 \in Q PROVE n \in Q
  <2>0. n \in 0 .. L /\ n \in 1 .. Len(weights)
    BY <1>1 DEF L
  <2> DEFINE B == Below(n - 1)
             M == Mass(weights, B)
             K == Cardinality(B)
  <2>1. /\ IsFiniteSet(B)
        /\ Most => M <= c * K
        /\ Least => M >= c * K
    <3>1. Good(n - 1)
      <4> HIDE DEF Good
      <4> QED BY <1>3
    <3> QED BY <3>1
  <2>1a. IsFiniteSet(B)
    BY <2>1
  <2> HIDE DEF B
  <2>2. K \in Nat /\ M \in Nat
    <3>1. M \in Nat
      BY MassType
    <3>2. K \in Nat
      BY <2>1a, FS_CardinalityType
    <3> QED BY <3>1, <3>2
  <2>3. CASE n \notin S
    <3>1. Below(n) = B
      BY <1>1, <2>3 DEF B
    <3> HIDE DEF Below, Most, Least
    <3>2. /\ IsFiniteSet(Below(n))
          /\ Most => Mass(weights, Below(n)) <= c * Cardinality(Below(n))
          /\ Least => Mass(weights, Below(n)) >= c * Cardinality(Below(n))
      BY <2>1, <3>1
    <3>3. Good(n)
      BY <3>2
    <3> HIDE DEF Good
    <3> QED BY <2>0, <3>3
  <2>4. CASE n \in S
    <3>1. Below(n) = B \cup {n} /\ n \notin B
      BY <1>1, <2>4 DEF B
    <3> HIDE DEF Below
    <3>2. Mass(weights, Below(n)) = M + weights[n]
      BY <2>0, <3>1, MassWith
    <3>3. IsFiniteSet(Below(n)) /\ Cardinality(Below(n)) = K + 1
      BY <2>1a, <3>1, FS_AddElement
    <3>4. weights[n] \in Nat /\ (Most => weights[n] <= c) /\ (Least => weights[n] >= c)
      BY <1>1, <2>4
    <3>5. c * (K + 1) = c * K + c /\ c * K \in Nat
      BY <2>2
    <3> DEFINE M1 == Mass(weights, Below(n))
               K1 == Cardinality(Below(n))
               x == weights[n]
    <3>6. M1 = M + x /\ K1 = K + 1 /\ x \in Nat /\ (Most => x <= c) /\ (Least => x >= c)
      BY <3>2, <3>3, <3>4
    <3> HIDE DEF Most, Least, M, K, M1, K1, x
    <3>7. Most => M1 <= c * K1
      BY <2>1, <2>2, <3>5, <3>6
    <3>8. Least => M1 >= c * K1
      BY <2>1, <2>2, <3>5, <3>6
    <3>9. Good(n)
      BY <3>3, <3>7, <3>8 DEF M1, K1
    <3> HIDE DEF Good
    <3> QED BY <2>0, <3>9
  <2> QED BY <2>3, <2>4
<1>4. L \in Q
  <2> HIDE DEF Q
  <2>1. \A n \in 0 .. L : n \in Q
    BY <1>1, <1>2, <1>3, ByNumbers
  <2> QED BY <1>1, <2>1
<1>5. Below(L) = S
  BY <1>2a
<1>6. Good(L)
  <2> HIDE DEF Good
  <2> QED BY <1>4
<1> HIDE DEF Below, Most, Least
<1> QED BY <1>5, <1>6 DEF Most, Least

-----------------------------------------------------------------------------
(* Rows.                                                                    *)

Places == 1 .. VocabSize

(* A row has every token once, with its own logit.                          *)
Own(logits, row) ==
  /\ \A i \in Places : row.logit[i] = logits[row.id[i]]
  /\ \A i, j \in Places : row.id[i] = row.id[j] => i = j
  /\ \A t \in Places : \E i \in Places : row.id[i] = t

(* Tokens were moved from left to right, and none outside.                  *)
Moved(logits, row, moved, left, right) ==
  /\ moved \in Arrays /\ moved.valid_size = row.valid_size
  /\ \A i \in Places \ (left .. right) : moved.logit[i] = row.logit[i] /\ moved.id[i] = row.id[i]
  /\ Own(logits, row) => Own(logits, moved)

LEMMA PlacesAre == VocabSize \in Nat \ {0}
BY ProcessorsAssumption

LEMMA NoneMoved ==
  ASSUME NEW logits, NEW row \in Arrays, NEW left, NEW right
  PROVE  Moved(logits, row, row, left, right)
BY DEF Moved

LEMMA MovedTwice ==
  ASSUME NEW logits, NEW row, NEW moved, NEW again, NEW left, NEW right,
         NEW a \in Int, NEW b \in Int, NEW c \in Int, NEW d \in Int,
         Moved(logits, row, moved, a, b), Moved(logits, moved, again, c, d),
         a .. b \subseteq left .. right, c .. d \subseteq left .. right
  PROVE  Moved(logits, row, again, left, right)
BY DEF Moved

LEMMA SwapIs ==
  ASSUME NEW logits, NEW row \in Arrays, NEW i \in Places, NEW j \in Places
  PROVE  LET r == Swap(row, i, j)
         IN  /\ r \in Arrays /\ r.valid_size = row.valid_size
             /\ r.logit[i] = row.logit[j] /\ r.logit[j] = row.logit[i]
             /\ r.id[i] = row.id[j] /\ r.id[j] = row.id[i]
             /\ \A k \in Places \ {i, j} : r.logit[k] = row.logit[k] /\ r.id[k] = row.id[k]
             /\ Own(logits, row) => Own(logits, r)
<1> DEFINE r == Swap(row, i, j)
           ls == Swapped(row.logit, i, j)
           ids == Swapped(row.id, i, j)
<1>1. row.logit \in [Places -> Nat] /\ row.id \in [Places -> Places] /\ row.valid_size \in Nat
  BY DEF Arrays, Places
<1>2. /\ ls \in [Places -> Nat] /\ ls[i] = row.logit[j] /\ ls[j] = row.logit[i]
      /\ \A k \in Places \ {i, j} : ls[k] = row.logit[k]
  BY <1>1 DEF Swapped
<1>3. /\ ids \in [Places -> Places] /\ ids[i] = row.id[j] /\ ids[j] = row.id[i]
      /\ \A k \in Places \ {i, j} : ids[k] = row.id[k]
  BY <1>1 DEF Swapped
<1> HIDE DEF ls, ids
<1>4. r = [row EXCEPT !.logit = ls, !.id = ids]
  BY DEF Swap, ls, ids
<1> HIDE DEF r
<1>5. r \in Arrays /\ r.logit = ls /\ r.id = ids /\ r.valid_size = row.valid_size
  BY <1>1, <1>2, <1>3, <1>4 DEF Arrays, Places
<1>6. ASSUME Own(logits, row) PROVE Own(logits, r)
  <2>1. /\ \A k \in Places : row.logit[k] = logits[row.id[k]]
        /\ \A k, l \in Places : row.id[k] = row.id[l] => k = l
        /\ \A t \in Places : \E k \in Places : row.id[k] = t
    BY <1>6 DEF Own
  <2>2. \A k \in Places : ls[k] = logits[ids[k]]
    BY <1>2, <1>3, <2>1
  <2>3. \A k, l \in Places : ids[k] = ids[l] => k = l
    BY <1>3, <2>1
  <2>4. ASSUME NEW t \in Places PROVE \E k \in Places : ids[k] = t
    <3>1. PICK k \in Places : row.id[k] = t
      BY <2>1
    <3> QED BY <1>3, <3>1
  <2> QED BY <1>5, <2>2, <2>3, <2>4 DEF Own
<1> QED BY <1>2, <1>3, <1>5, <1>6 DEF r

LEMMA SwapMoves ==
  ASSUME NEW logits, NEW row \in Arrays, NEW left \in Int, NEW right \in Int,
         NEW i \in Places, NEW j \in Places, i \in left .. right, j \in left .. right
  PROVE  Moved(logits, row, Swap(row, i, j), left, right)
<1> DEFINE r == Swap(row, i, j)
<1>1. /\ r \in Arrays /\ r.valid_size = row.valid_size
      /\ \A k \in Places \ {i, j} : r.logit[k] = row.logit[k] /\ r.id[k] = row.id[k]
      /\ Own(logits, row) => Own(logits, r)
  BY SwapIs
<1> HIDE DEF r
<1> QED BY <1>1 DEF Moved, r

(* What is between left and right was there before.                         *)
LEMMA FromWithin ==
  ASSUME NEW logits, NEW row \in Arrays, NEW moved, NEW left \in Int, NEW right \in Int,
         Own(logits, row), Moved(logits, row, moved, left, right),
         NEW i \in Places, i \in left .. right
  PROVE  \E j \in Places : j \in left .. right /\ moved.id[i] = row.id[j] /\ moved.logit[i] = row.logit[j]
<1>1. moved \in Arrays /\ Own(logits, moved)
  BY DEF Moved
<1>2. moved.id[i] \in Places
  BY <1>1 DEF Arrays, Places
<1>3. PICK j \in Places : row.id[j] = moved.id[i]
  <2> DEFINE t == moved.id[i]
  <2>1. t \in Places
    BY <1>2
  <2> HIDE DEF t
  <2>2. \E j \in Places : row.id[j] = t
    BY <2>1 DEF Own
  <2> QED BY <2>2 DEF t
<1>4. moved.logit[i] = row.logit[j]
  <2>1. moved.logit[i] = logits[moved.id[i]]
    BY <1>1 DEF Own
  <2>2. row.logit[j] = logits[row.id[j]]
    BY DEF Own
  <2> QED BY <1>3, <2>1, <2>2
<1>5. j \in left .. right
  <2> SUFFICES ASSUME j \notin left .. right PROVE FALSE
    OBVIOUS
  <2>1. moved.id[j] = row.id[j]
    BY DEF Moved
  <2>2. i = j
    BY <1>1, <1>3, <2>1 DEF Own
  <2> QED BY <2>2
<1> QED BY <1>3, <1>4, <1>5

-----------------------------------------------------------------------------
(* partition.                                                               *)

VisitOf(pivot_value, a, i) ==
  IF a.row.logit[i] > pivot_value
    THEN [row |-> Swap(a.row, a.store_index, i), store_index |-> a.store_index + 1]
    ELSE a

StartsAt(row, left, right, pivot_index) == [row |-> Swap(row, pivot_index, right), store_index |-> left]

Visited(v, base, pivot_value, left, right) ==
  /\ v = [i \in left - 1 .. right - 1 |-> v[i]]
  /\ v[left - 1] = base
  /\ \A i \in left .. right - 1 : v[i] = VisitOf(pivot_value, v[i - 1], i)

(* The loop of partition has an outcome: what is visited, one by one.       *)
LEMMA VisitsExist ==
  ASSUME NEW base, NEW pivot_value, NEW left \in Nat, NEW right \in Nat, left < right
  PROVE  \E v : Visited(v, base, pivot_value, left, right)
<1> DEFINE N == right - left
           D == left - 1 .. right - 1
           Up(h, d) == /\ h = [i \in D |-> h[i]]
                       /\ h[left - 1] = base
                       /\ \A i \in left .. left - 1 + d : h[i] = VisitOf(pivot_value, h[i - 1], i)
           S == {d \in 0 .. N : \E h : Up(h, d)}
<1>1. N \in Nat
  OBVIOUS
<1>2. 0 \in S
  <2> DEFINE f == [i \in D |-> base]
  <2>1. left - 1 \in D /\ left .. left - 1 + 0 = {}
    OBVIOUS
  <2>2. f = [i \in D |-> f[i]] /\ f[left - 1] = base
    BY <2>1
  <2> HIDE DEF f
  <2>3. Up(f, 0)
    BY <2>1, <2>2
  <2> HIDE DEF Up
  <2> QED BY <1>1, <2>3
<1>3. ASSUME NEW d \in 1 .. N, d - 1 \in S PROVE d \in S
  <2>1. PICK h : Up(h, d - 1)
    BY <1>3
  <2> DEFINE n == left - 1 + d
             x == VisitOf(pivot_value, h[n - 1], n)
             f == [i \in D |-> IF i = n THEN x ELSE h[i]]
  <2>2. n \in D /\ n # left - 1 /\ left - 1 \in D
    OBVIOUS
  <2> HIDE DEF x
  <2>3. f = [i \in D |-> f[i]] /\ f[n] = x /\ \A i \in D : i # n => f[i] = h[i]
    BY <2>2
  <2> HIDE DEF f
  <2>4. f[left - 1] = base
    BY <2>1, <2>2, <2>3
  <2>5. ASSUME NEW i \in left .. n PROVE f[i] = VisitOf(pivot_value, f[i - 1], i)
    <3>1. i \in D /\ i - 1 \in D /\ i - 1 # n /\ (i # n => i \in left .. left - 1 + (d - 1))
      OBVIOUS
    <3>2. f[i - 1] = h[i - 1]
      BY <2>3, <3>1
    <3>3. CASE i = n
      BY <2>3, <3>2, <3>3 DEF x
    <3>4. CASE i # n
      <4>1. h[i] = VisitOf(pivot_value, h[i - 1], i)
        BY <2>1, <3>1, <3>4
      <4> QED BY <2>3, <3>1, <3>2, <3>4, <4>1
    <3> QED BY <3>3, <3>4
  <2>6. Up(f, d)
    BY <2>3, <2>4, <2>5
  <2> HIDE DEF Up
  <2> QED BY <1>1, <2>6
<1>4. N \in S
  <2> HIDE DEF S
  <2>1. \A d \in 0 .. N : d \in S
    <3> HIDE DEF N
    <3> QED BY <1>1, <1>2, <1>3, ByNumbers
  <2> QED BY <1>1, <2>1
<1>5. PICK h : Up(h, N)
  BY <1>4
<1>6. left - 1 + N = right - 1
  OBVIOUS
<1> HIDE DEF N
<1> QED BY <1>5, <1>6 DEF Visited

(* A walk through the loop, and what partition returns at its end.          *)
Partitioning(v, row, left, right, pivot_index) ==
  LET all == v[right - 1]
  IN  /\ v[left - 1] = StartsAt(row, left, right, pivot_index)
      /\ \A i \in left .. right - 1 : v[i] = VisitOf(row.logit[pivot_index], v[i - 1], i)
      /\ partition(row, left, right, pivot_index) = [all EXCEPT !.row = Swap(all.row, all.store_index, right)]

LEMMA PartitionWalk ==
  ASSUME NEW row, NEW left \in Nat, NEW right \in Nat, left < right, NEW pivot_index
  PROVE  \E v : Partitioning(v, row, left, right, pivot_index)
<1> DEFINE base == StartsAt(row, left, right, pivot_index)
           pv == row.logit[pivot_index]
           P(v) == v = [i \in left - 1 .. right - 1 |-> IF i < left THEN base ELSE VisitOf(pv, v[i - 1], i)]
           c == CHOOSE v : P(v)
<1>1. partition(row, left, right, pivot_index)
        = [c[right - 1] EXCEPT !.row = Swap(c[right - 1].row, c[right - 1].store_index, right)]
  BY Zenon DEF partition, StartsAt, VisitOf
<1> HIDE DEF base, pv
<1>2. \E v : P(v)
  <2> DEFINE D == left - 1 .. right - 1
  <2>0. PICK h : Visited(h, base, pv, left, right)
    BY VisitsExist
  <2>1. /\ h = [i \in D |-> h[i]]
        /\ h[left - 1] = base
        /\ \A i \in left .. right - 1 : h[i] = VisitOf(pv, h[i - 1], i)
    BY <2>0 DEF Visited
  <2> DEFINE F(i) == IF i < left THEN base ELSE VisitOf(pv, h[i - 1], i)
  <2>2. ASSUME NEW i \in D PROVE h[i] = F(i)
    <3>1. CASE i < left
      <4>1. i = left - 1
        BY <3>1
      <4> QED BY <2>1, <3>1, <4>1
    <3>2. CASE ~(i < left)
      <4>1. i \in left .. right - 1
        BY <3>2
      <4> QED BY <2>1, <3>2, <4>1
    <3> QED BY <3>1, <3>2
  <2>3. h = [i \in D |-> F(i)]
    <3> HIDE DEF F, D
    <3> QED BY <2>1, <2>2
  <2>4. P(h)
    BY <2>3
  <2> HIDE DEF P
  <2> QED BY <2>4
<1>3. P(c)
  <2> HIDE DEF P
  <2> QED BY <1>2
<1> HIDE DEF c
<1> DEFINE E(i) == IF i < left THEN base ELSE VisitOf(pv, c[i - 1], i)
<1>4. \A i \in left - 1 .. right - 1 : c[i] = E(i)
  <2> HIDE DEF E
  <2>1. c = [i \in left - 1 .. right - 1 |-> E(i)]
    BY <1>3 DEF E
  <2> QED BY <2>1
<1>5. c[left - 1] = base
  <2>1. left - 1 \in left - 1 .. right - 1 /\ left - 1 < left
    OBVIOUS
  <2> QED BY <1>4, <2>1
<1>6. ASSUME NEW i \in left .. right - 1 PROVE c[i] = VisitOf(pv, c[i - 1], i)
  <2>1. i \in left - 1 .. right - 1 /\ ~(i < left)
    OBVIOUS
  <2> QED BY <1>4, <2>1
<1> QED BY <1>1, <1>5, <1>6 DEF base, pv, Partitioning

(* What is larger than the pivot is on its left, and the rest on its right. *)
Split(row, left, right, at) ==
  /\ \A i \in left .. at - 1 : row.logit[i] > row.logit[at]
  /\ \A i \in at + 1 .. right : row.logit[i] <= row.logit[at]

(* What is so when place i has been visited.                                *)
SplitUpTo(logits, row, left, right, pivot_value, a, i) ==
  /\ a = [row |-> a.row, store_index |-> a.store_index]
  /\ Moved(logits, row, a.row, left, right)
  /\ a.store_index \in left .. i + 1
  /\ a.row.logit[right] = pivot_value
  /\ \A k \in left .. a.store_index - 1 : a.row.logit[k] > pivot_value
  /\ \A k \in a.store_index .. i : a.row.logit[k] <= pivot_value

LEMMA VisitSplits ==
  ASSUME NEW logits, NEW row \in Arrays, NEW left \in Places, NEW right \in Places, left < right,
         NEW pivot_value \in Nat, NEW a, NEW i \in left .. right - 1,
         SplitUpTo(logits, row, left, right, pivot_value, a, i - 1)
  PROVE  SplitUpTo(logits, row, left, right, pivot_value, VisitOf(pivot_value, a, i), i)
<1> DEFINE r == a.row
           s == a.store_index
<1>1. /\ Moved(logits, row, r, left, right) /\ s \in left .. i /\ r.logit[right] = pivot_value
      /\ \A k \in left .. s - 1 : r.logit[k] > pivot_value
      /\ \A k \in s .. i - 1 : r.logit[k] <= pivot_value
  BY DEF SplitUpTo
<1>1a. a = [row |-> a.row, store_index |-> a.store_index]
  BY DEF SplitUpTo
<1>2. /\ VocabSize \in Nat /\ left \in Nat /\ right \in Nat /\ i \in Places /\ s \in Places /\ i \in left .. right
      /\ s \in left .. right /\ right \notin {s, i} /\ left .. right \subseteq Places
  BY <1>1, PlacesAre DEF Places
<1>3. r \in Arrays
  BY <1>1 DEF Moved
<1>4. \A k \in Places : r.logit[k] \in Nat
  BY <1>3 DEF Arrays, Places
<1>5. CASE r.logit[i] > pivot_value
  <2> DEFINE q == Swap(r, s, i)
  <2>1. VisitOf(pivot_value, a, i) = [row |-> q, store_index |-> s + 1]
    BY <1>5 DEF VisitOf
  <2> DEFINE b == [row |-> q, store_index |-> s + 1]
  <2>1a. b = [row |-> b.row, store_index |-> b.store_index] /\ b.row = q /\ b.store_index = s + 1
    OBVIOUS
  <2>1b. q = Swap(r, s, i) /\ VisitOf(pivot_value, a, i) = b
    BY <2>1
  <2> HIDE DEF q, r, s, b
  <2>2. /\ q.logit[s] = r.logit[i] /\ q.logit[i] = r.logit[s]
        /\ \A k \in Places \ {s, i} : q.logit[k] = r.logit[k]
    BY <1>2, <1>3, <2>1b, SwapIs
  <2>3. Moved(logits, r, q, left, right)
    BY <1>2, <1>3, <2>1b, SwapMoves
  <2>4. Moved(logits, row, q, left, right)
    BY <1>1, <1>2, <2>3, MovedTwice
  <2>5. q.logit[right] = pivot_value
    BY <1>1, <1>2, <2>2
  <2>6. ASSUME NEW k \in left .. s PROVE q.logit[k] > pivot_value
    <3>1. k \in Places /\ (k # s => k \in left .. s - 1 /\ k # i)
      BY <1>1, <1>2
    <3> QED BY <1>1, <1>5, <2>2, <3>1
  <2>7. ASSUME NEW k \in s + 1 .. i PROVE q.logit[k] <= pivot_value
    <3>1. k \in Places /\ k # s /\ (k # i => k \in s .. i - 1) /\ (k = i => s \in s .. i - 1)
      BY <1>1, <1>2
    <3> QED BY <1>1, <2>2, <3>1
  <2>8. s + 1 \in left .. i + 1 /\ s + 1 - 1 = s
    BY <1>1, <1>2
  <2>9. SplitUpTo(logits, row, left, right, pivot_value, b, i)
    <3>1. \A k \in left .. b.store_index - 1 : b.row.logit[k] > pivot_value
      <4>1. left .. b.store_index - 1 = left .. s
        BY <1>2, <2>1a
      <4> QED BY <2>1a, <2>6, <4>1
    <3>2. \A k \in b.store_index .. i : b.row.logit[k] <= pivot_value
      BY <2>1a, <2>7
    <3>3. /\ b.row.logit[right] = pivot_value /\ b.store_index \in left .. i + 1
          /\ Moved(logits, row, b.row, left, right)
      BY <2>1a, <2>4, <2>5, <2>8
    <3> QED BY <2>1a, <3>1, <3>2, <3>3 DEF SplitUpTo
  <2> QED BY <2>1b, <2>9
<1>6. CASE ~(r.logit[i] > pivot_value)
  <2>1. VisitOf(pivot_value, a, i) = a
    BY <1>6 DEF VisitOf
  <2>2. r.logit[i] <= pivot_value
    BY <1>2, <1>4, <1>6
  <2>3. \A k \in s .. i : r.logit[k] <= pivot_value
    <3> HIDE DEF r, s
    <3> SUFFICES ASSUME NEW k \in s .. i PROVE r.logit[k] <= pivot_value
      OBVIOUS
    <3>1. k # i => k \in s .. i - 1
      BY <1>1, <1>2
    <3> QED BY <1>1, <2>2, <3>1
  <2>4. s \in left .. i + 1
    BY <1>1, <1>2
  <2>5. SplitUpTo(logits, row, left, right, pivot_value, a, i)
    BY <1>1, <1>1a, <2>3, <2>4 DEF SplitUpTo
  <2> QED BY <2>1, <2>5
<1> QED BY <1>5, <1>6

LEMMA PartitionSplits ==
  ASSUME NEW logits, NEW row \in Arrays, NEW left \in Places, NEW right \in Places, left < right,
         NEW pivot_index \in left .. right
  PROVE  LET p == partition(row, left, right, pivot_index)
         IN  /\ p.store_index \in left .. right
             /\ Moved(logits, row, p.row, left, right)
             /\ Split(p.row, left, right, p.store_index)
<1> DEFINE pv == row.logit[pivot_index]
           N == right - left
           start == StartsAt(row, left, right, pivot_index)
<1>1. /\ VocabSize \in Nat /\ left \in Nat /\ right \in Nat /\ N \in Nat /\ pivot_index \in Places
      /\ right \in left .. right /\ left .. right \subseteq Places
  BY PlacesAre DEF Places
<1>2. pv \in Nat
  BY <1>1 DEF Arrays, Places
<1>2a. PICK v : Partitioning(v, row, left, right, pivot_index)
  BY <1>1, PartitionWalk
<1>3. /\ v[left - 1] = start
      /\ \A i \in left .. right - 1 : v[i] = VisitOf(pv, v[i - 1], i)
      /\ partition(row, left, right, pivot_index)
           = [v[right - 1] EXCEPT !.row = Swap(v[right - 1].row, v[right - 1].store_index, right)]
  BY <1>2a DEF Partitioning
<1> DEFINE So(i) == SplitUpTo(logits, row, left, right, pv, v[i], i)
           S == {d \in 0 .. N : So(left - 1 + d)}
<1>4. So(left - 1)
  <2> DEFINE q == Swap(row, pivot_index, right)
  <2>1. q.logit[right] = pv /\ Moved(logits, row, q, left, right)
    BY <1>1, SwapIs, SwapMoves
  <2>2. /\ start.row = q /\ start.store_index = left
        /\ start = [row |-> start.row, store_index |-> start.store_index]
    BY DEF StartsAt
  <2> HIDE DEF q, start, pv
  <2>3. /\ left \in left .. left - 1 + 1 /\ left .. left - 1 = {}
    BY <1>1
  <2>4. SplitUpTo(logits, row, left, right, pv, start, left - 1)
    BY <2>1, <2>2, <2>3 DEF SplitUpTo
  <2> QED BY <1>3, <2>4
<1>5. ASSUME NEW d \in 1 .. N, d - 1 \in S PROVE d \in S
  <2> DEFINE i == left - 1 + d
  <2>1. i \in left .. right - 1 /\ left - 1 + (d - 1) = i - 1 /\ d \in 0 .. N
    BY <1>1
  <2>2. So(i - 1)
    <3>1. So(left - 1 + (d - 1))
      <4> HIDE DEF So
      <4> QED BY <1>5
    <3> HIDE DEF So, i
    <3> QED BY <2>1, <3>1
  <2>3. v[i] = VisitOf(pv, v[i - 1], i)
    BY <1>3, <2>1
  <2> HIDE DEF pv, i
  <2>4. So(i)
    <3>1. SplitUpTo(logits, row, left, right, pv, VisitOf(pv, v[i - 1], i), i)
      BY <1>2, <2>1, <2>2, VisitSplits
    <3> QED BY <2>3, <3>1
  <2> HIDE DEF So
  <2> QED BY <2>1, <2>4 DEF i
<1>6. So(right - 1)
  <2>1. \A d \in 0 .. N : d \in S
    <3> HIDE DEF S, N
    <3>1. 0 \in S
      <4>1. left - 1 + 0 = left - 1
        BY <1>1
      <4> HIDE DEF So
      <4> QED BY <1>1, <1>4, <4>1 DEF S
    <3> QED BY <1>1, <1>5, <3>1, ByNumbers
  <2>2. N \in 0 .. N /\ left - 1 + N = right - 1
    BY <1>1
  <2> HIDE DEF So, N
  <2> QED BY <2>1, <2>2
<1> DEFINE a == v[right - 1]
           r == a.row
           s == a.store_index
           q == Swap(r, s, right)
           p == partition(row, left, right, pivot_index)
<1>7. /\ Moved(logits, row, r, left, right) /\ s \in left .. right - 1 + 1 /\ r.logit[right] = pv
      /\ \A k \in left .. s - 1 : r.logit[k] > pv
      /\ \A k \in s .. right - 1 : r.logit[k] <= pv
  BY <1>6 DEF SplitUpTo
<1>8. p.row = q /\ p.store_index = s
  <2>1. p = [a EXCEPT !.row = q]
    BY <1>3
  <2>2. a = [row |-> a.row, store_index |-> a.store_index]
    BY <1>6 DEF SplitUpTo
  <2> HIDE DEF a, q, p
  <2>3. p.row = q /\ p.store_index = a.store_index
    BY <2>1, <2>2
  <2> QED BY <2>3
<1>9. s \in left .. right /\ s \in Places
  BY <1>1, <1>7
<1>10. r \in Arrays
  BY <1>7 DEF Moved
<1> HIDE DEF q, r, s, p
<1>10a. q = Swap(r, s, right)
  BY DEF q
<1>11. /\ q.logit[s] = r.logit[right] /\ q.logit[right] = r.logit[s]
       /\ \A k \in Places \ {s, right} : q.logit[k] = r.logit[k]
  BY <1>1, <1>9, <1>10, <1>10a, SwapIs
<1>12. Moved(logits, r, q, left, right)
  BY <1>1, <1>9, <1>10, <1>10a, SwapMoves
<1> HIDE DEF pv
<1>13. Moved(logits, row, q, left, right)
  BY <1>1, <1>7, <1>12, MovedTwice
<1>14. Split(q, left, right, s)
  <2>1. q.logit[s] = pv
    BY <1>7, <1>11
  <2>2. ASSUME NEW k \in left .. s - 1 PROVE q.logit[k] > pv
    <3>1. k \in Places \ {s, right}
      BY <1>1, <1>9
    <3> QED BY <1>7, <1>11, <3>1
  <2>3. ASSUME NEW k \in s + 1 .. right PROVE q.logit[k] <= pv
    <3>1. /\ k \in Places /\ k # s /\ (k # right => k \in s .. right - 1)
          /\ (k = right => s \in s .. right - 1)
      BY <1>1, <1>9
    <3> QED BY <1>7, <1>11, <3>1
  <2> QED BY <2>1, <2>2, <2>3 DEF Split
<1> QED BY <1>8, <1>9, <1>13, <1>14 DEF p

-----------------------------------------------------------------------------
(* quick_sort and quick_select.                                             *)

SortCalls == Arrays \X Lefts \X Rights
SelectCalls == Arrays \X Lefts \X Rights \X Nat

Half(row, left, right) == partition(row, left, right, Middle(left, right))

SortOf(f, row, left, right) ==
  LET p == Half(row, left, right)
  IN  IF left >= right THEN row
      ELSE f[<<f[<<p.row, left, p.store_index - 1>>], p.store_index + 1, right>>]

SelectOf(f, row, left, right, k) ==
  LET p == Half(row, left, right)
  IN  IF left >= right THEN row
      ELSE IF SelectEnds(p.store_index, k) THEN p.row
      ELSE IF p.store_index > k + 1 THEN f[<<p.row, left, p.store_index - 1, k>>]
      ELSE f[<<p.row, p.store_index + 1, right, k>>]

(* What becomes of a range of more than one place.                          *)
LEMMA HalfIs ==
  ASSUME NEW logits, NEW row \in Arrays, NEW left \in Lefts, NEW right \in Rights, left < right
  PROVE  LET p == Half(row, left, right)
         IN  /\ left \in Places /\ right \in Places
             /\ p.store_index \in left .. right /\ p.store_index \in Places
             /\ p.store_index - 1 \in Rights /\ p.store_index + 1 \in Lefts
             /\ p.row \in Arrays
             /\ Moved(logits, row, p.row, left, right)
             /\ Split(p.row, left, right, p.store_index)
<1> DEFINE m == Middle(left, right)
           p == partition(row, left, right, m)
<1>1. VocabSize \in Nat /\ left \in Places /\ right \in Places /\ left \in Nat /\ right \in Nat
  BY PlacesAre DEF Lefts, Rights, Places
<1>2. m \in left .. right
  <2> DEFINE h == (right - left) \div 2
  <2>1. h \in Nat /\ h <= right - left
    BY <1>1
  <2> HIDE DEF h
  <2>2. left + h \in left .. right
    BY <1>1, <2>1
  <2> QED BY <2>2 DEF Middle, h
<1> HIDE DEF m
<1>3. /\ p.store_index \in left .. right
      /\ Moved(logits, row, p.row, left, right)
      /\ Split(p.row, left, right, p.store_index)
  BY <1>1, <1>2, PartitionSplits
<1> HIDE DEF p
<1>4. /\ p.store_index \in Places /\ p.store_index - 1 \in Rights /\ p.store_index + 1 \in Lefts
  BY <1>1, <1>3 DEF Places, Lefts, Rights
<1>5. p.row \in Arrays
  BY <1>3 DEF Moved
<1> QED BY <1>1, <1>3, <1>4, <1>5 DEF p, m, Half

(* There is a function as quick_sort defines one, for ranges shorter than n *)
(* first: the calls it makes are for shorter ones.                          *)
SortsBelow(f, n) ==
  /\ f \in [SortCalls -> Arrays]
  /\ \A row \in Arrays, left \in Lefts, right \in Rights :
       right - left < n => f[<<row, left, right>>] = SortOf(f, row, left, right)

LEMMA SortExists ==
  \E f : SortsBelow(f, VocabSize)
<1> DEFINE S == {n \in 0 .. VocabSize : \E f : SortsBelow(f, n)}
<1>1. VocabSize \in Nat
  BY PlacesAre
<1>2. 0 \in S
  <2> DEFINE f == [call \in SortCalls |-> call[1]]
  <2>1. f \in [SortCalls -> Arrays]
    BY DEF SortCalls
  <2>2. ASSUME NEW row \in Arrays, NEW left \in Lefts, NEW right \in Rights, right - left < 0
        PROVE  f[<<row, left, right>>] = SortOf(f, row, left, right)
    <3>1. f[<<row, left, right>>] = row
      BY DEF SortCalls
    <3>2. left >= right
      BY <1>1, <2>2 DEF Lefts, Rights
    <3> HIDE DEF f
    <3> QED BY <3>1, <3>2 DEF SortOf
  <2> HIDE DEF f
  <2>3. SortsBelow(f, 0)
    BY <2>1, <2>2 DEF SortsBelow
  <2> QED BY <1>1, <2>3
<1>3. ASSUME NEW n \in 1 .. VocabSize, n - 1 \in S PROVE n \in S
  <2>1. PICK f : SortsBelow(f, n - 1)
    BY <1>3
  <2> DEFINE E(call) == IF call[3] - call[2] < n - 1 THEN f[call] ELSE SortOf(f, call[1], call[2], call[3])
             h == [call \in SortCalls |-> E(call)]
  <2>2. ASSUME NEW row \in Arrays, NEW left \in Lefts, NEW right \in Rights
        PROVE  /\ <<row, left, right>> \in SortCalls /\ f[<<row, left, right>>] \in Arrays
               /\ SortOf(f, row, left, right) \in Arrays
    <3>1. f \in [SortCalls -> Arrays]
      BY <2>1 DEF SortsBelow
    <3>2. \A r \in Arrays, a \in Lefts, b \in Rights : <<r, a, b>> \in SortCalls /\ f[<<r, a, b>>] \in Arrays
      BY <3>1 DEF SortCalls
    <3>3. CASE left >= right
      BY <3>2, <3>3 DEF SortOf
    <3>4. CASE ~(left >= right)
      <4> DEFINE p == Half(row, left, right)
      <4>1. left < right
        BY <1>1, <3>4 DEF Lefts, Rights
      <4>2. p.row \in Arrays /\ p.store_index - 1 \in Rights /\ p.store_index + 1 \in Lefts
        BY <4>1, HalfIs
      <4> HIDE DEF p
      <4>3. f[<<f[<<p.row, left, p.store_index - 1>>], p.store_index + 1, right>>] \in Arrays
        BY <3>2, <4>2
      <4> QED BY <3>2, <3>4, <4>3 DEF SortOf, p
    <3> QED BY <3>3, <3>4
  <2>3. h \in [SortCalls -> Arrays]
    <3> SUFFICES ASSUME NEW call \in SortCalls PROVE E(call) \in Arrays
      OBVIOUS
    <3>1. call[1] \in Arrays /\ call[2] \in Lefts /\ call[3] \in Rights /\ call = <<call[1], call[2], call[3]>>
      BY DEF SortCalls
    <3>2. f[call] \in Arrays
      BY <2>1 DEF SortsBelow
    <3> QED BY <2>2, <3>1, <3>2
  <2>4. ASSUME NEW row \in Arrays, NEW left \in Lefts, NEW right \in Rights
        PROVE  h[<<row, left, right>>] = IF right - left < n - 1 THEN f[<<row, left, right>>] ELSE SortOf(f, row, left, right)
    <3> DEFINE call == <<row, left, right>>
    <3>1. call \in SortCalls /\ call[1] = row /\ call[2] = left /\ call[3] = right
      BY <2>2
    <3> HIDE DEF call
    <3>2. h[call] = E(call)
      BY <3>1
    <3> HIDE DEF h
    <3>3. h[call] = IF right - left < n - 1 THEN f[call] ELSE SortOf(f, row, left, right)
      BY <3>1, <3>2
    <3> QED BY <3>3 DEF call
  <2> HIDE DEF h, E
  <2>5. ASSUME NEW row \in Arrays, NEW left \in Lefts, NEW right \in Rights, right - left < n
        PROVE  h[<<row, left, right>>] = SortOf(h, row, left, right)
    <3>1. h[<<row, left, right>>] = SortOf(f, row, left, right)
      BY <2>1, <2>4 DEF SortsBelow
    <3>2. CASE left >= right
      BY <3>1, <3>2 DEF SortOf
    <3>3. CASE ~(left >= right)
      <4> DEFINE p == Half(row, left, right)
                 s == p.store_index
                 a == f[<<p.row, left, s - 1>>]
      <4>1. left < right /\ left \in Nat /\ right \in Nat
        BY <1>1, <3>3 DEF Lefts, Rights
      <4>2. p.row \in Arrays /\ s \in left .. right /\ s - 1 \in Rights /\ s + 1 \in Lefts
        BY <4>1, HalfIs
      <4> HIDE DEF p, s
      <4>3. s - 1 - left < n - 1 /\ right - (s + 1) < n - 1
        BY <2>5, <4>1, <4>2
      <4>4. h[<<p.row, left, s - 1>>] = a /\ a \in Arrays
        BY <2>2, <2>4, <4>2, <4>3
      <4> HIDE DEF a
      <4>5. h[<<a, s + 1, right>>] = f[<<a, s + 1, right>>]
        BY <2>4, <4>2, <4>3, <4>4
      <4>6. SortOf(f, row, left, right) = f[<<a, s + 1, right>>]
        BY <3>3 DEF SortOf, a, s, p
      <4>7. SortOf(h, row, left, right) = h[<<h[<<p.row, left, s - 1>>], s + 1, right>>]
        BY <3>3 DEF SortOf, s, p
      <4> QED BY <3>1, <4>4, <4>5, <4>6, <4>7
    <3> QED BY <3>2, <3>3
  <2>6. SortsBelow(h, n)
    BY <2>3, <2>5 DEF SortsBelow
  <2> QED BY <1>1, <2>6
<1>4. VocabSize \in S
  <2> HIDE DEF S
  <2>1. \A n \in 0 .. VocabSize : n \in S
    BY <1>1, <1>2, <1>3, ByNumbers
  <2> QED BY <1>1, <2>1
<1> QED BY <1>4

(* quick_sort is one.                                                       *)
LEMMA SortIs ==
  \A row \in Arrays, left \in Lefts, right \in Rights :
    quick_sort[<<row, left, right>>] = SortOf(quick_sort, row, left, right)
<1> DEFINE E(f, call) == SortOf(f, call[1], call[2], call[3])
           P(f) == f = [call \in SortCalls |-> E(f, call)]
           c == CHOOSE f : P(f)
<1>1. quick_sort = c
  BY Zenon DEF quick_sort, SortOf, SortCalls, Half
<1>2. PICK f : SortsBelow(f, VocabSize)
  BY SortExists
<1>3. \A call \in SortCalls : f[call] = E(f, call)
  <2> SUFFICES ASSUME NEW call \in SortCalls PROVE f[call] = E(f, call)
    OBVIOUS
  <2> DEFINE row == call[1]
             left == call[2]
             right == call[3]
  <2>1. row \in Arrays /\ left \in Lefts /\ right \in Rights /\ call = <<row, left, right>>
    BY DEF SortCalls
  <2>2. right - left < VocabSize
    BY <2>1, PlacesAre DEF Lefts, Rights
  <2> HIDE DEF row, left, right
  <2>3. f[<<row, left, right>>] = SortOf(f, row, left, right)
    BY <1>2, <2>1, <2>2 DEF SortsBelow
  <2> QED BY <2>1, <2>3 DEF row, left, right
<1>4. f \in [SortCalls -> Arrays]
  BY <1>2 DEF SortsBelow
<1>5. P(f)
  <2>1. f = [call \in SortCalls |-> f[call]]
    BY <1>4
  <2> HIDE DEF E
  <2> QED BY <1>3, <2>1
<1>6. P(c)
  <2> HIDE DEF P
  <2> QED BY <1>5
<1> HIDE DEF c
<1>7. \A call \in SortCalls : c[call] = E(c, call)
  <2> HIDE DEF E
  <2> QED BY <1>6
<1>8. ASSUME NEW row \in Arrays, NEW left \in Lefts, NEW right \in Rights
      PROVE  quick_sort[<<row, left, right>>] = SortOf(quick_sort, row, left, right)
  <2> DEFINE call == <<row, left, right>>
  <2>1. call \in SortCalls /\ call[1] = row /\ call[2] = left /\ call[3] = right
    BY DEF SortCalls
  <2> HIDE DEF call
  <2>2. c[call] = SortOf(c, row, left, right)
    BY <1>7, <2>1
  <2> QED BY <1>1, <2>2 DEF call
<1> QED BY <1>8

(* In descending order.                                                     *)
Descending(row, left, right) ==
  \A i, j \in left .. right : i <= j => row.logit[i] >= row.logit[j]

(* What quick_sort makes of a range.                                        *)
SortResult(logits, row, sorted, left, right) ==
  /\ Moved(logits, row, sorted, left, right)
  /\ Own(logits, row) => Descending(sorted, left, right)

(* Of the two sides of a pivot, the one put in order after the other.       *)
LEMMA SidesSorted ==
  ASSUME NEW logits, NEW row \in Arrays, NEW left \in Places, NEW right \in Places, NEW at \in left .. right,
         Split(row, left, right, at), NEW a, NEW b,
         SortResult(logits, row, a, left, at - 1), SortResult(logits, a, b, at + 1, right)
  PROVE  SortResult(logits, row, b, left, right)
<1> DEFINE P == row.logit[at]
<1>1. /\ VocabSize \in Nat /\ left \in Nat /\ right \in Nat /\ at \in Nat /\ at \in Places
      /\ left .. right \subseteq Places /\ Places \subseteq Nat
      /\ left .. at - 1 \subseteq left .. right /\ at + 1 .. right \subseteq left .. right
      /\ left \in Int /\ right \in Int /\ at - 1 \in Int /\ at + 1 \in Int
  BY PlacesAre DEF Places
<1>2. Moved(logits, row, a, left, at - 1) /\ Moved(logits, a, b, at + 1, right)
  BY DEF SortResult
<1>3. Moved(logits, row, b, left, right)
  BY <1>1, <1>2, MovedTwice
<1>4. a \in Arrays /\ b \in Arrays
  BY <1>2 DEF Moved
<1>5. \A k \in Places : row.logit[k] \in Nat /\ a.logit[k] \in Nat /\ b.logit[k] \in Nat
  BY <1>4 DEF Arrays, Places
<1>6. ASSUME Own(logits, row) PROVE Descending(b, left, right)
  <2>1. Own(logits, a)
    BY <1>2, <1>6 DEF Moved
  <2>2. Descending(a, left, at - 1) /\ Descending(b, at + 1, right)
    BY <1>6, <2>1 DEF SortResult
  <2>3. \A k \in left .. at : b.logit[k] = a.logit[k]
    <3> SUFFICES ASSUME NEW k \in left .. at PROVE b.logit[k] = a.logit[k]
      OBVIOUS
    <3>1. k \in Places \ (at + 1 .. right)
      BY <1>1
    <3> QED BY <1>2, <3>1 DEF Moved
  <2>4. \A k \in at .. right : a.logit[k] = row.logit[k]
    <3> SUFFICES ASSUME NEW k \in at .. right PROVE a.logit[k] = row.logit[k]
      OBVIOUS
    <3>1. k \in Places \ (left .. at - 1)
      BY <1>1
    <3> QED BY <1>2, <3>1 DEF Moved
  <2>5. ASSUME NEW k \in left .. at - 1 PROVE b.logit[k] > P
    <3>1. k \in Places /\ k \in left .. at
      BY <1>1
    <3>2. PICK j \in Places : j \in left .. at - 1 /\ a.logit[k] = row.logit[j]
      BY <1>1, <1>2, <1>6, <3>1, FromWithin
    <3>3. row.logit[j] > P
      BY <3>2 DEF Split
    <3> QED BY <2>3, <3>1, <3>2, <3>3
  <2>6. b.logit[at] = P
    <3>1. at \in left .. at /\ at \in at .. right
      BY <1>1
    <3> QED BY <2>3, <2>4, <3>1
  <2>7. ASSUME NEW k \in at + 1 .. right PROVE b.logit[k] <= P
    <3>1. k \in Places
      BY <1>1
    <3>2. PICK j \in Places : j \in at + 1 .. right /\ b.logit[k] = a.logit[j]
      BY <1>1, <1>2, <1>4, <2>1, <3>1, FromWithin
    <3>3. j \in at .. right
      BY <1>1, <3>2
    <3>4. row.logit[j] <= P
      BY <3>2 DEF Split
    <3> QED BY <2>4, <3>2, <3>3, <3>4
  <2>8. P \in Nat
    BY <1>1, <1>5
  <2> HIDE DEF P
  <2> SUFFICES ASSUME NEW i \in left .. right, NEW j \in left .. right, i <= j
               PROVE  b.logit[i] >= b.logit[j]
    BY DEF Descending
  <2>9. i \in Places /\ j \in Places /\ i \in Nat /\ j \in Nat /\ b.logit[i] \in Nat /\ b.logit[j] \in Nat
    BY <1>1, <1>5
  <2>10. CASE j < at
    <3>1. i \in left .. at - 1 /\ j \in left .. at - 1 /\ i \in left .. at /\ j \in left .. at
      BY <1>1, <2>9, <2>10
    <3>2. a.logit[i] >= a.logit[j]
      BY <2>2, <3>1 DEF Descending
    <3> QED BY <2>3, <3>1, <3>2
  <2>11. CASE i > at
    <3>1. i \in at + 1 .. right /\ j \in at + 1 .. right
      BY <1>1, <2>9, <2>11
    <3> QED BY <2>2, <3>1 DEF Descending
  <2>12. CASE i <= at /\ j >= at
    <3>1. b.logit[i] >= P
      <4>1. CASE i = at
        BY <2>6, <2>8, <4>1
      <4>2. CASE i # at
        <5>1. i \in left .. at - 1
          BY <1>1, <2>9, <2>12, <4>2
        <5> QED BY <2>5, <2>8, <2>9, <5>1
      <4> QED BY <4>1, <4>2
    <3>2. b.logit[j] <= P
      <4>1. CASE j = at
        BY <2>6, <2>8, <4>1
      <4>2. CASE j # at
        <5>1. j \in at + 1 .. right
          BY <1>1, <2>9, <2>12, <4>2
        <5> QED BY <2>7, <5>1
      <4> QED BY <4>1, <4>2
    <3> QED BY <2>8, <2>9, <3>1, <3>2
  <2> QED BY <1>1, <2>9, <2>10, <2>11, <2>12
<1> QED BY <1>3, <1>6 DEF SortResult

LEMMA SortSorts ==
  ASSUME NEW logits, NEW row \in Arrays, NEW left \in Lefts, NEW right \in Rights
  PROVE  SortResult(logits, row, quick_sort[<<row, left, right>>], left, right)
<1> DEFINE Good(n) == \A a \in Arrays, l \in Lefts, r \in Rights :
                        r - l < n => SortResult(logits, a, quick_sort[<<a, l, r>>], l, r)
           S == {n \in 0 .. VocabSize : Good(n)}
<1>1. VocabSize \in Nat /\ \A l \in Lefts, r \in Rights : l \in Nat /\ r \in Nat /\ l >= 1 /\ r <= VocabSize
  BY PlacesAre DEF Lefts, Rights
<1>2. ASSUME NEW a \in Arrays, NEW l \in Lefts, NEW r \in Rights, l >= r
      PROVE  SortResult(logits, a, quick_sort[<<a, l, r>>], l, r)
  <2>1. quick_sort[<<a, l, r>>] = a
    <3>1. quick_sort[<<a, l, r>>] = SortOf(quick_sort, a, l, r)
      BY SortIs
    <3> QED BY <1>2, <3>1 DEF SortOf
  <2>2. Moved(logits, a, a, l, r)
    BY NoneMoved
  <2>3. Descending(a, l, r)
    <3> SUFFICES ASSUME NEW i \in l .. r, NEW j \in l .. r PROVE a.logit[i] >= a.logit[j]
      BY DEF Descending
    <3>1. i = j /\ i \in Places
      BY <1>1, <1>2 DEF Places, Lefts, Rights
    <3>2. a.logit[i] \in Nat
      BY <3>1 DEF Arrays, Places
    <3> QED BY <3>1, <3>2
  <2> QED BY <2>1, <2>2, <2>3 DEF SortResult
<1>3. 0 \in S
  <2>1. Good(0)
    <3> SUFFICES ASSUME NEW a \in Arrays, NEW l \in Lefts, NEW r \in Rights, r - l < 0
                 PROVE  SortResult(logits, a, quick_sort[<<a, l, r>>], l, r)
      OBVIOUS
    <3>1. l >= r
      BY <1>1
    <3> QED BY <1>2, <3>1
  <2> HIDE DEF Good
  <2> QED BY <1>1, <2>1
<1>4. ASSUME NEW n \in 1 .. VocabSize, n - 1 \in S PROVE n \in S
  <2>1. Good(n - 1)
    <3> HIDE DEF Good
    <3> QED BY <1>4
  <2>2. ASSUME NEW a \in Arrays, NEW l \in Lefts, NEW r \in Rights, r - l < n
        PROVE  SortResult(logits, a, quick_sort[<<a, l, r>>], l, r)
    <3>1. CASE l >= r
      BY <1>2, <3>1
    <3>2. CASE ~(l >= r)
      <4> DEFINE p == Half(a, l, r)
                 s == p.store_index
                 b == quick_sort[<<p.row, l, s - 1>>]
                 c == quick_sort[<<b, s + 1, r>>]
      <4>1. l < r /\ l \in Nat /\ r \in Nat
        BY <1>1, <3>2
      <4>2. /\ l \in Places /\ r \in Places /\ p.row \in Arrays /\ s \in l .. r /\ s - 1 \in Rights /\ s + 1 \in Lefts
            /\ Moved(logits, a, p.row, l, r) /\ Split(p.row, l, r, s)
        BY <4>1, HalfIs
      <4>3. quick_sort[<<a, l, r>>] = c
        <5>1. quick_sort[<<a, l, r>>] = SortOf(quick_sort, a, l, r)
          BY SortIs
        <5> QED BY <3>2, <5>1, Zenon DEF SortOf
      <4> HIDE DEF p, s
      <4>4. s - 1 - l < n - 1 /\ r - (s + 1) < n - 1
        BY <2>2, <4>1, <4>2
      <4>5. SortResult(logits, p.row, b, l, s - 1)
        BY <2>1, <4>2, <4>4
      <4>6. b \in Arrays
        BY <4>5 DEF SortResult, Moved
      <4> HIDE DEF b
      <4>7. SortResult(logits, b, c, s + 1, r)
        BY <2>1, <4>2, <4>4, <4>6
      <4> HIDE DEF c
      <4>8. SortResult(logits, p.row, c, l, r)
        BY <4>2, <4>5, <4>7, SidesSorted
      <4>9. Moved(logits, a, c, l, r)
        BY <4>1, <4>2, <4>8, MovedTwice DEF SortResult
      <4>10. Own(logits, a) => Descending(c, l, r)
        BY <4>2, <4>8 DEF SortResult, Moved
      <4> QED BY <4>3, <4>9, <4>10 DEF SortResult
    <3> QED BY <3>1, <3>2
  <2>3. Good(n)
    BY <2>2
  <2> HIDE DEF Good
  <2> QED BY <1>1, <2>3
<1>5. Good(VocabSize)
  <2> HIDE DEF Good
  <2>1. \A n \in 0 .. VocabSize : n \in S
    <3> HIDE DEF S
    <3> QED BY <1>1, <1>3, <1>4, ByNumbers
  <2> QED BY <1>1, <2>1
<1>6. right - left < VocabSize
  BY <1>1
<1> QED BY <1>5, <1>6

(* There is a function as quick_select defines one.                         *)
SelectsBelow(f, n) ==
  /\ f \in [SelectCalls -> Arrays]
  /\ \A row \in Arrays, left \in Lefts, right \in Rights, k \in Nat :
       right - left < n => f[<<row, left, right, k>>] = SelectOf(f, row, left, right, k)

LEMMA SelectExists ==
  \E f : SelectsBelow(f, VocabSize)
<1> DEFINE S == {n \in 0 .. VocabSize : \E f : SelectsBelow(f, n)}
<1>1. VocabSize \in Nat
  BY PlacesAre
<1>2. 0 \in S
  <2> DEFINE f == [call \in SelectCalls |-> call[1]]
  <2>1. f \in [SelectCalls -> Arrays]
    BY DEF SelectCalls
  <2>2. ASSUME NEW row \in Arrays, NEW left \in Lefts, NEW right \in Rights, NEW k \in Nat, right - left < 0
        PROVE  f[<<row, left, right, k>>] = SelectOf(f, row, left, right, k)
    <3>1. f[<<row, left, right, k>>] = row
      BY DEF SelectCalls
    <3>2. left >= right
      BY <1>1, <2>2 DEF Lefts, Rights
    <3> HIDE DEF f
    <3> QED BY <3>1, <3>2 DEF SelectOf
  <2> HIDE DEF f
  <2>3. SelectsBelow(f, 0)
    BY <2>1, <2>2 DEF SelectsBelow
  <2> QED BY <1>1, <2>3
<1>3. ASSUME NEW n \in 1 .. VocabSize, n - 1 \in S PROVE n \in S
  <2>1. PICK f : SelectsBelow(f, n - 1)
    BY <1>3
  <2> DEFINE E(call) == IF call[3] - call[2] < n - 1 THEN f[call]
                        ELSE SelectOf(f, call[1], call[2], call[3], call[4])
             h == [call \in SelectCalls |-> E(call)]
  <2>2. ASSUME NEW row \in Arrays, NEW left \in Lefts, NEW right \in Rights, NEW k \in Nat
        PROVE  /\ <<row, left, right, k>> \in SelectCalls /\ f[<<row, left, right, k>>] \in Arrays
               /\ SelectOf(f, row, left, right, k) \in Arrays
    <3>1. f \in [SelectCalls -> Arrays]
      BY <2>1 DEF SelectsBelow
    <3>2. \A r \in Arrays, a \in Lefts, b \in Rights :
            <<r, a, b, k>> \in SelectCalls /\ f[<<r, a, b, k>>] \in Arrays
      BY <3>1 DEF SelectCalls
    <3>3. CASE left >= right
      BY <3>2, <3>3 DEF SelectOf
    <3>4. CASE ~(left >= right)
      <4> DEFINE p == Half(row, left, right)
      <4>1. left < right
        BY <1>1, <3>4 DEF Lefts, Rights
      <4>2. p.row \in Arrays /\ p.store_index - 1 \in Rights /\ p.store_index + 1 \in Lefts
        BY <4>1, HalfIs
      <4> HIDE DEF p
      <4>3. f[<<p.row, p.store_index + 1, right, k>>] \in Arrays /\ f[<<p.row, left, p.store_index - 1, k>>] \in Arrays
        BY <3>2, <4>2
      <4> QED BY <3>2, <3>4, <4>2, <4>3 DEF SelectOf, p
    <3> QED BY <3>3, <3>4
  <2>3. h \in [SelectCalls -> Arrays]
    <3> SUFFICES ASSUME NEW call \in SelectCalls PROVE E(call) \in Arrays
      OBVIOUS
    <3>1. /\ call[1] \in Arrays /\ call[2] \in Lefts /\ call[3] \in Rights /\ call[4] \in Nat
          /\ call = <<call[1], call[2], call[3], call[4]>>
      BY DEF SelectCalls
    <3>2. f[call] \in Arrays
      BY <2>1 DEF SelectsBelow
    <3> QED BY <2>2, <3>1, <3>2
  <2>4. ASSUME NEW row \in Arrays, NEW left \in Lefts, NEW right \in Rights, NEW k \in Nat
        PROVE  h[<<row, left, right, k>>] = IF right - left < n - 1 THEN f[<<row, left, right, k>>]
                                        ELSE SelectOf(f, row, left, right, k)
    <3> DEFINE call == <<row, left, right, k>>
    <3>1. call \in SelectCalls /\ call[1] = row /\ call[2] = left /\ call[3] = right /\ call[4] = k
      BY <2>2
    <3> HIDE DEF call
    <3>2. h[call] = E(call)
      BY <3>1
    <3> HIDE DEF h
    <3>3. h[call] = IF right - left < n - 1 THEN f[call] ELSE SelectOf(f, row, left, right, k)
      BY <3>1, <3>2
    <3> QED BY <3>3 DEF call
  <2> HIDE DEF h, E
  <2>5. ASSUME NEW row \in Arrays, NEW left \in Lefts, NEW right \in Rights, NEW k \in Nat, right - left < n
        PROVE  h[<<row, left, right, k>>] = SelectOf(h, row, left, right, k)
    <3>1. h[<<row, left, right, k>>] = SelectOf(f, row, left, right, k)
      BY <2>1, <2>4 DEF SelectsBelow
    <3>2. CASE left >= right
      BY <3>1, <3>2 DEF SelectOf
    <3>3. CASE ~(left >= right)
      <4> DEFINE p == Half(row, left, right)
                 s == p.store_index
      <4>1. left < right /\ left \in Nat /\ right \in Nat
        BY <1>1, <3>3 DEF Lefts, Rights
      <4>2. p.row \in Arrays /\ s \in left .. right /\ s - 1 \in Rights /\ s + 1 \in Lefts
        BY <4>1, HalfIs
      <4> HIDE DEF p, s
      <4>3. s - 1 - left < n - 1 /\ right - (s + 1) < n - 1
        BY <2>5, <4>1, <4>2
      <4>4. h[<<p.row, left, s - 1, k>>] = f[<<p.row, left, s - 1, k>>]
        BY <2>4, <4>2, <4>3
      <4>5. h[<<p.row, s + 1, right, k>>] = f[<<p.row, s + 1, right, k>>]
        BY <2>4, <4>2, <4>3
      <4> DEFINE Of(g) == IF SelectEnds(s, k) THEN p.row
                          ELSE IF s > k + 1 THEN g[<<p.row, left, s - 1, k>>]
                          ELSE g[<<p.row, s + 1, right, k>>]
      <4>6. SelectOf(f, row, left, right, k) = Of(f)
        BY <3>3 DEF SelectOf, s, p
      <4>7. SelectOf(h, row, left, right, k) = Of(h)
        BY <3>3 DEF SelectOf, s, p
      <4> QED BY <3>1, <4>4, <4>5, <4>6, <4>7
    <3> QED BY <3>2, <3>3
  <2>6. SelectsBelow(h, n)
    BY <2>3, <2>5 DEF SelectsBelow
  <2> QED BY <1>1, <2>6
<1>4. VocabSize \in S
  <2> HIDE DEF S
  <2>1. \A n \in 0 .. VocabSize : n \in S
    BY <1>1, <1>2, <1>3, ByNumbers
  <2> QED BY <1>1, <2>1
<1> QED BY <1>4

(* quick_select is one.                                                     *)
LEMMA SelectIs ==
  \A row \in Arrays, left \in Lefts, right \in Rights, k \in Nat :
    quick_select[<<row, left, right, k>>] = SelectOf(quick_select, row, left, right, k)
<1> DEFINE E(f, call) == SelectOf(f, call[1], call[2], call[3], call[4])
           P(f) == f = [call \in SelectCalls |-> E(f, call)]
           c == CHOOSE f : P(f)
<1>1. quick_select = c
  BY Zenon DEF quick_select, SelectOf, SelectCalls, Half
<1>2. PICK f : SelectsBelow(f, VocabSize)
  BY SelectExists
<1>3. \A call \in SelectCalls : f[call] = E(f, call)
  <2> SUFFICES ASSUME NEW call \in SelectCalls PROVE f[call] = E(f, call)
    OBVIOUS
  <2> DEFINE row == call[1]
             left == call[2]
             right == call[3]
             k == call[4]
  <2>1. row \in Arrays /\ left \in Lefts /\ right \in Rights /\ k \in Nat /\ call = <<row, left, right, k>>
    BY DEF SelectCalls
  <2>2. right - left < VocabSize
    BY <2>1, PlacesAre DEF Lefts, Rights
  <2> HIDE DEF row, left, right, k
  <2>3. f[<<row, left, right, k>>] = SelectOf(f, row, left, right, k)
    BY <1>2, <2>1, <2>2 DEF SelectsBelow
  <2> QED BY <2>1, <2>3 DEF row, left, right, k
<1>4. f \in [SelectCalls -> Arrays]
  BY <1>2 DEF SelectsBelow
<1>5. P(f)
  <2>1. f = [call \in SelectCalls |-> f[call]]
    BY <1>4
  <2> HIDE DEF E
  <2> QED BY <1>3, <2>1
<1>6. P(c)
  <2> HIDE DEF P
  <2> QED BY <1>5
<1> HIDE DEF c
<1>7. \A call \in SelectCalls : c[call] = E(c, call)
  <2> HIDE DEF E
  <2> QED BY <1>6
<1>8. ASSUME NEW row \in Arrays, NEW left \in Lefts, NEW right \in Rights, NEW k \in Nat
      PROVE  quick_select[<<row, left, right, k>>] = SelectOf(quick_select, row, left, right, k)
  <2> DEFINE call == <<row, left, right, k>>
  <2>1. call \in SelectCalls /\ call[1] = row /\ call[2] = left /\ call[3] = right /\ call[4] = k
    BY DEF SelectCalls
  <2> HIDE DEF call
  <2>2. c[call] = SelectOf(c, row, left, right, k)
    BY <1>7, <2>1
  <2> QED BY <1>1, <2>2 DEF call
<1> QED BY <1>8

(* The first k have no smaller logit than what follows.                     *)
Parted(row, left, right, k) ==
  \A i, j \in left .. right : i <= k /\ j > k => row.logit[i] >= row.logit[j]

(* What quick_select makes of a range.                                      *)
SelectResult(logits, row, selected, left, right, k) ==
  /\ Moved(logits, row, selected, left, right)
  /\ Own(logits, row) => Parted(selected, left, right, k)

(* The pivot is the k-th or the next.                                       *)
LEMMA EndsParted ==
  ASSUME NEW row \in Arrays, NEW left \in Places, NEW right \in Places, NEW at \in left .. right,
         Split(row, left, right, at), NEW k \in Nat, SelectEnds(at, k)
  PROVE  Parted(row, left, right, k)
<1>1. /\ VocabSize \in Nat /\ left \in Nat /\ right \in Nat /\ at \in Nat /\ at \in Places
      /\ left .. right \subseteq Places
  BY PlacesAre DEF Places
<1>2. \A i \in Places : row.logit[i] \in Nat
  BY DEF Arrays, Places
<1>3. at = k \/ at = k + 1
  BY DEF SelectEnds
<1> SUFFICES ASSUME NEW i \in left .. right, NEW j \in left .. right, i <= k, j > k
             PROVE  row.logit[i] >= row.logit[j]
  BY DEF Parted
<1>4. i \in Places /\ j \in Places /\ i \in Nat /\ j \in Nat
  BY <1>1
<1>5. row.logit[i] \in Nat /\ row.logit[j] \in Nat /\ row.logit[at] \in Nat
  BY <1>1, <1>2, <1>4
<1>6. row.logit[i] >= row.logit[at]
  <2>1. CASE i = at
    BY <1>5, <2>1
  <2>2. CASE i # at
    <3>1. i \in left .. at - 1
      BY <1>1, <1>3, <1>4, <2>2
    <3>2. row.logit[i] > row.logit[at]
      BY <3>1 DEF Split
    <3> QED BY <1>5, <3>2
  <2> QED BY <2>1, <2>2
<1>7. row.logit[at] >= row.logit[j]
  <2>1. CASE j = at
    BY <1>5, <2>1
  <2>2. CASE j # at
    <3>1. j \in at + 1 .. right
      BY <1>1, <1>3, <1>4, <2>2
    <3>2. row.logit[j] <= row.logit[at]
      BY <3>1 DEF Split
    <3> QED BY <1>5, <3>2
  <2> QED BY <2>1, <2>2
<1> QED BY <1>5, <1>6, <1>7

(* The k-th is on the left of the pivot.                                    *)
LEMMA LeftParted ==
  ASSUME NEW logits, NEW row \in Arrays, NEW left \in Places, NEW right \in Places, NEW at \in left .. right,
         Split(row, left, right, at), NEW k \in Nat, at > k + 1, NEW b,
         SelectResult(logits, row, b, left, at - 1, k)
  PROVE  SelectResult(logits, row, b, left, right, k)
<1>1. /\ VocabSize \in Nat /\ left \in Nat /\ right \in Nat /\ at \in Nat /\ at \in Places
      /\ left .. right \subseteq Places
      /\ left .. at - 1 \subseteq left .. right
      /\ left \in Int /\ right \in Int /\ at - 1 \in Int
  BY PlacesAre DEF Places
<1>2. Moved(logits, row, b, left, at - 1)
  BY DEF SelectResult
<1>3. Moved(logits, row, b, left, right)
  BY <1>1, <1>2 DEF Moved
<1>4. \A i \in Places : row.logit[i] \in Nat /\ b.logit[i] \in Nat
  BY <1>2 DEF Moved, Arrays, Places
<1>5. ASSUME Own(logits, row), NEW i \in left .. right, NEW j \in left .. right, i <= k, j > k
      PROVE  b.logit[i] >= b.logit[j]
  <2>1. i \in Places /\ j \in Places /\ i \in Nat /\ j \in Nat /\ i \in left .. at - 1
    BY <1>1, <1>5
  <2>2. b.logit[i] \in Nat /\ b.logit[j] \in Nat /\ row.logit[at] \in Nat
    BY <1>1, <1>4, <2>1
  <2>3. CASE j < at
    <3>1. j \in left .. at - 1
      BY <1>1, <2>1, <2>3
    <3> QED BY <1>5, <2>1, <3>1 DEF SelectResult, Parted
  <2>4. CASE j >= at
    <3>1. b.logit[j] = row.logit[j]
      <4>1. j \in Places \ (left .. at - 1)
        BY <1>1, <2>1, <2>4
      <4> QED BY <1>2, <4>1 DEF Moved
    <3>2. row.logit[j] <= row.logit[at]
      <4>1. CASE j = at
        BY <2>2, <4>1
      <4>2. CASE j # at
        <5>1. j \in at + 1 .. right
          BY <1>1, <2>1, <2>4, <4>2
        <5> QED BY <5>1 DEF Split
      <4> QED BY <4>1, <4>2
    <3>3. PICK h \in Places : h \in left .. at - 1 /\ b.logit[i] = row.logit[h]
      BY <1>1, <1>2, <1>5, <2>1, FromWithin
    <3>4. row.logit[h] > row.logit[at]
      BY <3>3 DEF Split
    <3> QED BY <1>4, <2>2, <3>1, <3>2, <3>3, <3>4
  <2> QED BY <1>1, <2>1, <2>3, <2>4
<1> QED BY <1>3, <1>5 DEF SelectResult, Parted

(* It is on the right of the pivot.                                         *)
LEMMA RightParted ==
  ASSUME NEW logits, NEW row \in Arrays, NEW left \in Places, NEW right \in Places, NEW at \in left .. right,
         Split(row, left, right, at), NEW k \in Nat, at < k, NEW b,
         SelectResult(logits, row, b, at + 1, right, k)
  PROVE  SelectResult(logits, row, b, left, right, k)
<1>1. /\ VocabSize \in Nat /\ left \in Nat /\ right \in Nat /\ at \in Nat /\ at \in Places
      /\ left .. right \subseteq Places
      /\ at + 1 .. right \subseteq left .. right
      /\ left \in Int /\ right \in Int /\ at + 1 \in Int
  BY PlacesAre DEF Places
<1>2. Moved(logits, row, b, at + 1, right)
  BY DEF SelectResult
<1>3. Moved(logits, row, b, left, right)
  BY <1>1, <1>2 DEF Moved
<1>4. \A i \in Places : row.logit[i] \in Nat /\ b.logit[i] \in Nat
  BY <1>2 DEF Moved, Arrays, Places
<1>5. ASSUME Own(logits, row), NEW i \in left .. right, NEW j \in left .. right, i <= k, j > k
      PROVE  b.logit[i] >= b.logit[j]
  <2>1. i \in Places /\ j \in Places /\ i \in Nat /\ j \in Nat /\ j \in at + 1 .. right
    BY <1>1, <1>5
  <2>2. b.logit[i] \in Nat /\ b.logit[j] \in Nat /\ row.logit[at] \in Nat
    BY <1>1, <1>4, <2>1
  <2>3. CASE i > at
    <3>1. i \in at + 1 .. right
      BY <1>1, <2>1, <2>3
    <3> QED BY <1>5, <2>1, <3>1 DEF SelectResult, Parted
  <2>4. CASE i <= at
    <3>1. b.logit[i] = row.logit[i]
      <4>1. i \in Places \ (at + 1 .. right)
        BY <1>1, <2>1, <2>4
      <4> QED BY <1>2, <4>1 DEF Moved
    <3>2. row.logit[i] >= row.logit[at]
      <4>1. CASE i = at
        BY <2>2, <4>1
      <4>2. CASE i # at
        <5>1. i \in left .. at - 1
          BY <1>1, <2>1, <2>4, <4>2
        <5>2. row.logit[i] > row.logit[at]
          BY <5>1 DEF Split
        <5> QED BY <1>4, <2>1, <2>2, <5>2
      <4> QED BY <4>1, <4>2
    <3>3. PICK h \in Places : h \in at + 1 .. right /\ b.logit[j] = row.logit[h]
      <4>1. Own(logits, row)
        BY <1>5
      <4>2. right \in Int /\ at + 1 \in Int
        BY <1>1
      <4>3. j \in Places /\ j \in at + 1 .. right
        BY <2>1
      <4>4. \E h \in Places : h \in at + 1 .. right /\ b.id[j] = row.id[h] /\ b.logit[j] = row.logit[h]
        BY <1>2, <4>1, <4>2, <4>3, FromWithin
      <4> QED BY <4>4
    <3>4. row.logit[h] <= row.logit[at]
      BY <3>3 DEF Split
    <3> QED BY <1>4, <2>2, <3>1, <3>2, <3>3, <3>4
  <2> QED BY <1>1, <2>1, <2>3, <2>4
<1> QED BY <1>3, <1>5 DEF SelectResult, Parted

LEMMA SelectSelects ==
  ASSUME NEW logits, NEW row \in Arrays, NEW left \in Lefts, NEW right \in Rights, NEW k \in Nat
  PROVE  SelectResult(logits, row, quick_select[<<row, left, right, k>>], left, right, k)
<1> DEFINE Good(n) == \A a \in Arrays, l \in Lefts, r \in Rights :
                        r - l < n => SelectResult(logits, a, quick_select[<<a, l, r, k>>], l, r, k)
           S == {n \in 0 .. VocabSize : Good(n)}
<1>1. VocabSize \in Nat /\ \A l \in Lefts, r \in Rights : l \in Nat /\ r \in Nat /\ l >= 1 /\ r <= VocabSize
  BY PlacesAre DEF Lefts, Rights
<1>2. ASSUME NEW a \in Arrays, NEW l \in Lefts, NEW r \in Rights, l >= r
      PROVE  SelectResult(logits, a, quick_select[<<a, l, r, k>>], l, r, k)
  <2>1. quick_select[<<a, l, r, k>>] = a
    <3>1. quick_select[<<a, l, r, k>>] = SelectOf(quick_select, a, l, r, k)
      BY SelectIs
    <3> QED BY <1>2, <3>1 DEF SelectOf
  <2>2. Moved(logits, a, a, l, r)
    BY NoneMoved
  <2>3. Parted(a, l, r, k)
    <3> SUFFICES ASSUME NEW i \in l .. r, NEW j \in l .. r, i <= k, j > k PROVE FALSE
      BY DEF Parted
    <3>1. l \in Nat /\ r \in Nat
      BY <1>1
    <3>2. i = j /\ i \in Int
      BY <1>2, <3>1
    <3> QED BY <3>2
  <2> QED BY <2>1, <2>2, <2>3 DEF SelectResult
<1>3. 0 \in S
  <2>1. Good(0)
    <3> SUFFICES ASSUME NEW a \in Arrays, NEW l \in Lefts, NEW r \in Rights, r - l < 0
                 PROVE  SelectResult(logits, a, quick_select[<<a, l, r, k>>], l, r, k)
      OBVIOUS
    <3>1. l >= r
      BY <1>1
    <3> QED BY <1>2, <3>1
  <2> HIDE DEF Good
  <2> QED BY <1>1, <2>1
<1>4. ASSUME NEW n \in 1 .. VocabSize, n - 1 \in S PROVE n \in S
  <2>1. Good(n - 1)
    <3> HIDE DEF Good
    <3> QED BY <1>4
  <2>2. ASSUME NEW a \in Arrays, NEW l \in Lefts, NEW r \in Rights, r - l < n
        PROVE  SelectResult(logits, a, quick_select[<<a, l, r, k>>], l, r, k)
    <3>1. CASE l >= r
      BY <1>2, <3>1
    <3>2. CASE ~(l >= r)
      <4> DEFINE p == Half(a, l, r)
                 s == p.store_index
                 b == quick_select[<<a, l, r, k>>]
                 c == quick_select[<<p.row, l, s - 1, k>>]
                 d == quick_select[<<p.row, s + 1, r, k>>]
      <4>1. l < r /\ l \in Nat /\ r \in Nat
        BY <1>1, <3>2
      <4>2. /\ l \in Places /\ r \in Places /\ p.row \in Arrays /\ s \in l .. r /\ s - 1 \in Rights /\ s + 1 \in Lefts
            /\ Moved(logits, a, p.row, l, r) /\ Split(p.row, l, r, s)
        BY <4>1, HalfIs
      <4>3. b = IF SelectEnds(s, k) THEN p.row ELSE IF s > k + 1 THEN c ELSE d
        <5>1. b = SelectOf(quick_select, a, l, r, k)
          BY SelectIs
        <5> QED BY <3>2, <5>1, Zenon DEF SelectOf
      <4> HIDE DEF p, s, b
      <4>4. s - 1 - l < n - 1 /\ r - (s + 1) < n - 1 /\ s \in Nat
        BY <2>2, <4>1, <4>2
      <4>5. SelectResult(logits, p.row, b, l, r, k)
        <5>1. CASE SelectEnds(s, k)
          <6>1. Parted(p.row, l, r, k) /\ b = p.row
            BY <4>2, <4>3, <5>1, EndsParted
          <6> QED BY <6>1, <4>2, NoneMoved DEF SelectResult
        <5>2. CASE ~SelectEnds(s, k) /\ s > k + 1
          <6>1. SelectResult(logits, p.row, c, l, s - 1, k)
            BY <2>1, <4>2, <4>4
          <6>2. b = c
            BY <4>3, <5>2
          <6> HIDE DEF c
          <6> QED BY <4>2, <5>2, <6>1, <6>2, LeftParted
        <5>3. CASE ~SelectEnds(s, k) /\ ~(s > k + 1)
          <6>1. SelectResult(logits, p.row, d, s + 1, r, k)
            BY <2>1, <4>2, <4>4
          <6>2. b = d
            BY <4>3, <5>3
          <6>3. s < k
            BY <4>4, <5>3 DEF SelectEnds
          <6> HIDE DEF d
          <6> QED BY <4>2, <6>1, <6>2, <6>3, RightParted
        <5> QED BY <5>1, <5>2, <5>3
      <4>6. Moved(logits, a, b, l, r)
        BY <4>1, <4>2, <4>5, MovedTwice DEF SelectResult
      <4>7. Own(logits, a) => Parted(b, l, r, k)
        BY <4>2, <4>5 DEF SelectResult, Moved
      <4> QED BY <4>6, <4>7 DEF SelectResult, b
    <3> QED BY <3>1, <3>2
  <2>3. Good(n)
    BY <2>2
  <2> HIDE DEF Good
  <2> QED BY <1>1, <2>3
<1>5. Good(VocabSize)
  <2> HIDE DEF Good
  <2>1. \A n \in 0 .. VocabSize : n \in S
    <3> HIDE DEF S
    <3> QED BY <1>1, <1>3, <1>4, ByNumbers
  <2> QED BY <1>1, <2>1
<1>6. right - left < VocabSize
  BY <1>1
<1> QED BY <1>5, <1>6

-----------------------------------------------------------------------------
(* The first tokens of a row, and what they weigh.                          *)

(* The first k places, in descending order, and nothing larger after them.  *)
Leading(row, k) == \A i \in 1 .. k, j \in Places : i <= j => row.logit[i] >= row.logit[j]

FirstIds(row, j) == {row.id[i] : i \in 1 .. j}

(* The weights of all tokens, by id.                                        *)
WeightsOf(logits) == [t \in Places |-> Exp[logits[t]]]

(* Logits as they are when scaled: there is a weight for each.              *)
Scaled(logits) == logits \in [Places -> DOMAIN Exp] /\ logits \in [Places -> Nat]

LEMMA ExpIs ==
  \A x \in DOMAIN Exp : /\ Exp[x] \in Nat \ {0}
                        /\ \A y \in DOMAIN Exp : x <= y => Exp[x] <= Exp[y]
BY ProcessorsAssumption

LEMMA WeightsOfAre ==
  ASSUME NEW logits, Scaled(logits)
  PROVE  /\ IsWeights(WeightsOf(logits)) /\ Len(WeightsOf(logits)) = VocabSize
         /\ \A t \in Places : WeightsOf(logits)[t] = Exp[logits[t]]
<1>1. VocabSize \in Nat
  BY PlacesAre
<1>2. \A t \in Places : Exp[logits[t]] \in Nat
  BY ExpIs DEF Scaled
<1>3. WeightsOf(logits) \in [1 .. VocabSize -> Nat]
  BY <1>2 DEF WeightsOf, Places
<1>4. WeightsOf(logits) \in Seq(Nat) /\ DOMAIN WeightsOf(logits) = 1 .. VocabSize
  BY <1>1, <1>3
<1>5. Len(WeightsOf(logits)) = VocabSize
  BY <1>1, <1>4
<1> QED BY <1>4, <1>5 DEF WeightsOf, IsWeights

(* A place is known by its token.                                           *)
LEMMA OwnIs ==
  ASSUME NEW logits, NEW row \in Arrays, Own(logits, row)
  PROVE  /\ \A i \in Places : row.id[i] \in Places /\ row.logit[i] \in Nat /\ row.logit[i] = logits[row.id[i]]
         /\ \A i, j \in Places : row.id[i] = row.id[j] => i = j
         /\ \A t \in Places : \E i \in Places : row.id[i] = t
BY DEF Own, Arrays, Places

LEMMA IdsAre ==
  ASSUME NEW row \in Arrays, NEW j \in 0 .. VocabSize
  PROVE  FirstIds(row, j) \in SUBSET Places
<1>1. \A i \in 1 .. j : i \in Places
  BY PlacesAre DEF Places
<1>2. \A i \in Places : row.id[i] \in Places
  BY DEF Arrays, Places
<1> QED BY <1>1, <1>2 DEF FirstIds

LEMMA NextId ==
  ASSUME NEW logits, NEW row \in Arrays, Own(logits, row), NEW j \in Places
  PROVE  /\ FirstIds(row, j) = FirstIds(row, j - 1) \cup {row.id[j]}
         /\ row.id[j] \notin FirstIds(row, j - 1)
<1>1. j \in Nat /\ VocabSize \in Nat /\ 1 .. j = (1 .. j - 1) \cup {j}
  BY PlacesAre DEF Places
<1>2. FirstIds(row, j) = FirstIds(row, j - 1) \cup {row.id[j]}
  BY <1>1 DEF FirstIds
<1>3. ASSUME NEW i \in 1 .. j - 1 PROVE row.id[i] # row.id[j]
  <2>1. i \in Places /\ i # j
    BY <1>1 DEF Places
  <2> QED BY <2>1, OwnIs
<1> QED BY <1>2, <1>3 DEF FirstIds

LEMMA CountIds ==
  ASSUME NEW logits, NEW row \in Arrays, Own(logits, row), NEW j \in 0 .. VocabSize
  PROVE  IsFiniteSet(FirstIds(row, j)) /\ Cardinality(FirstIds(row, j)) = j
<1> DEFINE Good(d) == IsFiniteSet(FirstIds(row, d)) /\ Cardinality(FirstIds(row, d)) = d
           S == {d \in 0 .. VocabSize : Good(d)}
<1>1. VocabSize \in Nat
  BY PlacesAre
<1>2. 0 \in S
  <2>1. FirstIds(row, 0) = {}
    BY DEF FirstIds
  <2>2. Good(0)
    BY <2>1, FS_EmptySet
  <2> HIDE DEF Good
  <2> QED BY <1>1, <2>2
<1>3. ASSUME NEW d \in 1 .. VocabSize, d - 1 \in S PROVE d \in S
  <2>1. d \in Places /\ d - 1 + 1 = d
    BY <1>1 DEF Places
  <2>2. Good(d - 1)
    <3> HIDE DEF Good
    <3> QED BY <1>3
  <2>3. /\ FirstIds(row, d) = FirstIds(row, d - 1) \cup {row.id[d]}
        /\ row.id[d] \notin FirstIds(row, d - 1)
    BY <2>1, NextId
  <2>4. Good(d)
    <3> DEFINE T == FirstIds(row, d - 1)
               x == row.id[d]
    <3>1. IsFiniteSet(T) /\ Cardinality(T) = d - 1 /\ FirstIds(row, d) = T \cup {x} /\ x \notin T
      BY <2>2, <2>3
    <3> HIDE DEF T, x
    <3>2. IsFiniteSet(T \cup {x}) /\ Cardinality(T \cup {x}) = Cardinality(T) + 1
      BY <3>1, FS_AddElement
    <3> QED BY <2>1, <3>1, <3>2
  <2> HIDE DEF Good
  <2> QED BY <1>1, <2>4
<1>4. \A d \in 0 .. VocabSize : d \in S
  <2> HIDE DEF S
  <2> QED BY <1>1, <1>2, <1>3, ByNumbers
<1> HIDE DEF Good
<1>5. Good(j)
  BY <1>4
<1> QED BY <1>5 DEF Good

LEMMA RowWeights ==
  ASSUME NEW logits, Scaled(logits), NEW row \in Arrays, Own(logits, row), row.valid_size \in 0 .. VocabSize
  PROVE  /\ IsWeights(Weights(row)) /\ Len(Weights(row)) = row.valid_size
         /\ DOMAIN Weights(row) = 1 .. row.valid_size
         /\ \A i \in 1 .. row.valid_size :
              Weights(row)[i] = WeightsOf(logits)[row.id[i]] /\ Weights(row)[i] \in Nat \ {0}
<1> DEFINE k == row.valid_size
<1>1. k \in Nat /\ VocabSize \in Nat /\ 1 .. k \subseteq Places
  BY PlacesAre DEF Places
<1>2. \A i \in Places : row.id[i] \in Places /\ row.logit[i] = logits[row.id[i]]
  BY OwnIs
<1>3. \A i \in 1 .. k : Exp[row.logit[i]] \in Nat \ {0} /\ Exp[row.logit[i]] = WeightsOf(logits)[row.id[i]]
  BY <1>1, <1>2, ExpIs, WeightsOfAre DEF Scaled
<1>4. Weights(row) = [i \in 1 .. k |-> Exp[row.logit[i]]]
  BY DEF Weights
<1> HIDE DEF k
<1>5. Weights(row) \in [1 .. k -> Nat]
  BY <1>3, <1>4
<1>6. Weights(row) \in Seq(Nat) /\ DOMAIN Weights(row) = 1 .. k
  BY <1>1, <1>5
<1>7. Len(Weights(row)) = k
  BY <1>1, <1>6
<1> QED BY <1>3, <1>4, <1>6, <1>7 DEF k, IsWeights

(* The sum by place is the sum by token.                                    *)
LEMMA MassOfIds ==
  ASSUME NEW logits, Scaled(logits), NEW row \in Arrays, Own(logits, row),
         row.valid_size \in 0 .. VocabSize, NEW j \in 0 .. row.valid_size
  PROVE  Mass(Weights(row), 1 .. j) = Mass(WeightsOf(logits), FirstIds(row, j))
<1> DEFINE k == row.valid_size
           w == Weights(row)
           W == WeightsOf(logits)
           Good(d) == Mass(w, 1 .. d) = Mass(W, FirstIds(row, d))
           S == {d \in 0 .. k : Good(d)}
<1>1. k \in Nat /\ VocabSize \in Nat /\ 1 .. k \subseteq Places /\ k \in 0 .. VocabSize
  BY PlacesAre DEF Places
<1>2. /\ IsWeights(w) /\ Len(w) = k /\ \A i \in 1 .. k : w[i] = W[row.id[i]]
      /\ IsWeights(W) /\ Len(W) = VocabSize
  BY RowWeights, WeightsOfAre
<1> HIDE DEF w, W, k
<1>3. 0 \in S
  <2>1. FirstIds(row, 0) = {} /\ 1 .. 0 = {}
    BY DEF FirstIds
  <2>2. Good(0)
    BY <1>2, <2>1, MassOfNone
  <2> HIDE DEF Good
  <2> QED BY <1>1, <2>2
<1>4. ASSUME NEW d \in 1 .. k, d - 1 \in S PROVE d \in S
  <2>1. /\ d \in Places /\ d \in 1 .. Len(w) /\ 1 .. d = (1 .. d - 1) \cup {d} /\ d \notin 1 .. d - 1
        /\ row.id[d] \in 1 .. Len(W)
    <3>1. d \in Places /\ d \in 1 .. Len(w)
      BY <1>1, <1>2
    <3>2. 1 .. d = (1 .. d - 1) \cup {d} /\ d \notin 1 .. d - 1
      BY <1>1
    <3>3. row.id[d] \in Places
      BY <3>1, OwnIs
    <3>4. row.id[d] \in 1 .. Len(W)
      BY <1>2, <3>3 DEF Places
    <3> QED BY <3>1, <3>2, <3>4
  <2>2. Good(d - 1)
    <3> HIDE DEF Good
    <3> QED BY <1>4
  <2>3. /\ FirstIds(row, d) = FirstIds(row, d - 1) \cup {row.id[d]}
        /\ row.id[d] \notin FirstIds(row, d - 1)
    BY <2>1, NextId
  <2>4. Mass(w, 1 .. d) = Mass(w, 1 .. d - 1) + w[d]
    <3> DEFINE T == 1 .. d - 1
    <3>1. 1 .. d = T \cup {d} /\ d \notin T /\ d \in 1 .. Len(w)
      BY <2>1
    <3> HIDE DEF T
    <3>2. Mass(w, T \cup {d}) = Mass(w, T) + w[d]
      BY <1>2, <3>1, MassWith
    <3> QED BY <3>1, <3>2 DEF T
  <2>5. Mass(W, FirstIds(row, d)) = Mass(W, FirstIds(row, d - 1)) + W[row.id[d]]
    <3> DEFINE T == FirstIds(row, d - 1)
               x == row.id[d]
    <3>1. FirstIds(row, d) = T \cup {x} /\ x \notin T /\ x \in 1 .. Len(W)
      BY <2>1, <2>3
    <3> HIDE DEF T, x
    <3>2. Mass(W, T \cup {x}) = Mass(W, T) + W[x]
      BY <1>2, <3>1, MassWith
    <3> QED BY <3>1, <3>2 DEF T, x
  <2>6. Good(d)
    BY <1>2, <2>2, <2>4, <2>5
  <2> HIDE DEF Good
  <2> QED BY <1>1, <2>6
<1>5. \A d \in 0 .. k : d \in S
  <2> HIDE DEF S
  <2> QED BY <1>1, <1>3, <1>4, ByNumbers
<1> HIDE DEF Good
<1>6. Good(j)
  BY <1>5 DEF k
<1> QED BY <1>6 DEF Good, w, W

(* The tokens above the one in place i are those before the first that is   *)
(* as likely.                                                               *)
LEMMA AboveIs ==
  ASSUME NEW logits, NEW row \in Arrays, Own(logits, row), DOMAIN logits = Places,
         NEW k \in Places, Leading(row, k), NEW i \in 1 .. k
  PROVE  \E f \in 1 .. i : /\ row.logit[f] = row.logit[i]
                           /\ Above(logits, row.id[i]) = FirstIds(row, f - 1)
<1>1. /\ VocabSize \in Nat /\ k \in Nat /\ i \in Nat /\ i \in Places /\ 1 .. k \subseteq Places
      /\ Places \subseteq Nat
  BY PlacesAre DEF Places
<1>2. /\ \A p \in Places : row.id[p] \in Places /\ row.logit[p] \in Nat /\ row.logit[p] = logits[row.id[p]]
      /\ \A t \in Places : \E p \in Places : row.id[p] = t
  BY OwnIs
<1> DEFINE T == {f \in 1 .. i : row.logit[f] = row.logit[i]}
<1>3. T \in SUBSET Nat /\ T # {}
  BY <1>1
<1>4. PICK f \in T : \A m \in T : f <= m
  <2> HIDE DEF T
  <2> QED BY <1>3, LeastNumber
<1>5. f \in 1 .. i /\ row.logit[f] = row.logit[i] /\ f \in 1 .. k /\ f \in Nat /\ f \in Places
  BY <1>1, <1>4
<1>6. \A m \in 1 .. f - 1 : row.logit[m] # row.logit[i]
  BY <1>1, <1>4, <1>5
<1>7. ASSUME NEW u \in Above(logits, row.id[i]) PROVE u \in FirstIds(row, f - 1)
  <2>1. u \in Places /\ logits[u] > row.logit[i]
    BY <1>1, <1>2 DEF Above
  <2>2. PICK p \in Places : row.id[p] = u
    BY <1>2, <2>1
  <2>3. row.logit[p] > row.logit[i]
    BY <1>2, <2>1, <2>2
  <2>4. ~(f <= p)
    <3>1. f <= p => row.logit[f] >= row.logit[p]
      BY <1>5 DEF Leading
    <3> QED BY <1>1, <1>2, <1>5, <2>3, <3>1
  <2>5. p \in 1 .. f - 1
    BY <1>1, <1>5, <2>4 DEF Places
  <2> QED BY <2>2, <2>5 DEF FirstIds
<1>8. ASSUME NEW m \in 1 .. f - 1 PROVE row.id[m] \in Above(logits, row.id[i])
  <2>1. m \in 1 .. k /\ m <= f /\ m \in Places
    BY <1>1, <1>5
  <2>2. row.logit[m] >= row.logit[i] /\ row.logit[m] # row.logit[i]
    BY <1>5, <1>6, <2>1 DEF Leading
  <2>3. row.logit[m] > row.logit[i]
    BY <1>1, <1>2, <2>1, <2>2
  <2>4. row.id[m] \in DOMAIN logits /\ logits[row.id[m]] > logits[row.id[i]]
    BY <1>1, <1>2, <2>1, <2>3
  <2> QED BY <2>4 DEF Above
<1>9. Above(logits, row.id[i]) = FirstIds(row, f - 1)
  <2>1. FirstIds(row, f - 1) \subseteq Above(logits, row.id[i])
    BY <1>8 DEF FirstIds
  <2> QED BY <1>7, <2>1
<1> QED BY <1>5, <1>9

(* What is above a token only depends on its logit.                         *)
LEMMA AboveSame ==
  ASSUME NEW logits, NEW t, NEW u, logits[t] = logits[u]
  PROVE  Above(logits, t) = Above(logits, u)
BY DEF Above

(* A token that fewer than k are above is as likely as one of the first k.  *)
LEMMA AmongFirst ==
  ASSUME NEW logits, NEW row \in Arrays, Own(logits, row), DOMAIN logits = Places,
         NEW k \in Places, Leading(row, k), NEW t \in Places, Cardinality(Above(logits, t)) < k
  PROVE  \E i \in 1 .. k : row.logit[i] = logits[t]
<1>1. /\ VocabSize \in Nat /\ k \in Nat /\ 1 .. k \subseteq Places /\ k \in 0 .. VocabSize
      /\ Places \subseteq Nat
  BY PlacesAre DEF Places
<1>2. /\ \A p \in Places : row.id[p] \in Places /\ row.logit[p] \in Nat /\ row.logit[p] = logits[row.id[p]]
      /\ \A v \in Places : \E p \in Places : row.id[p] = v
  BY OwnIs
<1>3. PICK p \in Places : row.id[p] = t
  BY <1>2
<1>4. CASE p <= k
  <2>1. p \in 1 .. k
    BY <1>1, <1>4 DEF Places
  <2> QED BY <1>2, <1>3, <2>1
<1>5. CASE ~(p <= k)
  <2> SUFFICES ASSUME \A i \in 1 .. k : row.logit[i] # logits[t] PROVE FALSE
    OBVIOUS
  <2>1. ASSUME NEW i \in 1 .. k PROVE row.id[i] \in Above(logits, t)
    <3>1. i <= p /\ i \in Places
      BY <1>1, <1>5
    <3>2. row.logit[i] >= row.logit[p] /\ row.logit[p] = logits[t]
      BY <1>2, <1>3, <3>1 DEF Leading
    <3>3. row.logit[i] > logits[t]
      BY <1>2, <3>1, <3>2
    <3>4. row.id[i] \in DOMAIN logits /\ logits[row.id[i]] > logits[t]
      BY <1>2, <3>1, <3>3
    <3> QED BY <3>4 DEF Above
  <2>2. FirstIds(row, k) \in SUBSET Above(logits, t)
    BY <2>1 DEF FirstIds
  <2>3. IsFiniteSet(Above(logits, t))
    <3>1. Above(logits, t) \in SUBSET Places
      BY DEF Above
    <3>2. IsFiniteSet(Places)
      BY <1>1, FS_Interval DEF Places
    <3> QED BY <3>1, <3>2, FS_Subset
  <2>4. Cardinality(FirstIds(row, k)) = k
    BY <1>1, CountIds
  <2>5. Cardinality(FirstIds(row, k)) <= Cardinality(Above(logits, t))
    BY <2>2, <2>3, FS_Subset
  <2>6. Cardinality(Above(logits, t)) \in Nat
    BY <2>3, FS_CardinalityType
  <2> QED BY <1>1, <2>4, <2>5, <2>6
<1> QED BY <1>4, <1>5

(* No k tokens weigh more than the first k.                                 *)
LEMMA FirstWeighMost ==
  ASSUME NEW logits, Scaled(logits), NEW row \in Arrays, Own(logits, row),
         NEW k \in Places, Leading(row, k), NEW S \in kSubset(k, Places)
  PROVE  Mass(WeightsOf(logits), S) <= Mass(WeightsOf(logits), FirstIds(row, k))
<1> DEFINE W == WeightsOf(logits)
           T == FirstIds(row, k)
           c == W[row.id[k]]
           A == S \ T
           B == T \ S
           C == S \cap T
<1>1. /\ VocabSize \in Nat /\ k \in Nat /\ 1 .. k \subseteq Places /\ k \in 0 .. VocabSize
      /\ Places \subseteq Nat /\ k \in 1 .. k
  BY PlacesAre DEF Places
<1>2. /\ \A p \in Places : row.id[p] \in Places /\ row.logit[p] \in Nat /\ row.logit[p] = logits[row.id[p]]
      /\ \A v \in Places : \E p \in Places : row.id[p] = v
  BY OwnIs
<1>3. /\ IsWeights(W) /\ Len(W) = VocabSize
      /\ \A p \in Places : W[row.id[p]] = Exp[row.logit[p]] /\ row.logit[p] \in DOMAIN Exp
      /\ \A v \in Places : W[v] \in Nat
  <2>1. \A v \in Places : W[v] = Exp[logits[v]] /\ logits[v] \in DOMAIN Exp
    BY WeightsOfAre DEF Scaled
  <2>2. \A v \in Places : W[v] \in Nat
    BY <2>1, ExpIs
  <2>3. IsWeights(W) /\ Len(W) = VocabSize
    BY WeightsOfAre
  <2> QED BY <1>2, <2>1, <2>2, <2>3
<1> HIDE DEF W
<1>4. S \in SUBSET Places /\ Cardinality(S) = k
  BY DEF kSubset
<1>5. T \in SUBSET Places /\ IsFiniteSet(T) /\ Cardinality(T) = k
  BY <1>1, IdsAre, CountIds
<1>6. c \in Nat
  BY <1>1, <1>2, <1>3
<1>7. ASSUME NEW v \in A PROVE W[v] <= c
  <2>1. v \in Places /\ v \notin T
    BY <1>4
  <2>2. PICK p \in Places : row.id[p] = v
    BY <1>2, <2>1
  <2>3. ~(p \in 1 .. k)
    BY <2>1, <2>2 DEF FirstIds
  <2>4. k <= p
    BY <1>1, <2>3 DEF Places
  <2>5. row.logit[k] >= row.logit[p]
    BY <1>1, <2>4 DEF Leading
  <2>6. row.logit[p] <= row.logit[k]
    BY <1>2, <2>5
  <2>7. Exp[row.logit[p]] <= Exp[row.logit[k]]
    BY <1>3, <2>6, ExpIs
  <2> QED BY <1>3, <2>2, <2>7
<1>8. ASSUME NEW v \in B PROVE W[v] >= c
  <2>1. PICK p \in 1 .. k : row.id[p] = v
    BY DEF FirstIds
  <2>2. row.logit[p] >= row.logit[k] /\ p \in Places
    BY <1>1, <2>1 DEF Leading
  <2>3. row.logit[k] <= row.logit[p]
    BY <1>2, <2>2
  <2>4. Exp[row.logit[k]] <= Exp[row.logit[p]]
    BY <1>3, <2>2, <2>3, ExpIs
  <2>5. W[v] = Exp[row.logit[p]] /\ c = Exp[row.logit[k]]
    BY <1>3, <2>1, <2>2
  <2>6. W[v] \in Nat
    BY <1>2, <1>3, <2>1, <2>2
  <2> QED BY <1>6, <2>4, <2>5, <2>6
<1> HIDE DEF c, T
<1>9. IsFiniteSet(S)
  <2>1. IsFiniteSet(Places)
    BY <1>1, FS_Interval DEF Places
  <2> QED BY <1>4, <2>1, FS_Subset
<1>10. /\ IsFiniteSet(A) /\ Cardinality(A) = Cardinality(S) - Cardinality(S \cap T)
       /\ IsFiniteSet(B) /\ Cardinality(B) = Cardinality(T) - Cardinality(T \cap S)
  BY <1>5, <1>9, FS_Difference
<1>11. Cardinality(A) = Cardinality(B) /\ Cardinality(A) \in Nat
  <2>1. S \cap T = T \cap S
    OBVIOUS
  <2>2. Cardinality(A) \in Nat
    BY <1>10, FS_CardinalityType
  <2> QED BY <1>4, <1>5, <1>10, <2>1, <2>2
<1>12. A \in SUBSET (1 .. Len(W)) /\ B \in SUBSET (1 .. Len(W))
  BY <1>3, <1>4, <1>5 DEF Places
<1>13. C \cap A = {} /\ C \cup A = S /\ C \cap B = {} /\ C \cup B = T
  OBVIOUS
<1> HIDE DEF A, B, C
<1>14. Mass(W, A) <= c * Cardinality(A)
  BY <1>3, <1>6, <1>7, <1>12, MassBounds
<1>15. Mass(W, B) >= c * Cardinality(B)
  BY <1>3, <1>6, <1>8, <1>12, MassBounds
<1>16. Mass(W, S) = Mass(W, C) + Mass(W, A)
  BY <1>3, <1>13, MassOfBoth
<1>17. Mass(W, T) = Mass(W, C) + Mass(W, B)
  BY <1>3, <1>13, MassOfBoth
<1>18. Mass(W, A) \in Nat /\ Mass(W, B) \in Nat /\ Mass(W, C) \in Nat
  BY <1>3, MassType
<1>19. Mass(W, S) <= Mass(W, T)
  <2> DEFINE x == c * Cardinality(A)
  <2>1. Mass(W, A) <= x /\ Mass(W, B) >= x /\ x \in Int
    BY <1>6, <1>11, <1>14, <1>15
  <2> HIDE DEF x
  <2> QED BY <1>16, <1>17, <1>18, <2>1
<1> QED BY <1>19 DEF W, T

(* The mass that top_p is told of.                                          *)
LEMMA TopMassIs ==
  ASSUME NEW logits, Scaled(logits), NEW row \in Arrays, Own(logits, row),
         NEW k \in Places, Leading(row, k)
  PROVE  TopMass(WeightsOf(logits), k) = Mass(WeightsOf(logits), FirstIds(row, k))
<1> DEFINE W == WeightsOf(logits)
           T == FirstIds(row, k)
           masses == {Mass(W, S) : S \in kSubset(k, DOMAIN W)}
           M == Mass(W, T)
           c == CHOOSE m \in masses : \A n \in masses : n <= m
<1>1. DOMAIN W = Places
  BY DEF WeightsOf
<1>2. IsWeights(W)
  BY WeightsOfAre
<1>3. k \in 0 .. VocabSize
  BY PlacesAre DEF Places
<1>4. T \in SUBSET Places /\ Cardinality(T) = k
  BY <1>3, IdsAre, CountIds
<1>5. T \in kSubset(k, DOMAIN W)
  BY <1>1, <1>4 DEF kSubset
<1>6. \A S \in kSubset(k, DOMAIN W) : Mass(W, S) <= M
  BY <1>1, FirstWeighMost
<1>7. TopMass(W, k) = c
  BY Zenon DEF TopMass
<1> HIDE DEF W, T
<1>8. M \in masses
  BY <1>5
<1>9. \A n \in masses : n <= M
  BY <1>6
<1>10. \A n \in masses : n \in Nat
  BY <1>2, MassType
<1> HIDE DEF masses, M
<1>11. c \in masses /\ \A n \in masses : n <= c
  BY <1>8, <1>9
<1>12. c = M
  BY <1>8, <1>9, <1>10, <1>11
<1> QED BY <1>7, <1>12 DEF M, W, T

-----------------------------------------------------------------------------
(* The chain.                                                               *)

LEMMA Resized ==
  ASSUME NEW row \in Arrays, NEW n \in Nat
  PROVE  LET r == [row EXCEPT !.valid_size = n]
         IN  /\ r \in Arrays /\ r.valid_size = n /\ r.logit = row.logit /\ r.id = row.id
BY DEF Arrays

LEMMA RowIs ==
  ASSUME NEW logits \in [Places -> Nat]
  PROVE  /\ Row(logits) \in Arrays /\ Row(logits).valid_size = VocabSize
         /\ Row(logits).logit = logits /\ \A i \in Places : Row(logits).id[i] = i
         /\ Own(logits, Row(logits))
<1> DEFINE ids == [i \in 1 .. VocabSize |-> i]
<1>1. VocabSize \in Nat /\ Places = 1 .. VocabSize
  BY PlacesAre DEF Places
<1>2. ids \in [1 .. VocabSize -> 1 .. VocabSize] /\ \A i \in Places : ids[i] = i
  BY <1>1
<1> HIDE DEF ids
<1>3. Row(logits) = [logit |-> logits, id |-> ids, valid_size |-> VocabSize]
  BY DEF Row, ids
<1>4. Row(logits) \in Arrays
  BY <1>1, <1>2, <1>3 DEF Arrays
<1>5. Own(logits, Row(logits))
  BY <1>2, <1>3 DEF Own
<1> QED BY <1>2, <1>3, <1>4, <1>5

(* Logits are scaled by a factor that tells them apart.                     *)
LEMMA ScaledIs ==
  ASSUME NEW logits \in Rows, NEW inverse \in Inverses
  PROVE  LET scaled == [t \in DOMAIN logits |-> logits[t] * inverse]
         IN  /\ Scaled(scaled) /\ Temperature(Row(logits), inverse) = Row(scaled)
             /\ \A t, u \in Places : scaled[t] = scaled[u] => logits[t] = logits[u]
<1> DEFINE scaled == [t \in DOMAIN logits |-> logits[t] * inverse]
<1>1. /\ DOMAIN logits = Places /\ inverse \in Nat /\ inverse # 0
      /\ \A t \in Places : logits[t] \in Logits /\ logits[t] \in Nat
  BY ProcessorsAssumption DEF Rows, Places
<1>2. \A t \in Places : /\ logits[t] * inverse \in DOMAIN Exp
                        /\ logits[t] * inverse \in Nat
  BY <1>1, ProcessorsAssumption
<1>3. Scaled(scaled)
  BY <1>1, <1>2 DEF Scaled
<1>4. Temperature(Row(logits), inverse) = Row(scaled)
  <2>1. /\ Row(logits).logit = logits
        /\ Row(logits) = [logit |-> Row(logits).logit, id |-> Row(logits).id, valid_size |-> Row(logits).valid_size]
        /\ Row(scaled) = [logit |-> scaled, id |-> Row(logits).id, valid_size |-> Row(logits).valid_size]
    BY DEF Row
  <2>2. Temperature(Row(logits), inverse) = [Row(logits) EXCEPT !.logit = scaled]
    BY <2>1 DEF Temperature
  <2> HIDE DEF scaled
  <2> QED BY <2>1, <2>2
<1>5. ASSUME NEW t \in Places, NEW u \in Places, scaled[t] = scaled[u] PROVE logits[t] = logits[u]
  <2>1. logits[t] * inverse = logits[u] * inverse
    BY <1>1, <1>5
  <2> DEFINE x == logits[t]
             y == logits[u]
  <2>2. x \in Nat /\ y \in Nat
    BY <1>1
  <2> HIDE DEF x, y
  <2>3. ASSUME NEW a \in Nat, NEW b \in Nat, a < b PROVE a * inverse < b * inverse
    <3>1. b * inverse = a * inverse + (b - a) * inverse
      BY <1>1
    <3>2. b - a >= 1 /\ b - a \in Nat
      BY <2>3
    <3>3. (b - a) * inverse >= inverse
      <4> DEFINE d == b - a - 1
      <4>1. d \in Nat /\ b - a = d + 1
        BY <3>2
      <4> HIDE DEF d
      <4>2. (d + 1) * inverse = d * inverse + inverse /\ d * inverse \in Nat
        BY <1>1, <4>1
      <4> QED BY <1>1, <4>1, <4>2
    <3>4. a * inverse \in Nat /\ (b - a) * inverse \in Nat
      BY <1>1, <3>2
    <3> QED BY <1>1, <3>1, <3>3, <3>4
  <2>4. ~(x < y) /\ ~(y < x)
    <3>1. x * inverse = y * inverse /\ x * inverse \in Nat
      BY <1>1, <2>1, <2>2 DEF x, y
    <3> QED BY <2>2, <2>3, <3>1
  <2> QED BY <2>2, <2>4 DEF x, y
<1> QED BY <1>3, <1>4, <1>5

(* What is dropped is less than is left of top_p.                           *)
LEMMA NeededMass ==
  ASSUME NEW before \in Nat, NEW after \in Nat, NEW parts \in Nat, NEW top_p \in 0 .. parts
  PROVE  after * parts > (parts - top_p) * (before + after) <=> before * parts < top_p * (before + after)
<1> DEFINE whole == before + after
           a == before * parts
           b == after * parts
           c == top_p * whole
<1>1. whole \in Nat /\ top_p \in Nat
  OBVIOUS
<1>2. (parts - top_p) * whole = parts * whole - c
  BY <1>1
<1>3. parts * whole = a + b
  OBVIOUS
<1>4. a \in Nat /\ b \in Nat /\ c \in Nat
  BY <1>1
<1> HIDE DEF a, b, c, whole
<1>5. b > (parts - top_p) * whole <=> a < c
  BY <1>2, <1>3, <1>4
<1> QED BY <1>5 DEF a, b, c, whole

(* What the first k tokens in order are cut to.                             *)
LeftOver(scaled, row, k, n, top_p) ==
  /\ row \in Arrays /\ Own(scaled, row) /\ row.valid_size = k /\ Leading(row, k)
  /\ n \in 1 .. k
  /\ \A m \in 1 .. k :
       m <= n <=> \/ m = 1
                  \/ Mass(WeightsOf(scaled), FirstIds(row, m - 1)) * Parts
                       < top_p * TopMass(WeightsOf(scaled), k)

LEMMA NeededIsTopP ==
  ASSUME NEW scaled, Scaled(scaled), NEW row \in Arrays, Own(scaled, row), NEW k \in Places,
         row.valid_size = k, Leading(row, k), NEW m \in 1 .. k, NEW top_p \in 0 .. Parts
  PROVE  StillNeeded(Weights(row), m, top_p)
           <=> Mass(WeightsOf(scaled), FirstIds(row, m - 1)) * Parts < top_p * TopMass(WeightsOf(scaled), k)
<1> DEFINE w == Weights(row)
           W == WeightsOf(scaled)
           A == 1 .. m - 1
           B == m .. k
           C == 1 .. k
<1>1. /\ k \in Nat /\ m \in Nat /\ Parts \in Nat /\ row.valid_size \in 0 .. VocabSize
      /\ m - 1 \in 0 .. row.valid_size /\ k \in 0 .. row.valid_size /\ k \in 0 .. VocabSize
  BY PlacesAre, ProcessorsAssumption DEF Places
<1>2. IsWeights(w) /\ Len(w) = k /\ DOMAIN w = C
  BY <1>1, RowWeights
<1>3. Mass(w, A) = Mass(W, FirstIds(row, m - 1))
  BY <1>1, MassOfIds
<1>4. Mass(w, C) = Mass(W, FirstIds(row, k))
  BY <1>1, MassOfIds
<1>5. TopMass(W, k) = Mass(W, FirstIds(row, k))
  BY TopMassIs
<1>6. A \cap B = {} /\ A \cup B = C
  BY <1>1
<1>7. StillNeeded(w, m, top_p) <=> Mass(w, B) * Parts > (Parts - top_p) * Mass(w, C)
  <2>1. m .. Len(w) = B
    BY <1>2
  <2> HIDE DEF w, A, B, C
  <2> QED BY <1>2, <2>1 DEF StillNeeded, Total
<1> HIDE DEF w, W, A, B, C
<1>8. Mass(w, C) = Mass(w, A) + Mass(w, B) /\ Mass(w, A) \in Nat /\ Mass(w, B) \in Nat
  BY <1>2, <1>6, MassOfBoth, MassType
<1>9. Mass(w, B) * Parts > (Parts - top_p) * (Mass(w, A) + Mass(w, B))
        <=> Mass(w, A) * Parts < top_p * (Mass(w, A) + Mass(w, B))
  BY <1>1, <1>8, NeededMass
<1>10. StillNeeded(w, m, top_p) <=> Mass(w, A) * Parts < top_p * Mass(w, C)
  BY <1>7, <1>8, <1>9
<1>11. Mass(w, C) = TopMass(W, k)
  BY <1>4, <1>5
<1> QED BY <1>3, <1>10, <1>11 DEF w, W

(* quick_select leaves the k largest first.                                 *)
LEMMA TopKIs ==
  ASSUME NEW scaled, Scaled(scaled), NEW k \in Places
  PROVE  LET r == TopK(Row(scaled), k)
         IN  r \in Arrays /\ r.valid_size = k /\ Own(scaled, r) /\ Parted(r, 1, VocabSize, k)
<1> DEFINE row == Row(scaled)
           q == quick_select[<<row, 1, row.valid_size, k>>]
           r == TopK(row, k)
<1>1. /\ VocabSize \in Nat /\ k \in Nat /\ k # 0 /\ 1 \in Lefts /\ VocabSize \in Rights
  BY PlacesAre DEF Places, Lefts, Rights
<1>2. row \in Arrays /\ row.valid_size = VocabSize /\ Own(scaled, row)
  BY RowIs DEF Scaled
<1>3. SelectResult(scaled, row, q, 1, VocabSize, k)
  <2> HIDE DEF row
  <2> QED BY <1>1, <1>2, SelectSelects
<1>4. r = [q EXCEPT !.valid_size = k]
  BY <1>1 DEF TopK
<1> HIDE DEF row, q
<1>5. q \in Arrays /\ Own(scaled, q) /\ Parted(q, 1, VocabSize, k)
  BY <1>2, <1>3 DEF SelectResult, Moved
<1> HIDE DEF r
<1>6. r \in Arrays /\ r.valid_size = k /\ r.logit = q.logit /\ r.id = q.id
  BY <1>1, <1>4, <1>5, Resized
<1>7. Own(scaled, r)
  BY <1>5, <1>6 DEF Own
<1>8. Parted(r, 1, VocabSize, k)
  BY <1>5, <1>6 DEF Parted
<1> QED BY <1>6, <1>7, <1>8 DEF r, row

InOrder(r) == quick_sort[<<r, 1, r.valid_size>>]

(* quick_sort puts these in order, and leaves the rest.                     *)
LEMMA SortLeads ==
  ASSUME NEW scaled, NEW k \in Places,
         NEW r \in Arrays, r.valid_size = k, Own(scaled, r), Parted(r, 1, VocabSize, k)
  PROVE  LET s == InOrder(r)
         IN  s \in Arrays /\ s.valid_size = k /\ Own(scaled, s) /\ Leading(s, k)
<1> DEFINE s == InOrder(r)
<1>1. /\ VocabSize \in Nat /\ k \in Nat /\ 1 \in Lefts /\ k \in Rights /\ 1 .. k \subseteq Places
      /\ Places = 1 .. VocabSize /\ Places \subseteq Nat
  BY PlacesAre DEF Places, Lefts, Rights
<1>2. SortResult(scaled, r, s, 1, k)
  BY <1>1, SortSorts DEF InOrder
<1> HIDE DEF s
<1>3. Moved(scaled, r, s, 1, k) /\ Descending(s, 1, k)
  BY <1>2 DEF SortResult
<1>4. s \in Arrays /\ s.valid_size = k /\ Own(scaled, s)
  BY <1>3 DEF Moved
<1>5. ASSUME NEW i \in 1 .. k, NEW j \in Places, i <= j PROVE s.logit[i] >= s.logit[j]
  <2>1. i \in Places
    BY <1>1
  <2>2. CASE j <= k
    <3>1. j \in 1 .. k
      BY <1>1, <2>2
    <3> QED BY <1>3, <1>5, <3>1 DEF Descending
  <2>3. CASE ~(j <= k)
    <3>1. j \in Places \ (1 .. k) /\ j > k
      BY <1>1, <2>3
    <3>2. s.logit[j] = r.logit[j]
      BY <1>3, <3>1 DEF Moved
    <3>3. \E h \in Places : h \in 1 .. k /\ s.id[i] = r.id[h] /\ s.logit[i] = r.logit[h]
      <4>1. 1 \in Int /\ k \in Int
        BY <1>1
      <4> QED BY <1>3, <2>1, <4>1, FromWithin
    <3>4. PICK h \in Places : h \in 1 .. k /\ s.logit[i] = r.logit[h]
      BY <3>3
    <3>5. h <= k /\ h \in 1 .. VocabSize /\ j \in 1 .. VocabSize
      BY <1>1, <3>4
    <3>6. r.logit[h] >= r.logit[j]
      BY <3>1, <3>5 DEF Parted
    <3> QED BY <3>2, <3>4, <3>6
  <2> QED BY <2>2, <2>3
<1> QED BY <1>4, <1>5 DEF Leading, s

(* A number up to k is kept when those before it are: there is a last.      *)
LEMMA LastKept ==
  ASSUME NEW k \in Nat \ {0}, NEW Q, 1 \in Q, \A m \in 1 .. k, n \in 1 .. k : m <= n /\ n \in Q => m \in Q
  PROVE  \E n \in 1 .. k : n \in Q /\ \A m \in n + 1 .. k : m \notin Q
<1> DEFINE T == {k - n : n \in {m \in 1 .. k : m \in Q}}
<1>1. T \in SUBSET Nat
  OBVIOUS
<1>2. k - 1 \in T
  OBVIOUS
<1>3. PICK d \in T : \A e \in T : d <= e
  <2> HIDE DEF T
  <2> QED BY <1>1, <1>2, LeastNumber
<1>4. PICK n \in 1 .. k : n \in Q /\ d = k - n
  BY <1>3
<1>5. ASSUME NEW m \in n + 1 .. k PROVE m \notin Q
  <2>1. m \in 1 .. k /\ ~(d <= k - m)
    BY <1>4
  <2>2. m \in Q => k - m \in T
    BY <2>1
  <2> HIDE DEF T
  <2> QED BY <1>3, <2>1, <2>2
<1> QED BY <1>4, <1>5

LEMMA TopPIs ==
  ASSUME NEW scaled, Scaled(scaled), NEW k \in Places, NEW top_p \in 0 .. Parts,
         NEW r, NEW s \in Arrays, s = InOrder(r),
         s.valid_size = k, Own(scaled, s), Leading(s, k)
  PROVE  \E n : LeftOver(scaled, s, k, n, top_p) /\ TopP(r, top_p, 1) = [s EXCEPT !.valid_size = n]
<1> DEFINE w == Weights(s)
           Kept(n) == n > 1 => StillNeeded(w, n, top_p)
           Ends(n) == Kept(n) /\ \A m \in n + 1 .. k : ~Kept(m)
           last == CHOOSE x \in 1 .. k : Ends(x)
           before(m) == Mass(WeightsOf(scaled), FirstIds(s, m - 1))
           top == top_p * TopMass(WeightsOf(scaled), k)
           Q == {m \in 1 .. k : Kept(m)}
<1>1. k \in Nat \ {0} /\ VocabSize \in Nat /\ Parts \in Nat /\ 1 .. k \subseteq Places /\ top_p \in Nat
  BY PlacesAre, ProcessorsAssumption DEF Places
<1>2. TopP(r, top_p, 1) = [s EXCEPT !.valid_size = last]
  BY Zenon DEF TopP, InOrder
<1>3. \A m \in 1 .. k : Kept(m) <=> m = 1 \/ before(m) * Parts < top
  <2> SUFFICES ASSUME NEW m \in 1 .. k PROVE Kept(m) <=> m = 1 \/ before(m) * Parts < top
    OBVIOUS
  <2>1. StillNeeded(w, m, top_p) <=> before(m) * Parts < top
    BY NeededIsTopP
  <2> HIDE DEF w, before, top
  <2>2. m > 1 <=> m # 1
    BY <1>1
  <2> QED BY <2>1, <2>2
<1>4. \A m \in 1 .. k, l \in 1 .. k : m <= l => before(m) <= before(l) /\ before(m) \in Nat /\ before(l) \in Nat
  <2> SUFFICES ASSUME NEW m \in 1 .. k, NEW l \in 1 .. k, m <= l
               PROVE  before(m) <= before(l) /\ before(m) \in Nat /\ before(l) \in Nat
    OBVIOUS
  <2>1. FirstIds(s, m - 1) \subseteq FirstIds(s, l - 1)
    <3>1. 1 .. m - 1 \subseteq 1 .. l - 1
      BY <1>1
    <3> QED BY <3>1 DEF FirstIds
  <2>2. IsWeights(WeightsOf(scaled))
    BY WeightsOfAre
  <2> QED BY <2>1, <2>2, MassMore, MassType
<1>5. top \in Int
  <2>1. TopMass(WeightsOf(scaled), k) \in Nat
    BY TopMassIs, WeightsOfAre, MassType
  <2> QED BY <1>1, <2>1
<1> HIDE DEF w, before, top
<1>6. \A m \in 1 .. k, l \in 1 .. k : m <= l /\ l \in Q => m \in Q
  <2> SUFFICES ASSUME NEW m \in 1 .. k, NEW l \in 1 .. k, m <= l, l \in Q PROVE m = 1 \/ before(m) * Parts < top
    BY <1>3
  <2>1. l = 1 \/ before(l) * Parts < top
    BY <1>3
  <2>2. CASE l = 1
    BY <1>1, <2>2
  <2>3. CASE before(l) * Parts < top
    <3> DEFINE a == before(m)
               b == before(l)
    <3>1. a <= b /\ a \in Nat /\ b \in Nat
      BY <1>4
    <3> HIDE DEF a, b
    <3>2. a * Parts <= b * Parts /\ a * Parts \in Nat /\ b * Parts \in Nat
      <4>1. b * Parts = a * Parts + (b - a) * Parts
        BY <1>1, <3>1
      <4>2. (b - a) * Parts \in Nat /\ a * Parts \in Nat
        <5>1. b - a \in Nat
          BY <3>1
        <5> QED BY <1>1, <3>1, <5>1
      <4> QED BY <4>1, <4>2
    <3> QED BY <1>5, <2>3, <3>2 DEF a, b
  <2> QED BY <2>1, <2>2, <2>3
<1>7. 1 \in Q
  BY <1>1
<1> HIDE DEF Q
<1>8. \E x \in 1 .. k : x \in Q /\ \A m \in x + 1 .. k : m \notin Q
  BY <1>1, <1>6, <1>7, LastKept
<1>9. \E x \in 1 .. k : Ends(x)
  <2>1. PICK x \in 1 .. k : x \in Q /\ \A m \in x + 1 .. k : m \notin Q
    BY <1>8
  <2>2. \A m \in x + 1 .. k : m \in 1 .. k
    BY <1>1
  <2> HIDE DEF Kept
  <2>3. Ends(x)
    BY <2>1, <2>2 DEF Q
  <2> QED BY <2>3
<1>10. last \in 1 .. k /\ Ends(last)
  <2> HIDE DEF Ends
  <2> QED BY <1>9
<1> HIDE DEF last
<1>11. ASSUME NEW m \in 1 .. k PROVE m <= last <=> (m = 1 \/ before(m) * Parts < top)
  <2>1. Kept(m) <=> m = 1 \/ before(m) * Parts < top
    BY <1>3
  <2>2. m <= last => Kept(m)
    <3>1. last \in Q
      <4> HIDE DEF Kept
      <4> QED BY <1>10 DEF Q
    <3>2. m <= last => m \in Q
      BY <1>6, <1>10, <3>1
    <3> HIDE DEF Kept
    <3> QED BY <3>2 DEF Q
  <2>3. ~(m <= last) => ~Kept(m)
    <3>1. ~(m <= last) => m \in last + 1 .. k
      BY <1>1, <1>10
    <3> HIDE DEF Kept
    <3> QED BY <1>10, <3>1
  <2> HIDE DEF Kept
  <2> QED BY <2>1, <2>2, <2>3
<1>12. LeftOver(scaled, s, k, last, top_p)
  BY <1>10, <1>11 DEF LeftOver, before, top
<1> QED BY <1>2, <1>12

CutTo(row, n) == [row EXCEPT !.valid_size = n]

(* What is left to sample from.                                             *)
IsLeft(scaled, k, top_p, left) ==
  \E row, n : LeftOver(scaled, row, k, n, top_p) /\ left = CutTo(row, n)

LEMMA LeftIs ==
  ASSUME NEW logits \in Rows, NEW inverse \in Inverses, NEW k \in 0 .. VocabSize + 1, NEW top_p \in 0 .. Parts,
         Applies(Row(logits), k)
  PROVE  LET scaled == [t \in DOMAIN logits |-> logits[t] * inverse]
         IN  k \in Places /\ IsLeft(scaled, k, top_p, LeftToSample(logits, inverse, k, top_p))
<1> DEFINE scaled == [t \in DOMAIN logits |-> logits[t] * inverse]
           r == TopK(Row(scaled), k)
           s == InOrder(r)
<1>1. Scaled(scaled) /\ Temperature(Row(logits), inverse) = Row(scaled)
  BY ScaledIs
<1>2. VocabSize \in Nat /\ k \in Nat /\ logits \in [Places -> Nat]
  <2>1. Logits \subseteq Nat
    BY ProcessorsAssumption
  <2>2. VocabSize \in Nat
    BY PlacesAre
  <2>3. k \in Nat
    BY <2>2
  <2>4. logits \in [Places -> Logits]
    BY DEF Rows, Places
  <2>5. logits \in [Places -> Nat]
    BY <2>1, <2>4
  <2> QED BY <2>2, <2>3, <2>5
<1>3. k <= VocabSize
  <2>1. Row(logits).valid_size = VocabSize
    BY <1>2, RowIs
  <2>2. VocabSize >= k
    BY <2>1 DEF Applies, TopKApplies
  <2> QED BY <1>2, <2>2
<1>4. k # 0
  <2> SUFFICES ASSUME k = 0 PROVE FALSE
    OBVIOUS
  <2>1. Row(logits) \in Arrays
    BY <1>2, RowIs
  <2> DEFINE a == Row(logits)
             b == [a EXCEPT !.valid_size = k]
  <2>2. TopK(a, k) = b
    BY DEF TopK
  <2>3. b.valid_size = k
    <3> HIDE DEF a
    <3> QED BY <1>2, <2>1, Resized
  <2>4. TopK(Row(logits), k).valid_size >= 1
    BY DEF Applies, TopPApplies, MinTokensToKeep
  <2> HIDE DEF a, b
  <2> QED BY <2>2, <2>3, <2>4 DEF a
<1>5. k \in Places
  BY <1>2, <1>3, <1>4 DEF Places
<1> HIDE DEF scaled
<1>6. r \in Arrays /\ r.valid_size = k /\ Own(scaled, r) /\ Parted(r, 1, VocabSize, k)
  BY <1>1, <1>5, TopKIs
<1>7. LeftToSample(logits, inverse, k, top_p) = TopP(r, top_p, 1)
  BY <1>1 DEF LeftToSample, MinTokensToKeep
<1> HIDE DEF r
<1>8. s \in Arrays /\ s.valid_size = k /\ Own(scaled, s) /\ Leading(s, k)
  BY <1>5, <1>6, SortLeads
<1>9. s = InOrder(r)
  OBVIOUS
<1> HIDE DEF s
<1>10. \E n : LeftOver(scaled, s, k, n, top_p) /\ TopP(r, top_p, 1) = [s EXCEPT !.valid_size = n]
  BY <1>1, <1>5, <1>8, <1>9, TopPIs
<1>11. IsLeft(scaled, k, top_p, TopP(r, top_p, 1))
  BY <1>10, Zenon DEF IsLeft, CutTo
<1> QED BY <1>5, <1>7, <1>11 DEF scaled

(* The place that a random number stands for: the first whose weights with  *)
(* those before it exceed the number, or the last.                          *)
Chosen(row, number, i) ==
  /\ number < Mass(Weights(row), 1 .. i) \/ i = row.valid_size
  /\ \A j \in 1 .. i - 1 : ~(number < Mass(Weights(row), 1 .. j))

LEMMA SampledIs ==
  ASSUME NEW row, row.valid_size \in Nat \ {0}, NEW number
  PROVE  /\ SampledId(row, number) \in 1 .. row.valid_size
         /\ Chosen(row, number, SampledId(row, number))
         /\ \A i \in 1 .. row.valid_size : Chosen(row, number, i) => SampledId(row, number) = i
<1> DEFINE k == row.valid_size
           Good(i) == Chosen(row, number, i)
           c == CHOOSE i \in 1 .. k : Good(i)
           T == {i \in 1 .. k : number < Mass(Weights(row), 1 .. i) \/ i = k}
<1>1. SampledId(row, number) = c
  BY Zenon DEF SampledId, Chosen
<1>2. T \in SUBSET Nat /\ k \in T
  OBVIOUS
<1>3. PICK i \in T : \A j \in T : i <= j
  <2> HIDE DEF T
  <2> QED BY <1>2, LeastNumber
<1>4. Good(i)
  <2>1. ASSUME NEW j \in 1 .. i - 1 PROVE ~(number < Mass(Weights(row), 1 .. j))
    <3>1. j \in 1 .. k /\ ~(i <= j)
      BY <1>3
    <3>2. j \notin T
      <4> HIDE DEF T
      <4> QED BY <1>3, <3>1
    <3> QED BY <3>1, <3>2
  <2> QED BY <1>3, <2>1 DEF Chosen
<1>5. i \in 1 .. k
  BY <1>3
<1>6. c \in 1 .. k /\ Good(c)
  <2> HIDE DEF Good, k
  <2> QED BY <1>4, <1>5
<1> HIDE DEF c
<1>7. ASSUME NEW a \in 1 .. k, NEW b \in 1 .. k, Good(a), Good(b) PROVE ~(a < b)
  <2> SUFFICES ASSUME a < b PROVE FALSE
    OBVIOUS
  <2>1. a \in 1 .. b - 1 /\ a # k
    BY <1>7
  <2> QED BY <1>7, <2>1 DEF Chosen
<1>8. \A a \in 1 .. k : Good(a) => c = a
  <2> SUFFICES ASSUME NEW a \in 1 .. k, Good(a) PROVE c = a
    OBVIOUS
  <2> HIDE DEF Good
  <2>1. ~(a < c) /\ ~(c < a)
    BY <1>6, <1>7
  <2> QED BY <1>6, <2>1
<1> QED BY <1>1, <1>6, <1>8

(* The token that is read after Multinomial.                                *)
LEMMA SampledToken ==
  ASSUME NEW row \in Arrays, row.valid_size \in Places, NEW number
  PROVE  Multinomial(row, number).id[1] = row.id[SampledId(row, number)]
<1> DEFINE i == SampledId(row, number)
           q == Swap(row, 1, i)
<1>1. /\ VocabSize \in Nat /\ row.valid_size \in Nat \ {0} /\ 1 .. row.valid_size \subseteq Places /\ 1 \in Places
  BY PlacesAre DEF Places
<1>2. i \in Places
  BY <1>1, SampledIs
<1>3. Multinomial(row, number) = [q EXCEPT !.valid_size = 1]
  BY DEF Multinomial
<1> HIDE DEF i
<1>4. q \in Arrays /\ q.id[1] = row.id[i]
  BY <1>1, <1>2, SwapIs
<1> HIDE DEF q
<1>5. Multinomial(row, number).id = q.id
  BY <1>3, <1>4, Resized
<1> QED BY <1>4, <1>5 DEF i

(* The first places of a row, when it is cut.                               *)
LEMMA CutRow ==
  ASSUME NEW scaled, NEW row, NEW k \in Places, NEW n, NEW top_p, LeftOver(scaled, row, k, n, top_p)
  PROVE  LET cut == CutTo(row, n)
         IN  /\ cut \in Arrays /\ cut.valid_size = n /\ n \in Places /\ cut.id = row.id
             /\ Own(scaled, cut) /\ \A j : FirstIds(cut, j) = FirstIds(row, j)
<1> DEFINE cut == CutTo(row, n)
<1>1. row \in Arrays /\ Own(scaled, row) /\ n \in 1 .. k
  BY DEF LeftOver
<1>2. n \in Nat /\ n \in Places
  BY <1>1, PlacesAre DEF Places
<1>3. cut \in Arrays /\ cut.valid_size = n /\ cut.logit = row.logit /\ cut.id = row.id
  BY <1>1, <1>2, Resized DEF CutTo
<1> HIDE DEF cut
<1>4. Own(scaled, cut)
  BY <1>1, <1>3 DEF Own
<1>5. \A j : FirstIds(cut, j) = FirstIds(row, j)
  BY <1>3 DEF FirstIds
<1> QED BY <1>2, <1>3, <1>4, <1>5 DEF cut

(* Each of these is in the nucleus.                                         *)
LEMMA LeftInNucleus ==
  ASSUME NEW scaled, Scaled(scaled), NEW row, NEW k \in Places, NEW n, NEW top_p \in 0 .. Parts,
         LeftOver(scaled, row, k, n, top_p), NEW i \in 1 .. n
  PROVE  row.id[i] \in Nucleus(scaled, k, top_p)
<1> DEFINE t == row.id[i]
           W == WeightsOf(scaled)
           top == top_p * TopMass(W, k)
<1>1. /\ row \in Arrays /\ Own(scaled, row) /\ Leading(row, k) /\ n \in 1 .. k
      /\ \A m \in 1 .. k : m <= n <=> m = 1 \/ Mass(W, FirstIds(row, m - 1)) * Parts < top
  BY DEF LeftOver
<1>2. /\ DOMAIN scaled = Places /\ VocabSize \in Nat /\ k \in Nat /\ n \in Nat /\ i \in Nat /\ i \in 1 .. k
      /\ i \in Places /\ Parts \in Nat /\ top_p \in Nat /\ Places \subseteq Nat
  BY <1>1, PlacesAre, ProcessorsAssumption DEF Scaled, Places
<1>3. PICK f \in 1 .. i : row.logit[f] = row.logit[i] /\ Above(scaled, t) = FirstIds(row, f - 1)
  BY <1>1, <1>2, AboveIs
<1>4. t \in DOMAIN scaled
  BY <1>1, <1>2, OwnIs
<1>5. f \in 1 .. k /\ f \in Nat /\ f <= n /\ f - 1 \in 0 .. VocabSize
  BY <1>1, <1>2, <1>3 DEF Places
<1>6. Cardinality(Above(scaled, t)) < k
  <2>1. Cardinality(FirstIds(row, f - 1)) = f - 1
    BY <1>1, <1>5, CountIds
  <2> QED BY <1>2, <1>3, <1>5, <2>1
<1>7. Above(scaled, t) = {} \/ Mass(W, Above(scaled, t)) * Parts < top
  <2>1. CASE f = 1
    <3>1. FirstIds(row, f - 1) = {}
      BY <2>1 DEF FirstIds
    <3> QED BY <1>3, <3>1
  <2>2. CASE f # 1
    <3> HIDE DEF top, W, t
    <3>1. Mass(W, FirstIds(row, f - 1)) * Parts < top
      BY <1>1, <1>5, <2>2
    <3> QED BY <1>3, <3>1
  <2> QED BY <2>1, <2>2
<1>8. [u \in DOMAIN scaled |-> Exp[scaled[u]]] = W
  BY <1>2 DEF WeightsOf
<1> HIDE DEF W, t
<1> QED BY <1>4, <1>6, <1>7, <1>8 DEF Nucleus, t

(* And each token of the nucleus is as likely as one of these, that some    *)
(* random number stands for.                                                *)
LEMMA NucleusLeft ==
  ASSUME NEW scaled, Scaled(scaled), NEW row, NEW k \in Places, NEW n, NEW top_p \in 0 .. Parts,
         LeftOver(scaled, row, k, n, top_p), NEW t \in Nucleus(scaled, k, top_p)
  PROVE  \E f \in 1 .. n : row.logit[f] = scaled[t]
<1> DEFINE W == WeightsOf(scaled)
           top == top_p * TopMass(W, k)
<1>1. /\ row \in Arrays /\ Own(scaled, row) /\ Leading(row, k) /\ n \in 1 .. k
      /\ \A m \in 1 .. k : m <= n <=> m = 1 \/ Mass(W, FirstIds(row, m - 1)) * Parts < top
  BY DEF LeftOver
<1>2. /\ DOMAIN scaled = Places /\ VocabSize \in Nat /\ k \in Nat /\ n \in Nat
      /\ Places \subseteq Nat /\ 1 .. k \subseteq Places
  BY <1>1, PlacesAre DEF Scaled, Places
<1>3. [u \in DOMAIN scaled |-> Exp[scaled[u]]] = W
  BY <1>2 DEF WeightsOf
<1> HIDE DEF W
<1>4. /\ t \in Places /\ Cardinality(Above(scaled, t)) < k
      /\ Above(scaled, t) = {} \/ Mass(W, Above(scaled, t)) * Parts < top
  BY <1>2, <1>3 DEF Nucleus
<1>5. PICK i \in 1 .. k : row.logit[i] = scaled[t]
  BY <1>1, <1>2, <1>4, AmongFirst
<1>6. PICK f \in 1 .. i : row.logit[f] = row.logit[i] /\ Above(scaled, row.id[i]) = FirstIds(row, f - 1)
  BY <1>1, <1>2, AboveIs
<1>7. f \in 1 .. k /\ f \in Nat /\ i \in Places
  BY <1>2, <1>5, <1>6
<1>8. Above(scaled, t) = FirstIds(row, f - 1)
  <2>1. scaled[row.id[i]] = scaled[t]
    BY <1>1, <1>5, <1>7, OwnIs
  <2>2. Above(scaled, row.id[i]) = Above(scaled, t)
    BY <2>1, AboveSame
  <2> QED BY <1>6, <2>2
<1>9. f = 1 \/ Mass(W, FirstIds(row, f - 1)) * Parts < top
  <2>1. CASE FirstIds(row, f - 1) = {}
    <3>1. ~(1 \in 1 .. f - 1)
      BY <2>1 DEF FirstIds
    <3> QED BY <1>7, <3>1
  <2>2. CASE FirstIds(row, f - 1) # {}
    <3> HIDE DEF top
    <3> QED BY <1>4, <1>8, <2>2
  <2> QED BY <2>1, <2>2
<1>10. f <= n
  <2> HIDE DEF top
  <2> QED BY <1>1, <1>7, <1>9
<1>11. f \in 1 .. n
  BY <1>2, <1>7, <1>10
<1> QED BY <1>5, <1>6, <1>11

(* Some random number stands for a place that is left.                      *)
LEMMA NumberFor ==
  ASSUME NEW scaled, Scaled(scaled), NEW cut \in Arrays, Own(scaled, cut), cut.valid_size \in Places,
         NEW f \in 1 .. cut.valid_size
  PROVE  \E number \in RandomNumbers(cut) : SampledId(cut, number) = f
<1> DEFINE w == Weights(cut)
           n == cut.valid_size
           number == Mass(w, 1 .. f - 1)
<1>1. VocabSize \in Nat /\ n \in Nat \ {0} /\ f \in Nat /\ f \in 1 .. n /\ cut.valid_size \in 0 .. VocabSize
  BY PlacesAre DEF Places
<1>2. IsWeights(w) /\ Len(w) = n /\ DOMAIN w = 1 .. n /\ w[f] \in Nat \ {0}
  BY <1>1, RowWeights
<1> HIDE DEF w, n
<1>3. number \in RandomNumbers(cut)
  <2>1. 1 .. f - 1 \subseteq DOMAIN w
    BY <1>1, <1>2
  <2>2. number <= Mass(w, DOMAIN w) /\ number \in Nat /\ Mass(w, DOMAIN w) \in Nat
    BY <1>2, <2>1, MassMore, MassType
  <2> HIDE DEF number
  <2> QED BY <2>2 DEF RandomNumbers, Total, w
<1>4. Mass(w, 1 .. f) = number + w[f] /\ number \in Nat
  <2> DEFINE T == 1 .. f - 1
  <2>1. 1 .. f = T \cup {f} /\ f \notin T /\ f \in 1 .. Len(w)
    BY <1>1, <1>2
  <2> HIDE DEF T
  <2>2. Mass(w, T \cup {f}) = Mass(w, T) + w[f] /\ Mass(w, T) \in Nat
    BY <1>2, <2>1, MassWith, MassType
  <2> QED BY <2>1, <2>2 DEF T
<1>5. \A j \in 1 .. f - 1 : ~(number < Mass(w, 1 .. j))
  <2> SUFFICES ASSUME NEW j \in 1 .. f - 1 PROVE ~(number < Mass(w, 1 .. j))
    OBVIOUS
  <2>1. 1 .. j \subseteq 1 .. f - 1
    BY <1>1
  <2>2. Mass(w, 1 .. j) <= number /\ Mass(w, 1 .. j) \in Nat
    BY <1>2, <2>1, MassMore, MassType
  <2> HIDE DEF number
  <2> QED BY <1>4, <2>2
<1>6. Chosen(cut, number, f)
  <2> HIDE DEF number
  <2>1. number < Mass(w, 1 .. f)
    BY <1>2, <1>4
  <2> QED BY <1>5, <2>1 DEF Chosen, w
<1>7. SampledId(cut, number) = f
  <2> HIDE DEF number
  <2> QED BY <1>1, <1>6, SampledIs DEF n
<1> HIDE DEF number
<1> QED BY <1>3, <1>7

(* MaxId is the first of the places of the largest logit.                   *)
LEMMA MaxIdIs ==
  ASSUME NEW row, row.valid_size = VocabSize, \A i \in Places : row.logit[i] \in Nat
  PROVE  MaxId(row) \in Places /\ \A j \in Places : row.logit[MaxId(row)] >= row.logit[j]
<1> DEFINE Beats(i, j) == row.logit[i] > row.logit[j] \/ (row.logit[i] = row.logit[j] /\ i <= j)
           Good(d) == \E i \in 1 .. d : \A j \in 1 .. d : Beats(i, j)
           S == {d \in 0 .. VocabSize : d = 0 \/ Good(d)}
           c == CHOOSE i \in 1 .. row.valid_size : \A j \in 1 .. row.valid_size : Beats(i, j)
<1>1. VocabSize \in Nat \ {0} /\ Places = 1 .. VocabSize
  BY PlacesAre DEF Places
<1>2. MaxId(row) = c
  BY Zenon DEF MaxId
<1>3. ASSUME NEW d \in 1 .. VocabSize, d - 1 \in S PROVE d \in S
  <2>1. /\ d \in Places /\ d \in Nat /\ 1 .. d \subseteq Places /\ Places \subseteq Nat
        /\ \A j \in 1 .. d : j # d => j \in 1 .. d - 1
    BY <1>1
  <2>2. d - 1 = 0 \/ Good(d - 1)
    <3> HIDE DEF Good
    <3> QED BY <1>3
  <2>3. CASE d = 1
    <3>1. \A j \in 1 .. d : Beats(1, j)
      BY <2>3
    <3>2. Good(d)
      BY <2>1, <2>3, <3>1
    <3> HIDE DEF Good
    <3> QED BY <1>1, <3>2
  <2>4. CASE d # 1
    <3>0. Good(d - 1)
      <4> HIDE DEF Good
      <4> QED BY <2>1, <2>2, <2>4
    <3>1. PICK i \in 1 .. d - 1 : \A j \in 1 .. d - 1 : Beats(i, j)
      BY <3>0
    <3>2. /\ i \in 1 .. d /\ i <= d /\ i \in Places /\ i \in Nat
          /\ row.logit[i] \in Nat /\ row.logit[d] \in Nat
      BY <2>1
    <3>3. CASE row.logit[i] >= row.logit[d]
      <4>1. Beats(i, d)
        BY <3>2, <3>3
      <4>2. \A j \in 1 .. d : Beats(i, j)
        <5> HIDE DEF Beats
        <5> QED BY <2>1, <3>1, <4>1
      <4>3. Good(d)
        <5> HIDE DEF Beats
        <5> QED BY <3>2, <4>2
      <4> HIDE DEF Good
      <4> QED BY <1>1, <4>3
    <3>4. CASE ~(row.logit[i] >= row.logit[d])
      <4>1. ASSUME NEW j \in 1 .. d PROVE Beats(d, j)
        <5>1. CASE j = d
          BY <2>1, <5>1
        <5>2. CASE j # d
          <6>1. Beats(i, j) /\ row.logit[j] \in Nat
            BY <2>1, <3>1, <5>2
          <6> QED BY <3>2, <3>4, <6>1
        <5> QED BY <5>1, <5>2
      <4>2. d \in 1 .. d
        BY <2>1
      <4>3. Good(d)
        <5> HIDE DEF Beats
        <5> QED BY <4>1, <4>2
      <4> HIDE DEF Good
      <4> QED BY <1>1, <4>3
    <3> QED BY <3>3, <3>4
  <2> QED BY <2>3, <2>4
<1>4. 0 \in S
  <2> HIDE DEF Good
  <2> QED BY <1>1
<1>5. VocabSize \in S
  <2> HIDE DEF S
  <2>1. \A d \in 0 .. VocabSize : d \in S
    BY <1>1, <1>3, <1>4, ByNumbers
  <2> QED BY <1>1, <2>1
<1>6. Good(VocabSize)
  <2> HIDE DEF Good
  <2> QED BY <1>1, <1>5
<1>7. c \in Places /\ \A j \in Places : Beats(c, j)
  <2> HIDE DEF Beats
  <2> QED BY <1>1, <1>6
<1> HIDE DEF c
<1>8. ASSUME NEW j \in Places PROVE row.logit[c] >= row.logit[j]
  <2>1. row.logit[c] \in Nat /\ row.logit[j] \in Nat
    BY <1>7
  <2> QED BY <1>7, <2>1
<1> QED BY <1>2, <1>7, <1>8

LEMMA GreedyIs ==
  ASSUME NEW logits \in [Places -> Nat]
  PROVE  Above(logits, Greedy(logits)) = {}
<1> DEFINE row == Row(logits)
           i == MaxId(row)
           q == Swap(row, 1, i)
<1>1. /\ row \in Arrays /\ row.valid_size = VocabSize /\ row.logit = logits /\ \A p \in Places : row.id[p] = p
      /\ 1 \in Places /\ 1 \in Nat
  BY RowIs, PlacesAre DEF Places
<1> HIDE DEF row
<1>2. i \in Places /\ \A j \in Places : logits[i] >= logits[j]
  BY <1>1, MaxIdIs
<1>3. Greedy(logits) = [q EXCEPT !.valid_size = 1].id[1]
  BY Zenon DEF Greedy, Argmax, row
<1> HIDE DEF i
<1>4. q \in Arrays /\ q.id[1] = i
  BY <1>1, <1>2, SwapIs
<1> HIDE DEF q
<1>5. Greedy(logits) = i
  BY <1>1, <1>3, <1>4, Resized
<1>6. ASSUME NEW u \in Places PROVE ~(logits[u] > logits[i])
  BY <1>2
<1> QED BY <1>5, <1>6 DEF Above

(* What the chain samples is in the nucleus, and so is what is as likely.   *)
LEMMA ChainSamples ==
  ASSUME NEW logits \in Rows, NEW inverse \in Inverses, NEW k \in 0 .. VocabSize + 1, NEW top_p \in 0 .. Parts,
         Applies(Row(logits), k)
  PROVE  LET scaled == [t \in DOMAIN logits |-> logits[t] * inverse]
             nucleus == Nucleus(scaled, k, top_p)
             sampled == Sampled(logits, inverse, k, top_p)
         IN  /\ sampled \subseteq nucleus
             /\ \A t \in nucleus : \E u \in sampled : logits[u] = logits[t]
<1> DEFINE scaled == [t \in DOMAIN logits |-> logits[t] * inverse]
           nucleus == Nucleus(scaled, k, top_p)
           sampled == Sampled(logits, inverse, k, top_p)
           left == LeftToSample(logits, inverse, k, top_p)
<1>1. Scaled(scaled) /\ \A t, u \in Places : scaled[t] = scaled[u] => logits[t] = logits[u]
  BY ScaledIs
<1>2. k \in Places /\ IsLeft(scaled, k, top_p, left)
  BY LeftIs
<1>3. sampled = {Multinomial(left, number).id[1] : number \in RandomNumbers(left)}
  BY DEF Sampled
<1> HIDE DEF scaled, left
<1>4. PICK row, n : LeftOver(scaled, row, k, n, top_p) /\ left = CutTo(row, n)
  BY <1>2 DEF IsLeft
<1>5. /\ left \in Arrays /\ left.valid_size = n /\ n \in Places /\ left.id = row.id
      /\ Own(scaled, left)
  <2> DEFINE cut == CutTo(row, n)
  <2>1. /\ cut \in Arrays /\ cut.valid_size = n /\ n \in Places /\ cut.id = row.id
        /\ Own(scaled, cut) /\ \A j : FirstIds(cut, j) = FirstIds(row, j)
    BY <1>2, <1>4, CutRow
  <2> HIDE DEF cut
  <2>2. left = cut
    BY <1>4 DEF cut
  <2> QED BY <2>1, <2>2
<1>6. row \in Arrays /\ Own(scaled, row) /\ n \in Nat \ {0} /\ 1 .. n \subseteq Places
  BY <1>4, <1>5, PlacesAre DEF LeftOver, Places
<1>7. \A number : /\ SampledId(left, number) \in 1 .. n
                  /\ Multinomial(left, number).id[1] = row.id[SampledId(left, number)]
  BY <1>5, <1>6, SampledIs, SampledToken
<1> DEFINE token(number) == Multinomial(left, number).id[1]
<1>8. sampled \subseteq nucleus
  <2> SUFFICES ASSUME NEW number \in RandomNumbers(left) PROVE token(number) \in nucleus
    BY <1>3
  <2>1. PICK f \in 1 .. n : token(number) = row.id[f]
    BY <1>7
  <2>2. row.id[f] \in nucleus
    BY <1>1, <1>2, <1>4, LeftInNucleus
  <2> HIDE DEF nucleus
  <2> QED BY <2>1, <2>2
<1>9. ASSUME NEW t \in nucleus PROVE \E u \in sampled : logits[u] = logits[t]
  <2>1. PICK f \in 1 .. n : row.logit[f] = scaled[t]
    <3>1. t \in Nucleus(scaled, k, top_p) /\ top_p \in 0 .. Parts
      BY <1>9
    <3>2. Scaled(scaled) /\ LeftOver(scaled, row, k, n, top_p) /\ k \in Places
      BY <1>1, <1>2, <1>4
    <3>3. \E f \in 1 .. n : row.logit[f] = scaled[t]
      BY <3>1, <3>2, NucleusLeft
    <3> QED BY <3>3
  <2>2. PICK number \in RandomNumbers(left) : SampledId(left, number) = f
    BY <1>1, <1>5, NumberFor
  <2>3. row.id[f] \in sampled
    BY <1>3, <1>7, <2>2
  <2>4. row.id[f] \in Places /\ scaled[row.id[f]] = scaled[t]
    BY <1>6, <2>1, OwnIs
  <2>5. t \in Places
    <3>1. t \in DOMAIN scaled
      BY DEF Nucleus
    <3> QED BY <1>1, <3>1 DEF Scaled
  <2> QED BY <1>1, <2>3, <2>4, <2>5
<1> QED BY <1>8, <1>9 DEF scaled

(* Whatever the logits, the chain of processors picks a token of the        *)
(* nucleus, and may pick any of it, but for one as likely in its place; and *)
(* Argmax a most likely one.                                                *)
THEOREM ChainCorrect == ChainPicksNucleus
<1> SUFFICES ASSUME NEW logits \in Rows
             PROVE  /\ Above(logits, Greedy(logits)) = {}
                    /\ \A inverse \in Inverses, top_k \in 0 .. VocabSize + 1, top_p \in 0 .. Parts :
                         Applies(Row(logits), top_k) =>
                           LET scaled == [t \in DOMAIN logits |-> logits[t] * inverse]
                               nucleus == Nucleus(scaled, top_k, top_p)
                               sampled == Sampled(logits, inverse, top_k, top_p)
                           IN  /\ sampled \subseteq nucleus
                               /\ \A t \in nucleus : \E u \in sampled : logits[u] = logits[t]
  BY DEF ChainPicksNucleus
<1>1. logits \in [Places -> Nat]
  <2>1. Logits \subseteq Nat
    BY ProcessorsAssumption
  <2> QED BY <2>1 DEF Rows, Places
<1>2. Above(logits, Greedy(logits)) = {}
  BY <1>1, GreedyIs
<1> QED BY <1>2, ChainSamples

(* Whenever the pipeline samples, it picks a token of the nucleus.          *)
THEOREM PicksCorrect == PSpec => []PicksNucleus
<1>1. PInv => PicksNucleus
  BY ChainCorrect DEF PicksNucleus
<1> QED
  BY <1>1, PipelineKeeps, PTL
=============================================================================
