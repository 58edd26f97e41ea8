---------------------------- MODULE PagedRuntime ----------------------------
(***************************************************************************)
(* How CudaRuntime (tiny_llm/runtime/cuda/cuda_runtime.cpp) gives KV-cache  *)
(* pages to requests: bind_request_meta and destroy_request_meta, with one  *)
(* PagePool for each paged attention layer.                                 *)
(*                                                                         *)
(* bind_request_meta is a loop over the requests it is given, and inside it *)
(* a loop over the layers; either can throw half way.  The model takes the  *)
(* iterations one at a time.  The layers are in an unordered_map, so a      *)
(* request's layers are taken in any order.                                 *)
(*                                                                         *)
(* RequestMeta is three variables.  A key that kv_pages lacks is an empty   *)
(* vector here: a stored vector is never empty, because seq_len >= 1.       *)
(***************************************************************************)
EXTENDS FreeList, FiniteSets

CONSTANTS
  Requests,       \* the RequestMeta objects of the clients
  Layers,         \* the names of the paged attention tasks
  MaxLen,         \* for each layer, param.max_len of its kernel
  PageSize,       \* kPageSize
  MaxRequestNum,  \* RuntimeConfig::max_request_num
  SeqLens         \* the lengths of prompts clients use

ASSUME RuntimeAssumption ==
  /\ PageSize \in Nat \ {0}
  /\ MaxRequestNum \in Nat \ {0}
  /\ MaxLen \in [Layers -> Nat \ {0}]
  /\ SeqLens \subseteq Nat \ {0}
  /\ 1 \in SeqLens

VARIABLES
  is_prefill_,  \* CudaRuntime::is_prefill_
  free_list_,   \* for each layer, the free list of its pool
  seq_len,      \* RequestMeta::seq_len, which the client sets
  kv_len,       \* RequestMeta::kv_len
  kv_pages,     \* RequestMeta::kv_pages, layer first
  op,           \* "idle", "bind" (in bind_request_meta) or "bound" (returned)
  batch,        \* the request_metas of the call
  cur,          \* how many requests of the batch have been entered
  todo,         \* the layers still to visit for the last one entered
  broken        \* requests of a call that threw; clients only destroy these

callVars == <<op, batch, cur, todo>>
vars == <<is_prefill_, free_list_, seq_len, kv_len, kv_pages, callVars, broken>>

(* ceil(n / kPageSize) *)
PagesFor(n) == (n + PageSize - 1) \div PageSize

(* (fault) the division is not rounded up.                                  *)
PoolPages_RoundsDown(l) == MaxRequestNum * (MaxLen[l] \div PageSize)

(* num_pages of a layer's pool: max_len tokens for max_request_num requests *)
PoolPages(l) == MaxRequestNum * PagesFor(MaxLen[l])
Pages(l) == 0 .. PoolPages(l) - 1

(* The vectors clients may pass: distinct requests, no more than            *)
(* max_request_num (a longer vector is refused before anything changes),    *)
(* none left over from a call that threw.                                   *)
Batches ==
  {b \in UNION {[1 .. n -> Requests \ broken] : n \in 1 .. MaxRequestNum} : IsInjective(b)}

-----------------------------------------------------------------------------
Init ==
  /\ is_prefill_ = TRUE
  /\ free_list_ = [l \in Layers |-> InitialFreeList(PoolPages(l))]
  /\ seq_len = [r \in Requests |-> 0]
  /\ kv_len = [r \in Requests |-> 0]
  /\ kv_pages = [l \in Layers |-> [r \in Requests |-> <<>>]]
  /\ op = "idle" /\ batch = <<>> /\ cur = 0 /\ todo = {}
  /\ broken = {}

(* set_prefill                                                              *)
SetPrefill ==
  /\ op = "idle"
  /\ is_prefill_' = ~is_prefill_
  /\ UNCHANGED <<free_list_, seq_len, kv_len, kv_pages, callVars, broken>>

(* A client fills in seq_len and calls bind_request_meta.                   *)
Bind(b, lens) ==
  /\ op = "idle"
  /\ seq_len' = [r \in Requests |-> IF r \in Range(b) THEN lens[r] ELSE seq_len[r]]
  /\ op' = "bind" /\ batch' = b /\ cur' = 0 /\ todo' = {}
  /\ UNCHANGED <<is_prefill_, free_list_, kv_len, kv_pages, broken>>

(* The checks on a request before its layers are visited.                   *)
MetaOK(r) ==
  IF is_prefill_
    THEN kv_len[r] = 0 /\ \A l \in Layers : kv_pages[l][r] = <<>>
    ELSE seq_len[r] = 1 /\ \A l \in Layers : kv_pages[l][r] # <<>>

(* (fault) a decoded token is not counted.                                  *)
NewKvLen_NotCounted(r) == IF is_prefill_ THEN seq_len[r] ELSE kv_len[r]

NewKvLen(r) == IF is_prefill_ THEN seq_len[r] ELSE kv_len[r] + 1

EnterMeta ==
  /\ op = "bind" /\ todo = {} /\ cur < Len(batch)
  /\ LET r == batch[cur + 1]
     IN  /\ MetaOK(r)
         /\ kv_len' = [kv_len EXCEPT ![r] = NewKvLen(r)]
  /\ cur' = cur + 1
  /\ todo' = Layers
  /\ UNCHANGED <<is_prefill_, free_list_, seq_len, kv_pages, op, batch, broken>>

(* (fault) the table grows when the token would still fit in its last page. *)
PagesNeeded_GrowsEarly(l, r) ==
  IF is_prefill_ THEN PagesFor(kv_len[r])
  ELSE IF kv_len[r] >= Len(kv_pages[l][r]) * PageSize THEN 1 ELSE 0

(* The pages one layer asks its pool for: in prefill all that the prompt    *)
(* needs, in decode one more when the token does not fit in the last.       *)
PagesNeeded(l, r) ==
  IF is_prefill_ THEN PagesFor(kv_len[r])
  ELSE IF kv_len[r] > Len(kv_pages[l][r]) * PageSize THEN 1 ELSE 0

(* (fault) kv_len may be one more than max_len.                             *)
Fits_OffByOne(l, r) == kv_len[r] <= MaxLen[l] + 1

(* (fault) the last position of a layer is never used.                      *)
Fits_Strict(l, r) == kv_len[r] < MaxLen[l]

Fits(l, r) == kv_len[r] <= MaxLen[l]

VisitLayer(l) ==
  /\ op = "bind" /\ l \in todo
  /\ LET r == batch[cur]
         n == PagesNeeded(l, r)
     IN  /\ Fits(l, r)
         /\ CanAllocate(free_list_[l], n)
         /\ free_list_' = [free_list_ EXCEPT ![l] = AfterAllocate(free_list_[l], n)]
         /\ kv_pages' = [kv_pages EXCEPT ![l] =
              [kv_pages[l] EXCEPT ![r] = kv_pages[l][r] \o Popped(free_list_[l], n)]]
  /\ todo' = todo \ {l}
  /\ UNCHANGED <<is_prefill_, seq_len, kv_len, op, batch, cur, broken>>

(* The call throws: what it has done to the batch so far stays.             *)
Abort ==
  /\ op' = "idle" /\ batch' = <<>> /\ cur' = 0 /\ todo' = {}
  /\ broken' = broken \cup Range(batch)
  /\ UNCHANGED <<is_prefill_, free_list_, seq_len, kv_len, kv_pages>>

MetaThrows ==
  /\ op = "bind" /\ todo = {} /\ cur < Len(batch)
  /\ ~MetaOK(batch[cur + 1])
  /\ Abort

TooLongThrows(l) ==
  /\ op = "bind" /\ l \in todo
  /\ ~Fits(l, batch[cur])
  /\ Abort

ExhaustedThrows(l) ==
  /\ op = "bind" /\ l \in todo
  /\ Fits(l, batch[cur])
  /\ ~CanAllocate(free_list_[l], PagesNeeded(l, batch[cur]))
  /\ Abort

(* bind_request_meta returns: the kernels have the batch's tables.          *)
Publish ==
  /\ op = "bind" /\ todo = {} /\ cur = Len(batch)
  /\ op' = "bound"
  /\ UNCHANGED <<is_prefill_, free_list_, seq_len, kv_len, kv_pages, batch, cur, todo, broken>>

(* The client copies the inputs and calls execute, which may throw.         *)
Execute ==
  /\ op = "bound"
  /\ op' = "idle" /\ batch' = <<>> /\ cur' = 0
  /\ UNCHANGED <<is_prefill_, free_list_, seq_len, kv_len, kv_pages, todo, broken>>

ExecuteThrows == op = "bound" /\ Abort

(* (fault) the pages of one layer are dropped, not freed.                   *)
FreedLists_Forgets(r) ==
  [l \in Layers |-> IF l = CHOOSE m \in Layers : TRUE THEN free_list_[l]
                    ELSE AfterFree(free_list_[l], kv_pages[l][r])]

FreedLists(r) == [l \in Layers |-> AfterFree(free_list_[l], kv_pages[l][r])]

(* destroy_request_meta on one request; a vector of them is one after       *)
(* another.  A client may destroy any request between calls.                *)
Destroy(r) ==
  /\ op = "idle" /\ seq_len[r] # 0
  /\ \A l \in Layers : CanFree(free_list_[l], kv_pages[l][r])
  /\ free_list_' = FreedLists(r)
  /\ kv_pages' = [l \in Layers |-> [kv_pages[l] EXCEPT ![r] = <<>>]]
  /\ seq_len' = [seq_len EXCEPT ![r] = 0]
  /\ kv_len' = [kv_len EXCEPT ![r] = 0]
  /\ broken' = broken \ {r}
  /\ UNCHANGED <<is_prefill_, callVars>>

(* The steps of set_prefill and bind_request_meta, which touch no K or V.   *)
Bookkeeping ==
  \/ SetPrefill
  \/ \E b \in Batches : \E lens \in [Range(b) -> SeqLens] : Bind(b, lens)
  \/ EnterMeta
  \/ \E l \in Layers : VisitLayer(l) \/ TooLongThrows(l) \/ ExhaustedThrows(l)
  \/ MetaThrows
  \/ Publish

Next ==
  \/ Bookkeeping
  \/ Execute
  \/ ExecuteThrows
  \/ \E r \in Requests : Destroy(r)

Spec == Init /\ [][Next]_vars

-----------------------------------------------------------------------------
(* Type invariant, with what the control state says of the call.            *)
TypeOK ==
  /\ is_prefill_ \in BOOLEAN
  /\ DOMAIN free_list_ = Layers
  /\ \A l \in Layers : free_list_[l] \in Seq(Pages(l))
  /\ seq_len \in [Requests -> Nat]
  /\ kv_len \in [Requests -> Nat]
  /\ DOMAIN kv_pages = Layers
  /\ \A l \in Layers : kv_pages[l] \in [Requests -> Seq(Pages(l))]
  /\ op \in {"idle", "bind", "bound"}
  /\ batch \in Seq(Requests \ broken) /\ IsInjective(batch)
  /\ cur \in 0 .. Len(batch)
  /\ todo \subseteq Layers
  /\ todo # {} => op = "bind" /\ cur > 0
  /\ broken \subseteq Requests

(* In each layer every page is free or in the table of one request, once,   *)
(* whatever calls threw half way and whatever requests were destroyed then. *)
PagesPartitioned ==
  \A l \in Layers :
    /\ Unshared(free_list_[l], kv_pages[l])
    /\ Covered(Pages(l), free_list_[l], kv_pages[l])

(* The tables of a request that no call broke have, in every layer that has *)
(* been brought up to date, exactly the pages its kv_len needs: the index   *)
(* relative_row / kPageSize the device computes is always in the table.     *)
UpToDate(l, r) == ~(l \in todo /\ r = batch[cur])

TablesCover ==
  \A l \in Layers, r \in Requests \ broken :
    UpToDate(l, r) => Len(kv_pages[l][r]) = PagesFor(kv_len[r])

(* A request the kernels are given fits in every layer (the cos and sin     *)
(* tables have max_len rows), and its tables fit in the columns the block   *)
(* table was made with.                                                     *)
BoundFits ==
  op = "bound" =>
    \A i \in DOMAIN batch, l \in Layers :
      /\ kv_len[batch[i]] <= MaxLen[l]
      /\ Len(kv_pages[l][batch[i]]) <= PagesFor(MaxLen[l])

(* A pool has a page for every token of max_request_num requests of the     *)
(* greatest length, so it only runs out when more requests than that hold   *)
(* or want pages: within the limit the constructor was given, allocation in *)
(* bind_request_meta cannot fail.                                           *)
Holders(l) == {r \in Requests : kv_pages[l][r] # <<>> \/ (op = "bind" /\ r = batch[cur])}

NeverExhaustedWithinLimit ==
  \A l \in todo :
    Fits(l, batch[cur]) /\ Cardinality(Holders(l)) <= MaxRequestNum
      => CanAllocate(free_list_[l], PagesNeeded(l, batch[cur]))

(* Each layer's pool is used as PagePool allows: by allocations that append *)
(* to one table and by freeing a table as a whole.                          *)
Pool(l) == INSTANCE PagePool
  WITH NumPages <- PoolPages(l), Owners <- Requests,
       free_list_ <- free_list_[l], held <- kv_pages[l]

UsesPools ==
  /\ \A l \in Layers : Pool(l)!Init
  /\ [][\A l \in Layers : [Pool(l)!Next]_(Pool(l)!vars)]_vars
=============================================================================
