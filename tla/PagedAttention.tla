--------------------------- MODULE PagedAttention ---------------------------
(***************************************************************************)
(* The paged attention layers: the metadata bind_request_meta flattens for  *)
(* the device (cuda_runtime.cpp), the rows the projections write to the     *)
(* pages (ops/cuda/gemm.cu, rope.cu) and the rows attention reads back      *)
(* (ops/cuda/flash_attention.cu), on top of PagedRuntime's bookkeeping.     *)
(*                                                                         *)
(* A row stands for what one token contributes to a layer's K and V pools,  *)
(* which the kernels index alike: <<r, i>> is the i-th token fed to r.      *)
(* Heads, head dimensions and the arithmetic are left out.                  *)
(***************************************************************************)
EXTENDS PagedRuntime

VARIABLES
  mem,      \* for each layer, page and slot, the row stored there
  fed,      \* for each request, how many tokens have been executed
  attended  \* what attention read in this step (see KVCache)

avars == <<vars, mem, fed, attended>>

NoRow == <<>>  \* whatever an earlier request, or nobody, has left in a slot
Slots == 0 .. PageSize - 1

-----------------------------------------------------------------------------
(* runtime_meta_ for the batch.  Requests are numbered from 0, as on the    *)
(* device.  Nothing changes between bind_request_meta and execute, so these *)
(* are functions of the state at execute.                                   *)
num_requests == Len(batch)
Req(i) == batch[i + 1]
LastReq == num_requests - 1

(* The running total of seq_len.                                            *)
seq_separator ==
  LET sep[i \in 0 .. num_requests] == IF i = 0 THEN 0 ELSE sep[i - 1] + seq_len[Req(i - 1)]
  IN  sep

total_queries == seq_separator[num_requests]

(* (fault) a decoded token is written after the slot meant for it.          *)
cache_offset_PastEnd(i) == IF is_prefill_ THEN 0 ELSE kv_len[Req(i)]

cache_offset(i) == IF is_prefill_ THEN 0 ELSE kv_len[Req(i)] - 1

SetMax(S) == CHOOSE x \in S : \A y \in S : y <= x

max_blocks(l) == SetMax({Len(kv_pages[l][Req(i)]) : i \in 0 .. LastReq})

(* (fault) rows of the table are laid out without their stride.             *)
TableIndex_NoStride(l, i, block) == i + block

TableIndex(l, i, block) == i * max_blocks(l) + block

(* The table is copied row by row into uninitialised memory, so the entries *)
(* after the end of a short row are arbitrary: `junk`.                      *)
block_table(l, junk) ==
  [e \in 0 .. num_requests * max_blocks(l) - 1 |->
     LET i == e \div max_blocks(l)
         b == e % max_blocks(l)
         table == kv_pages[l][Req(i)]
     IN  IF b < Len(table) THEN table[b + 1] ELSE junk]

-----------------------------------------------------------------------------
(* The device.                                                              *)

(* (fault) the first query of a request is taken for the one before it.     *)
request_idx_Strict(q) ==
  SetMax({0} \cup {i \in 0 .. LastReq : seq_separator[i] < q})

(* get_request_idx; RequestSearch shows that its loop finds this index.     *)
request_idx(q) == SetMax({i \in 0 .. LastReq : seq_separator[i] <= q})

(* Where in the pool the row of query q goes.                               *)
relative_row(q) == q - seq_separator[request_idx(q)] + cache_offset(request_idx(q))

WriteSlot(l, junk, q) ==
  LET row == relative_row(q)
  IN  <<block_table(l, junk)[TableIndex(l, request_idx(q), row \div PageSize)],
        row % PageSize>>

Queries == 0 .. total_queries - 1

(* The client lays the tokens of the batch out one request after another.   *)
InputRow(q) ==
  LET i == CHOOSE j \in 0 .. LastReq : seq_separator[j] <= q /\ q < seq_separator[j + 1]
  IN  <<Req(i), fed[Req(i)] + q - seq_separator[i] + 1>>

(* gemm_row_major_lt_paged, then rope in place: every query's row is stored *)
AfterWrites(l, junk) ==
  [p \in Pages(l) |-> [s \in Slots |->
     IF \E q \in Queries : WriteSlot(l, junk, q) = <<p, s>>
       THEN InputRow(CHOOSE q \in Queries : WriteSlot(l, junk, q) = <<p, s>>)
       ELSE mem[l][p][s]]]

(* (fault) attention runs over the whole prompt, without the causal mask.   *)
KeysSeen_NoMask(i, k) == kv_len[Req(i)]

(* How many keys the k-th query of request i sees: all of them in decode,   *)
(* those up to itself in prefill.                                           *)
KeysSeen(i, k) ==
  IF is_prefill_ /\ k + 1 < kv_len[Req(i)] THEN k + 1 ELSE kv_len[Req(i)]

(* flash_attn_paged after the writes: the rows that query k of request i    *)
(* reads, page by page through the table.                                   *)
RowsRead(l, junk, i, k) ==
  LET written == AfterWrites(l, junk)
      table == block_table(l, junk)
  IN  [n \in 1 .. KeysSeen(i, k) |->
         written[table[TableIndex(l, i, (n - 1) \div PageSize)]][(n - 1) % PageSize]]

Attention(l, junk) ==
  UNION {{<<InputRow(seq_separator[i] + k), RowsRead(l, junk, i, k)>> :
            k \in 0 .. seq_len[Req(i)] - 1} : i \in 0 .. LastReq}

-----------------------------------------------------------------------------
Nothing == [l \in Layers |-> {}]

AInit ==
  /\ Init
  /\ mem = [l \in Layers |-> [p \in Pages(l) |-> [s \in Slots |-> NoRow]]]
  /\ fed = [r \in Requests |-> 0]
  /\ attended = Nothing

(* execute runs every layer: it stores the rows of the batch, then attends. *)
AExecute ==
  /\ Execute
  /\ \E junk \in {j \in [Layers -> UNION {Pages(l) : l \in Layers}] :
                    \A l \in Layers : j[l] \in Pages(l)} :
       /\ mem' = [l \in Layers |-> AfterWrites(l, junk[l])]
       /\ attended' = [l \in Layers |-> Attention(l, junk[l])]
  /\ fed' = [r \in Requests |-> IF r \in Range(batch) THEN fed[r] + seq_len[r] ELSE fed[r]]

(* execute throws after some of the layers have run.                        *)
AExecuteThrows ==
  /\ ExecuteThrows
  /\ \E done \in SUBSET Layers :
       mem' = [l \in Layers |-> IF l \in done THEN AfterWrites(l, 0) ELSE mem[l]]
  /\ attended' = Nothing
  /\ UNCHANGED fed

(* The pages keep what is in them; nobody may rely on it, so it is NoRow.   *)
ADestroy(r) ==
  /\ Destroy(r)
  /\ mem' = [l \in Layers |-> [p \in Pages(l) |->
       IF p \in Range(kv_pages[l][r]) THEN [s \in Slots |-> NoRow] ELSE mem[l][p]]]
  /\ fed' = [fed EXCEPT ![r] = 0]
  /\ attended' = Nothing

ABookkeeping ==
  /\ Bookkeeping
  /\ attended' = Nothing
  /\ UNCHANGED <<mem, fed>>

ANext ==
  \/ ABookkeeping
  \/ AExecute
  \/ AExecuteThrows
  \/ \E r \in Requests : ADestroy(r)

ASpec == AInit /\ [][ANext]_avars

-----------------------------------------------------------------------------
(* Two queries of a batch never store their rows in the same slot, though   *)
(* the threads of the device write without any order: not within a request, *)
(* nor across requests, whatever is in the table's uninitialised entries.   *)
NoWriteRace ==
  op = "bound" =>
    \A l \in Layers : \A junk \in Pages(l) : \A q1, q2 \in Queries :
      q1 # q2 => WriteSlot(l, junk, q1) # WriteSlot(l, junk, q2)

(* Between calls, the table of each request leads to the rows it was fed,   *)
(* in order, in every layer: no call on other requests, however it ended,   *)
(* has stored anything there, and no page came to it with someone else's.   *)
Cached(l, r) ==
  [n \in 1 .. kv_len[r] |->
     mem[l][kv_pages[l][r][(n - 1) \div PageSize + 1]][(n - 1) % PageSize]]

CacheHoldsHistory ==
  \A l \in Layers, r \in Requests \ (broken \cup Range(batch)) :
    /\ kv_len[r] = fed[r]
    /\ Cached(l, r) = [n \in 1 .. fed[r] |-> <<r, n>>]

(* Clients see a KV cache: each request of a batch attends to its own       *)
(* tokens up to itself and to nothing else, in every layer.                 *)
Cache == INSTANCE KVCache
  WITH Request <- Requests, Layer <- Layers, FeedLens <- SeqLens,
       history <- [r \in Requests |-> [n \in 1 .. fed[r] |-> <<r, n>>]]

ImplementsKVCache == Cache!Spec
=============================================================================
