# tiny-llm in TLA+

A verification development for [tiny-llm](../src), a C++/CUDA inference engine
for Llama models: TLA+ modules translated from the source, TLC configurations
that check them on small instances, and TLAPS proofs of what matters most for
every instance.

Paths below are relative to `src/tiny_llm/` unless they begin with `src/`.

- [1. The system](#1-the-system)
- [2. The modules](#2-the-modules)
- [3. The runs](#3-the-runs)
- [4. Fairness](#4-fairness)
- [5. What is proved](#5-what-is-proved)
- [6. What the models assume of clients](#6-what-the-models-assume-of-clients)
- [7. A disagreement between a comment and the code](#7-a-disagreement-between-a-comment-and-the-code)
- [8. Not modelled](#8-not-modelled)
- [9. Plan](#9-plan)

## 1. The system

A model directory is parsed into a `Graph` (`parser/`, `graph/`), optimised,
sorted into a `CudaPlan` of tasks (`runtime/cuda/cuda_plan.cpp`), and given to a
`CudaRuntime`, which lays out device memory for it, copies the weights and
executes it. `Pipeline::apply` drives the runtime: tokenise, prefill, then
sample and decode until every request has ended. In paged mode the keys and
values of a request live in fixed-size pages that the runtime hands out, so
requests of different lengths share one pool for each attention layer.

| Component | State | Operations | Talks to | What is hard, and what makes it correct |
|---|---|---|---|---|
| **Page pool** `runtime/page_pool.*` | `free_list_`, a stack of page numbers; the K/V buffers | `allocate_pages`, `free_pages` | owned by the runtime, one for each paged layer | It does not know who holds a page and its double-free check sees only the free list. Each page must be free or with one owner, always. |
| **Runtime, request bookkeeping** `runtime/cuda/cuda_runtime.cpp` 658-819 | `is_prefill_`; in each `RequestMeta` `seq_len`, `kv_len`, `kv_pages` | `set_prefill`, `bind_request_meta`, `execute`, `destroy_request_meta` | page pools; clients hold the metas | A loop of a loop that throws half way and rolls nothing back; growth at a page boundary; sizes rounded up. Pages must be conserved, tables exact, pools large enough. |
| **Runtime, paged data path** `cuda_runtime.cpp` 711-802, `ops/cuda/{gemm,rope,flash_attention}.cu` | block tables, separators, offsets; the rows in the pages | write a token's K and V, attend | reads the bookkeeping | Flattened tables with uninitialised tails, unordered device threads, recycled pages. Each request must attend to its own history and to nothing else. |
| **Request lookup** `ops/details.hpp`, `gemm.cu` 380-420 | locals of a binary search | `get_request_idx` | called for each row by a device thread | A search restarted from the previous row's answer, with empty requests. It must find the row's request, in bounds, and end. |
| **Greedy memory planner** `runtime/greedy_memory_planer.*` | `total_size_`, `v_blocks_` | `allocate`, `deallocate` | used by the layout | First fit with alignment, splits and merges on both sides. Live and free blocks must partition the arena. |
| **Runtime, layout and execution** `cuda_runtime.cpp` 25-656, `cuda_kernels.cpp` | the relation (uses, block, exclusive) of each tensor; device memory | `SizeCalculator`, `WeightAssigner`, input copies, `execute` | planner, kernels | Memory is recycled by use counts, inherited by operations in place, and must outlive an execution for weights, pinned tables and caches. Recycling must be invisible. |
| **CUDA plan** `runtime/cuda/cuda_plan.*` | tasks in order, descriptions of tensors, `tensor_dependence`, `input_infos`, `output_infos` | `create_cuda_plan` | graph → runtime | An iterative depth-first order with stale duplicates on its stack must be topological, throw on cycles only, and end. The descriptions must be there when a kernel derives its outputs from them, and the plan must say what the graph says. |
| **Shapes** `runtime/cuda/cuda_kernels.cpp`, `cuda_runtime.cpp` 560-656 | `tensor_descs`, what the kernels know of the requests | `dtype_shape_infer`, `check_input`, `execute` | plan, runtime | Memory is sized once, shapes are derived by every execution, and an execution can throw half way. Nothing may outgrow its memory, nothing of an earlier execution may be left. |
| **Pipeline** `pipeline/pipeline.*` | prompts, `generated_tokens`, `unfinished_`, `pos_ids` | `apply`, with pages and without | runtime, processors, tokenizer | Positions counted here, cache slots counted in the runtime, or without pages in each layer; requests that end at different rounds; exceptions that leave pages behind. |
| **Thread pool** `thread_pool/thread_pool.hpp` | a queue, mutex and condition variable for each worker, `next_worker_`, `shutting_down_` | `enqueue`, the worker loop, the destructor | CPU operators | Real concurrency: the shutdown test and the push are not atomic, notification comes after the unlock, tasks may enqueue tasks. Nothing lost, nothing run twice, no lost wakeup, the destructor ends. |
| **Graph, optimizer** `graph/*` | tensors, operations, maps by name | `add_tensor`, `add_node`, `set_input_names`, `set_output_names`, `is_valid`, `DCEPass` | parser → plan | Cross-indexed maps that must agree after partial failures and renumbering. Elimination must not change what an output means. |
| **Logit processors** `logit_processors/*` | a row of logits, their ids and `valid_size` for each request | `Temperature`, `TopK`, `TopP`, `Softmax`, `Multinomial`, `ArgMax` | pipeline | Quick-select and quick-sort in place on two arrays, the cumulative cut of `TopP`, a draw at the end of the unit interval. The token must be one of the nucleus as one would define it. |
| **Device managers, buffers, tensors** `device_managers/*`, `tensor/*` | streams dealt round robin, per-thread context stacks, the map of live pointers; a tensor's shape, strides, offset, buffer | contexts, allocation, the deleter; construction, views, `reshape`, `reallocate`, moves, copies | every CUDA caller | Compare-exchange loops; an address reused by another thread during a free; a `reallocate` that throws half way. Buffers in use must be in the map, tensors within their buffers. |
| **CPU operators** `ops/cpu/*` | none of their own | `parallel_run` | thread pool | Splitting an interval over the pool, an exception in one piece. |
| **CUDA operators** `ops/cuda/*` | none | kernels | runtime | Numerics, tiling; their paged indexing is in the data path above. |
| **Llama parser** `parser/llama_parser.cpp` | none | `llama_parser` | graph | Every model must give a graph that can be planned in whatever order, with its weights where the kernels look for them. |
| **Tokenizers, weights, command line** | none, or a handle | load, encode, decode | | I/O and bindings to external libraries. |

Every hazard, with the line where it bites and the properties that would catch
it going wrong, is in `PROJECT.json` under `hazards`.

## 2. The modules

```
 PageOwnership          KVCache
      ^ implements         ^ implements
 PagePool               PagedAttention ---(index found by)--- RequestSearch
      ^ used as            | extends
      +---------------- PagedRuntime <-- DenseAttention <--+
      |                    |                               +-- Pipeline
   FreeList <--------------+            LogitProcessors <--+

 Param <-- Graph <-- GraphOptimizer <--+-- CudaPlan <--+
   ^         ^                         |               +-- GraphPlan <-- PlanExecution
   +--- KernelShapes <-----------------+               |
             Graph <-- LlamaParser <-------------------+

 GreedyPlanner <-- MemoryPlanner          CudaContexts <--+
       ^---------- MemoryPlan                   Tensor <--+-- DeviceMemory

 ThreadPool <-- ParallelRun               TopoOrder
```

Variables and operators keep the names of the source where TLA+ allows.
Operators marked `(fault)` are the definition below them with a plausible bug;
no specification uses them. They are what the mutants of `PROJECT.json` put in
the definition's place, to show that each property would notice.

**`FreeList`** has the functions of `PagePool`'s methods on the free list, a
stack whose back is the last element, and the two predicates (`Unshared`,
`Covered`) that relate the list to the vectors of its callers.

**`PagePool`** is one pool with its callers: `Allocate` is `allocate_pages`
followed by the append of `bind_request_meta`, `Free` is `free_pages` on a
span. **`PageOwnership`** is what it promises: sets of pages move from the free
set to an owner and back.

**`PagedRuntime`** is `CudaRuntime`'s bookkeeping. `bind_request_meta` is a step
for each iteration: `Bind` enters the call, `EnterMeta` does the checks on a
request and sets `kv_len`, `VisitLayer(l)` does one layer (length check,
allocation, append), in any order since the layers are in an unordered map, and
`Publish` returns. `MetaThrows`, `TooLongThrows` and `ExhaustedThrows` are the
three ways to throw; each leaves what was done so far. Taking the iterations one
at a time is what makes half-done calls states of the model. `RequestMeta` is
the variables `seq_len`, `kv_len`, `kv_pages`.

**`PagedAttention`** adds the device. `seq_separator`, `cache_offset`,
`block_table` and `TableIndex` are what `bind_request_meta` flattens;
`WriteSlot` and `RowsRead` are the indexing of `gemm_row_major_lt_paged` and
`flash_attn_paged`. Entries of a block table that are never written are
uninitialised memory: `junk` is any page. A row `<<r, i>>` stands for the i-th
token of request `r`. **`KVCache`** is the promise: no pages, only histories, and
each token attends to its own request's tokens up to itself.

**`RequestSearch`** is `get_request_idx` probe by probe, called row after row
by a thread as in `write_dst_lt_paged`. `PagedAttention` uses the index it finds
(`request_idx`) in one step.

**`DenseAttention`** is attention without pages: a `cache_length` for each
layer, advanced as the layers run one after another. An execution that throws
half way leaves the layers with different lengths; prefill starts them again.

**`LogitProcessors`** has the processors as functions on a row: `partition`,
`quick_select`, `quick_sort` with their swaps on both arrays, `TopK`, `TopP`,
`Temperature`, `Multinomial`, `Argmax`. Logits are integers. `Exp` stands for
`std::exp`: any function that is positive and does not fall, since two logits
may be too near for a `float` to tell their exponentials apart. A random number
is in units of a weight of one. `ChainPicksNucleus` compares the chain with the
nucleus told without an order (`Above`, `TopMass`).

**`Pipeline`** is `Pipeline::apply`, made with pages, when its calls are the
steps of `PagedRuntime`, or without, over `DenseAttention`. What the processors
pick is whatever `LogitProcessors` lets them pick, as far as it is the end token
or not. Every step can throw: the bind, the check of an input's shape, a layer
that is outgrown, a call of CUDA, the reshape of the logits, a processor.
`ApplyToNothing` is a call without prompts, which returns before anything.

**`ThreadPool`** has a step for each shared access. `enqueue` is `Check` or
`Refuse` (the test of `shutting_down_`), `Claim` (the atomic counter), `Push`
(under the lock) and `Notify` (after it). A worker's test of its queue and what
follows from it is one step, because the lock covers it: `Take`, `Sleep` or
`Exit`; `Finish` returns from the task. Wakeups may be spurious. The destructor
is `BeginDestroy`, `RequestStop(w)` in turn, `Joined`. **`ParallelRun`** adds
clients that call `parallel_run`: `Pieces` is how it cuts the interval, `Get` is
one `future.get()`, and a task that is a piece may throw (`FinishPiece`).
`VectorElements` and `ScalarElements` are what the AVX2 kernels do with a piece.

**`GreedyPlanner`** has the functions of the planner, **`MemoryPlanner`** a
client that allocates and gives back in any order.

**`MemoryPlan`** builds plans task by task (`AddTask`): any continuation in
`Extensions` that is what `create_cuda_plan` makes of a graph (`IsPlan`) and
valid. It lays the plan out
as `SizeCalculator` does (`StartLayout`, `PlaceInput` in any order, `LayOutTask`
for each task: the block of the result, private buffers, use counts), copies the
weights (`AssignWeights`) and executes it twice (`CopyInputs`, then for each
task `FillInner`, `WriteOutputs`, `NextTask`). Memory is the set of values that
nothing written later overlaps; so a wrong reuse shows as a value that is gone
when a kernel wants it. A task is described by what matters to memory: operands,
weights, results, the operand it works in place on, whether its results are
pinned, and its kernel's private buffers. `MCMemoryPlan` has the operations of
the code in these terms.

**`Param`**, **`Graph`** and **`GraphOptimizer`** are functions on a graph, a record
with the vectors and maps of `graph.hpp`. A call returns the graph it leaves
and whether it threw: `add_node` has entered consumers, and may have
entered producers, when it throws for a second producer. **`CudaPlan`** is
`create_cuda_plan`: one plan for every order the search can return
(`SortedOrders`), since the order of an unordered map is not the program's. A
kernel that derives its outputs from a tensor without a description, which
reads indeterminate values in the code, is recorded in `guessed`.
**`KernelShapes`** has `dtype_shape_infer` of every kernel. **`LlamaParser`**
builds the graph of a model layer by layer. **`GraphPlan`** is the life of a
graph: any calls in any order, or the parser; inputs and outputs named; the
optimiser; a plan. **`PlanExecution`** goes on from the plan: inputs of any
shape that `check_input` accepts, prefill or decode, requests bound that have
nothing to do with the inputs, and executions that derive all shapes again and
may throw after any task.

**`CudaContexts`** has the streams with the load and the compare-exchange of the
position as separate steps, and the stacks of contexts of each thread.
**`Tensor`** has the arithmetic of shapes, strides and offsets. **`DeviceMemory`**
puts tensors in memory: allocation in four steps (switch the device, get a
context, `cudaMallocAsync`, enter the pointer) and the deleter in two (remove
the pointer, `cudaFreeAsync`), interleaved with what other threads do; the
driver gives out any address that is free, also one that was freed just now.

**`TopoOrder`** is `topological_order` with a step for each iteration: of the
outer loop (`StartAt`, `PassBy`, `Return`), of the loop on the stack (`Enter`,
`Finish`, `Duplicate`, by the status of the node on top) and of the loop over a
node's consumers (`Push`, `Throw`, `SkipOver`, `Scanned`). The consumers of all
outputs of a node are one list, in the order the two nested loops visit them.

`FreeListLemmas`, `PagePoolProofs`, `PagedRuntimeProofs` (of `PagedRuntime`, of
`PagedAttention` over it and of `Pipeline`, its client), `RequestSearchProofs`, `MemoryProofs` (of
`GreedyPlanner` and `MemoryPlanner`, and of `MemoryPlan` over the planner),
`GraphProofs` (of `TopoOrder` and of `GraphPlan`), `ThreadPoolProofs` (with `ParallelRun`) and `DeviceProofs`
(of `CudaContexts`, `Tensor` and `DeviceMemory`) hold the proofs; `MC*` modules
the instances.

Each definition's lines of source are in `PROJECT.json` under `map`.

## 3. The runs

| Run | Distinct states | What it shows | Bounds, and why they are enough |
|---|---|---|---|
| `pool` | 840 | No page is lost or has two owners; the pool implements `PageOwnership`. | Four pages, three owners: every order of the free list with every split, including an owner with two pages while two others have one. Proved for all sizes. |
| `runtime` | 263 208 | Pages stay partitioned and tables exact through calls that throw half way; what is bound fits; pools suffice within `max_request_num`; every layer uses its pool as `PagePool` allows. | Three requests for two places (so pools can run out), two layers of lengths 3 and 2 (one throws `too long` when the other has been visited), pages of two tokens (tables grow in decode), prompts of 1 and 3. Pages of requests are symmetric. |
| `attention` | 59 592 | No two rows go to one slot; each table leads to its request's history; layers implement `KVCache`. | Two requests and two layers of lengths 3 and 4 with pages of two: prompts within a page and across pages, rows of the block table of different length, recycled pages, executions that throw after some layers. |
| `search` | 14 280 | Every row's request is found, in bounds, and the thread ends. | Every batch of one to four requests with at most five tokens, empty requests and rows past the end included; three rows a thread, two apart. Safety is proved for all sizes. |
| `threads` | 177 144 | No task is lost or run twice, no wakeup is lost, outside tasks are drained and run, `parallel_run` returns with every element computed once, the destructor ends. | Two workers. Two clients call `parallel_run`, on three elements in two pieces and on one in one, any piece may throw; a third enqueues a task that enqueues another: each queue has several enqueuers at once, a worker enqueues to itself or to the other, and the destructor can begin at any point of that. How an interval is cut is checked for up to 7 elements and 8 workers, vectors of 2. |
| `threads_drain` | (violation) | See section 7. | The same instance. |
| `pipeline` | 92 753 | Positions match slots with pages and without, the processors pick from the nucleus, calls within the limits are not refused, pages come back unless a call threw, `apply` ends. | Two calls (the second finds what the first left), up to three prompts where two are allowed, or one without pages, prompts of one or two tokens, `max_new_tokens` 0 to 3, two layers of length 3: calls that just fit and calls one token too long. Rows of five logits of three values: ties, every cut of top-k and top-p, draws at both ends. |
| `planner` | 4 636 | Live and free blocks partition the arena, and free areas are merged. | An arena of nine bytes; sizes 1, 2, 4; alignments 1, 2, 3: padding before and after, splits and merges on both sides. |
| `plan` | 211 257 | Kernels find their operands, weights, tables and caches intact in every execution; outputs survive; blocks are given back; only in-place work on a pinned tensor throws. | Every valid plan of up to three tasks over two inputs, executed twice (a second execution is where a pinned table or a cache could have been overwritten). The same configuration with `MaxTasks = 4` (8.6 million states, three minutes) also passes. |
| `topo` | 1 528 748 | The order returned is topological, the throw is on a cycle only, the search ends. | Every graph of four nodes with up to two consumers each, in any order, the same consumer twice included: diamonds, self-loops and longer cycles, nodes two or more times on the stack and finished through the upper one. Safety is proved for every graph. |
| `graph` | 891 987 | The maps of a graph agree after every call; elimination keeps the meaning of outputs; a plan can be executed in its order and says what the graph says; models are valid and planned in every order; tensors and private buffers do not outgrow their memory; shapes are derived anew. | Up to three nodes over three (symmetric) tensors, up to two of them declared, with diamonds, cycles, dead nodes, second producers, a name used twice and operands in place. Models of one and two layers, with and without pages, one whose heads do not divide its hidden state and one that is refused. Plans of one-layer models are executed twice, with one to five tokens where two, or four with two requests, are the most. |
| `device` | 2 426 208 | Streams are dealt round robin, every buffer in use is in the map with its device, tensors stay in their buffers. | Two threads on two devices of two streams (32 in the code) and two addresses, so that one thread is given the address another is freeing; a context is pushed while there is none, the others are made on demand; tensors of one and two elements, one of them in the other's buffer. |

`CHECK_DEADLOCK FALSE` is set where the system may stop: a search whose thread
has no rows left, a pool that has been destroyed, calls of `apply` and
executions that are bounded in number, a planner whose arena is full, a
depth-first search that has returned or thrown, a graph whose plan was made,
and threads of which none has memory to ask for.

Bounds that are no part of the code: `MaxCalls`, `MaxPrompts`, `MaxNewTokens`
(`Pipeline`), `Logits`, `Inverses`, `Parts` (`LogitProcessors`; `Exp` is two to the
power of a logit there), `MaxRequests`, `MaxTotal` (`RequestSearch`), `MaxSize` (`MemoryPlanner`), `MaxTasks`, `Runs`
(`MemoryPlan`), `Lists` (`TopoOrder`), `Calls`, `PieceOf`, `MaxElements`
(`ParallelRun`), `NodeNames`, `Params`, `Shapes`, `MaxDeclared`, `InputSets`,
`OutputSets`, `Ranges`, `LlamaConfigs` (`GraphPlan`), `Runs`, `InputShapes`,
`Queries`, `MaxRuns` (`PlanExecution`), `MaxContexts` (`CudaContexts`), `Ptrs`,
`Made`, `Reallocates`, `Reshapes`, `Views` (`DeviceMemory`). `PagedRuntime` needs
none: `kv_len` is bounded by the check on `max_len`.

Properties that deserve a word:

- `TablesCover` (`PagedRuntime`): a table has exactly the pages its request's
  `kv_len` needs, so the index `relative_row / kPageSize` that the device
  computes is in the table. It does not hold of requests whose call threw:
  `kv_len` is advanced before the checks (`cuda_runtime.cpp` 693), hence
  `broken`.
- `NeverExhaustedWithinLimit`: relates the sizing of the pools in the
  constructor to every allocation of `bind_request_meta`.
- `PosMatchesSlot` (`Pipeline`): the rope position counted by `apply` is the
  cache slot counted by the runtime, in every decode.
- `NoLostWakeup` (`ThreadPool`): a worker sleeps on a task only while somebody
  is on the way to notify it, and never sleeps through a stop.
- `OperandsIntact` (`MemoryPlan`): from its launch to its last write a kernel
  finds its operands, although the layout reuses memory.
- `DCEKeepsMeaning` (`GraphPlan`): an output's meaning is the term of nodes and
  inputs it is computed from; the graph before and the renumbered one after
  have the same.
- `ExecutesAnew` (`PlanExecution`): kernels keep what they were told between
  executions. An execution is refused for nothing but what is given to it, and
  has the right rows of logits, whatever executions before did or where they
  threw.
- `Managed` (`DeviceMemory`): the entry of the thread that is given an address
  must survive the deleter of the thread that is freeing it.
- `PicksNucleus` (`Pipeline`): `ChainPicksNucleus` speaks of all rows of logits
  at once; the run evaluates it wherever a token is to be picked.

## 4. Fairness

- `RequestSearch`: `WF(Next)`. A device thread is sequential and is not stopped.
- `TopoOrder`: `WF(Next)`. The function is sequential, and nothing interrupts it.
- `Pipeline`: `WF(Step)`. A call once made goes on; nobody has to make one.
- `ThreadPool`, `ParallelRun`: weak fairness for each enqueuing thread, each worker's loop and
  the destructor: threads that can go on are scheduled. Spurious wakeups and
  the start of the destruction have none. A task that is enqueued must run
  (`OutsideRun`) whether or not the pool is ever destroyed. Mutexes need no
  fairness here, since no lock is held across a step. `RSpec` adds that a caller
  whose future is ready goes on.

The other specifications are checked for safety and refinement only.

## 5. What is proved

All for every value of the constants that satisfies the module's `ASSUME`.

| Theorem | Says |
|---|---|
| `PagePoolProofs`: `TypeCorrect`, `PartitionCorrect` | The pool's lists are lists of pages; no page has two owners and none is lost. |
| `PagePoolProofs`: `ImplementsOwnership` | The pool with its ordered list implements `PageOwnership`. |
| `PagedRuntimeProofs`: `TypeCorrect`, `PartitionCorrect` | In every layer every page is free or in one table, whatever calls threw. |
| `PagedRuntimeProofs`: `CoverCorrect` | Every table has exactly the pages its `kv_len` needs. |
| `PagedRuntimeProofs`: `BoundFitsCorrect` | What the kernels are given fits in every layer and in the block table's columns. |
| `PagedRuntimeProofs`: `LimitCorrect` | A pool never runs out while there are no more requests than the constructor was told to expect. |
| `PagedRuntimeProofs`: `PoolsUsed` | Seen from each layer's pool, the runtime does nothing but what `PagePool` allows its callers. |
| `PagedRuntimeProofs`: `NoWriteRaceCorrect` | No two rows of a batch are written to one slot of a page. |
| `PagedRuntimeProofs`: `CacheCorrect` | The table of every request leads to the keys and values of its own tokens, in order. |
| `PagedRuntimeProofs`: `ImplementsCache` | In every layer attention over pages implements `KVCache`: each token attends to its request's tokens up to itself. |
| `PagedRuntimeProofs`: `PosCorrect` | At every decode of `apply` a token's rope position is the slot of its row, with pages and without, whatever threw before. |
| `PagedRuntimeProofs`: `BindsCorrect` | A call of `apply` within the limits is refused by no check of the runtime; with pages, if none before it threw. |
| `PagedRuntimeProofs`: `NoLeakCorrect` | Between calls of `apply`, none of which threw, every page is free. |
| `PagedRuntimeProofs`: `ChainCorrect`, `PicksCorrect` | Whatever the logits and wherever selecting and sorting in place leave equal ones, the chain of processors samples tokens of the nucleus only, and of each that is in it, it or one as likely; `Argmax` picks a most likely one. |
| `RequestSearchProofs`: `TypeCorrect`, `SearchCorrect`, `SearchInBounds`, `SearchNarrows` | The search returns the row's request, reads in bounds, and its interval shrinks with every probe. |
| `MemoryProofs`: `ArenaCorrect` | Blocks in use and free ones partition the arena; free ones are in order, merged and none is empty. |
| `MemoryProofs`: `NeverRefused` | A block that was given out is always taken back. |
| `MemoryProofs`: `ThrowsCorrect` | The layout of a valid plan throws only at an operation that works in place on an operand that is pinned. |
| `MemoryProofs`: `BlocksReturnedCorrect` | When a plan is laid out, the dynamic arena holds what nobody consumes and nothing else; every other byte is free. |
| `MemoryProofs`: `OperandsCorrect` | From its launch to its last write a kernel finds its operands, weights and private buffers as they were written, in every execution. |
| `MemoryProofs`: `OutputsCorrect` | After an execution every output of the plan is in memory, whole. |
| `GraphProofs`: `OrderCorrect`, `ThrowCorrect` | The order returned is topological; the search throws only on a cycle. |
| `GraphProofs`: `CrossReferencedCorrect` | The maps and the vectors of a graph and the edges its nodes and tensors list agree after any calls, whatever threw and whatever was removed. |
| `GraphProofs`: `KeepsMeaningCorrect` | `DCEPass` changes no output: the same term of nodes and inputs, with every node that is left in the term of some output, and a valid graph stays valid. |
| `GraphProofs`: `PlanSoundCorrect` | The tasks of every plan, in whichever topological order, come after those they read from and find all their operands described; operands of inputs are recorded and uses counted. |
| `GraphProofs`: `ValidGraphPlanCorrect` | The plan of a valid graph has all its inputs and outputs, nobody reads an output, and nobody but the task itself what a task overwrites. |
| `ThreadPoolProofs`: `InvCorrect`, `WakeupCorrect` | The pool's variables are well typed and no task of a client is forgotten; no worker sleeps on a task nobody will notify it of, or through a stop. |
| `ThreadPoolProofs`: `OnePlaceCorrect` | Every accepted task is in one queue, or with one worker, or done, and in one of them once. |
| `ThreadPoolProofs`: `DrainCorrect` | What clients enqueued has run when the pool is gone. |
| `ThreadPoolProofs`: `ReturnsCorrect` | A call of `parallel_run` returns only with all its pieces run and none thrown, throws only if one did, and its pieces work on every element once. |
| `DeviceProofs`: `RoundRobinCorrect` | The streams of a device are handed out round robin, whatever else threads do with contexts and tensors. |
| `DeviceProofs`: `ManagedCorrect` | Every buffer in use is in the allocator's map with a context of its device, and no memory is lost, whichever allocations fail. |
| `DeviceProofs`: `WithinBufferCorrect` | A tensor with nested strides reaches no byte outside its buffer, for shapes of any number of dimensions. |

Assumptions: `PagePoolAssumption` (at least one page), `RuntimeAssumption` (page
size, `max_request_num` and every `max_len` positive; one-token feeds allowed),
`DenseAssumption` (each layer is in the plan once), `PipelineAssumption` (layers
are of one length, `max_position_embeddings`; the request of a prompt is the call
and its place in it), `ProcessorsAssumption` (there are tokens; scaling keeps the order
of logits; `Exp` is positive and does not fall),
`SearchAssumption` (bounds are naturals), `TopoAssumption` (consumers are nodes), `ThreadPoolAssumption` (at least one
worker), `TasksAssumption` (finitely many tasks, each standing for one call of
`enqueue`), `CallsAssumption` (the callers' tasks are the pieces of a non-empty interval),
`PlannerAssumption` (sizes and alignments are positive), `PlanAssumption` (a plan
begins without tasks; the alignment is positive), `ContextsAssumption` (at
least one device, with a stream), `MemoryAssumption` (tensors are made on
devices there are, with positive dimensions: `is_valid_shape` refuses others;
what tensors are reshaped to and the views in a buffer are any integers, which
the model checks itself as the code does), `GraphPlanAssumption` (a model has a
natural number of layers), `ExecutionAssumption` (at least one request may be
bound). TLC evaluates each in the runs.

The arguments:

- *Pool.* `FreeListLemmas` shows that popping `n` from the back of an injective
  list leaves an injective list, disjoint from what was popped, with the same
  union; that appending a disjoint vector keeps both; and what this does to
  `Unshared` and `Covered` when the vector came from, or goes to, an owner.
  `Inv == TypeOK /\ NoDoubleOwner /\ NoPageLost` is then inductive. None of the
  three is by itself: that nothing is shared after a free needs that nothing was
  shared before it, and conservation needs the type of the list.
- *Bookkeeping.* `Inv == TypeOK /\ PagesPartitioned` is inductive by the same
  lemmas, layer by layer. `TypeOK` has the control state of the call in it
  (`cur`, `todo`, `op`), which the proof for `VisitLayer` needs to know that
  `batch[cur]` is a request. `TablesCover` is not inductive: in the middle of
  `bind_request_meta` the table of the request at hand lags behind its
  `kv_len`. `CoverInv` adds `Place` (where the call is), `Pending` (a layer
  still to visit has the pages of the length before: none in prefill,
  `PagesFor(kv_len - 1)` in decode) and `VisitedFits` (what has been visited
  passed the length check, which gives `BoundFits`). Arithmetic of `PagesFor`,
  a rounded-up division, is in five lemmas.
- *Enough pages.* `NeverExhaustedWithinLimit` compares the pools with a number of
  requests, so pages have to be counted. `TablesFit` says that no table, not even
  one of a call that threw, is longer than `PagesFor(max_len)`: growth stops at
  the length check. The pages that are not free are then numbered by holder and
  position (`PagesCounted`), which maps them one to one to fewer numbers than a
  pool has pages as long as one request more still fits.
- *Pools.* `Pool(l)` is `PagePool` with the variables of layer `l` in its places.
  Every step moves the pages of at most one request in a layer, by the
  functions of `FreeList` that `PagePool` uses (`PoolAllocates`, `PoolFrees`), or
  none. `ImplementsOwnership` then holds of each.
- *Attention.* What a kernel reads goes through `seq_separator` (a recursive
  function), a binary search, the flattened block table with its uninitialised
  rest, and division by the page size. `SeparatorSteps`, `QueryAt` and
  `OnePlaceOnly` say that a query belongs to one request and one position of it;
  `TableEntry` that its row of the table has that request's pages where its
  `kv_len` reaches, so junk is never looked at; `RowAndColumn`, `PageAndSlot` that
  quotient and remainder lose nothing. Two rows of one slot are then of one page,
  hence of one request by `PagesPartitioned`, and of one position
  (`WritersApart`). `CacheHoldsHistory` is not inductive: it speaks of requests at
  rest, and in a call that has counted a request's tokens and not yet written
  them `kv_len` runs ahead. `History` therefore speaks of the tokens that were fed
  (`fed`), and `FedCounts` relates these to `kv_len` through the call, `Entered`
  telling which requests were counted. A write keeps the rows of everybody else
  since their pages are others (`OldRows`), a page that is recycled was in no
  table. The refinement maps an execution of all layers to one `Feed` of
  `KVCache` with the rows read in the order of the tokens (`AttentionIs`).
- *Pipeline.* `apply` and the runtime count tokens apart, so `PInv` has what each
  has counted in every phase of a call: rounds of sampling, the lengths of
  `generated` and the positions derived of them (`RoundsCounted`), and against
  these `kv_len`, one request at a time during a bind (`KvCounted`), or
  `cache_length`, one layer at a time (`DenseCounted`). Both are stated with
  `InCache`, the tokens that are in the cache when no call of the runtime is under
  way, and `Fed`, what such a call adds; the positions for the next decode are
  `InCache`, which is `PosMatchesSlot`. A call that threw leaves layers at
  different lengths, but a prefill starts all of them anew. That no call within
  the limits is refused rests on the runtime's own invariant, `LimitInv`, which
  every step of `apply` keeps (`RuntimeKept`): as long as no call threw, only
  the requests of this call hold pages (`MetasFresh`, `MetasGone`, `OnlyMine`), so
  that there are fewer than `max_request_num` beside the one that asks
  (`FewHolders`), and the pools suffice. Pages do not leak since without such
  requests every table is empty, and the pages are partitioned.
- *Planner.* The invariant is about bytes, not blocks: `ArenaInv` says that a byte
  is in the arena if and only if it is free or in a client's block, never both,
  and in one block only. Each function is shown to do to the set of free bytes
  what it should, by cutting the list of free blocks at the place it works on
  (`Parts`) and putting it together again (`Appended`): `AllocateSound` for a
  block carved out of a free one, with alignment before and a rest after, or
  appended to the arena, `DeallocateSound` for the four ways to merge. That free
  blocks are separated by a gap (`Gapped`) makes a list that is put together
  again in order and merged.
- *Layout.* The planner's functions are restated for a set of blocks in use
  (`Guarded`: they are in the arena, share no byte with each other or with a free
  block; `Full`: every other byte is free), the client of the planner's own
  proof being replaced by the layout. Each helper of `SizeCalculator` is then a
  step from one such set to the next (`BlockStep`, `AssignedStep`,
  `InheritingStep`, `InnerStep`, `ReturnStep`, `FreedStep`), each of its loops a
  walk of such steps (`Stepwise`, from the folds that model the loops), and one
  task is one walk after the other (`TaskLaid`). What must be related along the
  walk is the use count of a tensor to the operands still to come: a count is
  `Left`, the number of places past the one reached where the tensor is read,
  except for pinned tensors, whose count is gone. So a block is given back at
  the last use, neither before nor twice, and the operand of an operation in
  place, which a valid plan reads nowhere else, hands its block on instead.
  `LayInv` has this for the tasks laid out so far (`Laid`), or that the layout
  threw where there is a pinned tensor to blame (`Conflict`). `Laid` also keeps,
  for every task behind, that the blocks live at that task do not overlap
  (`TaskApart`). They may be in use no more, so the state of the arena says
  nothing of them any longer; but kernels run on these addresses.
- *Execution.* `MemOf` says what memory holds when task `cur` has written `stage`
  buffers: tensors that are still needed, pinned ones from the first execution
  on, weights, this task's scratch and every exclusive buffer. Each write of a
  step is to a block live at the task, and `TaskApart` says that it overlaps no
  other, but for the operand handed on. That one is gone with the last write
  (`Spent`), and no later task reads it. What lies in the static arena is apart
  from everything for good (`Lasting`), which is why it is there in the next
  execution.
- *Search.* `SearchInv` is the loop invariant: `seq_separator[res] <= dst_row`,
  everything from `end` on begins after the row, and `beg` is `res` or
  `res + 1`. That a search may start at the previous row's request needs
  `seq_separator[request_idx] <= dst_row` between the calls, which holds since
  rows only grow.
- *Streams.* A thread about to exchange `pos` would put the position there that
  follows the one it expects to find (`NextFollows`), after a failed exchange
  too, because the loop computes it again. So a success advances by one what is
  really there. Nothing else in `DeviceMemory` touches the position.
- *Memory.* `Managed` is not inductive: an address is on its way between the
  driver and the map for two steps of an allocation and two of a delete.
  `MemoryInv` names who holds an address (`InTensor`, `Given`, `Removing`,
  `Freeing`) and says that tensors that hold it have the same buffer and that
  any other holder is the only one (`HeldOnce`), which of them have it in the
  map (`InMap`), and that what was given out is held (`Accounted`). That the
  map's context is of the buffer's device needs that a thread between the switch
  of the device and the entry of the pointer is on its tensor's device
  (`Allocating`) and that stacks have contexts of their device (`OwnContexts`).
- *Tensors in their buffers.* `ShapeInv` says of every tensor that the bytes its
  first dimension spans are in its buffer (`InBuffer`), which is all the code
  looks at, unless an allocation is under way or one that threw left it torn.
  From there to `WithinBuffer` is `ReachBound`: with nested strides, and an
  innermost one of at least an element, the last element ends where the first
  dimension does, at most. A reshape keeps the bytes since a dimension that is
  filled in makes the product the number of elements (`ReshapeProduct`), with
  every quotient on the way exact.
- *Depth-first order.* A position of the stack is *entered* when it is the
  highest one of a gray node. `Inv` says that every gray node has one
  (`OnStack`); that whatever lies between two entered positions, and the upper
  of the two, are consumers of the lower (`Parents`, `Path`); that the node
  scanned is the highest entered one (`AtEnd`); that every consumer of a gray
  node that was looked at is black or lies above the node (`Pending`); that
  consumers of black nodes are black and precede them in `res` (`Closed`,
  `Finished`). A gray node found on top has nothing above it, so `Pending`
  says that its consumers are black: it may be finished. When the search
  throws, `Path` and `Parents` give each gray node a gray consumer, and the
  scan closes the cycle. When it returns, `Passed` and `OnStack` leave neither
  white nor gray nodes. What is stale on the stack (white duplicates, black
  ones) is covered because no part speaks of the colour of a position that
  was not entered.
- *Graph.* `CrossReferenced` needs what it does not say: that nodes and tensors
  are records of their kind (`Whole`), that names and numbers are one to one
  (`NamesAgree`), and that each tensor lists a consumer as often as the node
  reads it, with its producer writing it (`Edges`, `Paired`). The code's loops
  are folds, so each is a walk that keeps something at every step (`Stepwise`,
  `FoldSteps`): of `add_node` it is what holds half-way, when a node that is not
  in the graph yet is already in the lists of some of its tensors, which is also
  what remains when it throws and takes them out. `DCEPass` keeps what it
  needs closed under producers (`NeededSettled`, `SelfContained`), so when nodes
  and tensors are renumbered by increasing functions (`Renumbers`) no edge leads
  to what was removed (`ShrinkWhole`).
- *Dead code.* `DCEKeepsMeaning` compares the graph before with the one after
  through both renumberings (`Smaller`, `ShrinkIs`). What is kept has its name,
  operation and edges (`KeptNode`, `KeptTensor`, `KeptEdges`), so terms are equal
  level by level (`TermIs`, `TermsKept`). Of what `is_valid` asks, only
  reachability is not of one node or tensor: the search settles
  (`ReachSettled`) on the least set closed under consumers (`ReachLeast`), so
  what was reached still is (`ReachedKept`). That nothing superfluous stays is
  a bound on the depth: a node is found at a turn below the number of nodes, and
  is that deep in an output's term (`NeededWithin`).
- *Plan.* Every topological order that may be chosen is a permutation of the
  nodes with consumers after producers (`OrdersAre`, `OrderWhole`). The loop over
  tasks is a walk, of which `MadeUpTo` says how far the plan is: which tensors
  are described (`DescsBound`), in which places inputs are recorded
  (`InputsBound`), which outputs are (`OutputsRecorded`). In such an order, every
  operand of the task at hand is described, as an input, an initializer or
  by an earlier task (`InputsThere`), so nothing is derived of a guess.
  Predecessors are those of producers (`NeighboursAre`); uses are counted by
  a bijection from a tensor's list of consumers to the places it is read in
  (`OperandsCounted`). `PlanInv` carries the facts for the plan that was made,
  with the graph it was made of (`SoundInOrder`, `ValidInOrder`).
- *Sampling.* The loop of `partition` keeps `SplitUpTo`: what is larger than the
  pivot is before `store_index`, and tokens were only `Moved`, within the range
  and with their ids (`Own`). So a range is `Split` by its pivot
  (`PartitionSplits`), and by induction on its length, which bounds the recursion
  too (`SortExists`, `SelectExists`), `quick_select` leaves the k largest first
  (`SelectSelects`) and `quick_sort` a range in descending order (`SortSorts`).
  Together the first k places are `Leading`. Any k tokens weigh no more than
  these: those they do not share weigh at most, or at least, as much as the k-th,
  and are as many (`FirstWeighMost`), so what `TopP` compares is `TopMass`. What
  is above a token are the places before the first as likely (`AboveIs`), and to
  drop the n-th is to have less than top_p before it (`NeededMass`), so the
  places kept are those of the nucleus up to equals; the sum of the weights
  before a place is the random number that picks it (`NumberFor`).
- *Thread pool.* That a worker asleep on a task has a thread on its way to
  notify it is inductive with the types alone. The drain needs `Accounted` (a
  task of a client is still in its plan, or `Kept`: done, running, or in the
  queue of a worker that has not left) and `Shutdown` (no stop is requested
  before the clients' plans are empty; workers leave only when stopped). A push
  of a client therefore never meets a worker that has left, which is exactly
  what the push of a task may do (section 7). `OnePlace` counts; its invariant
  `OnceInv` says instead where a task is not: what is queued was not started
  (`QueuedFresh`, `QueuedOnce`), what waits in a plan was not pushed
  (`WaitingFresh`, `WaitingOnce`), and what a task that was not started will
  enqueue is nowhere yet (`InsideFresh`), without which taking a task could put
  a second copy of another in a plan. `Gets` relates the futures a caller has
  passed to tasks that ran without throwing; it is kept because a task that is
  done never runs, hence never throws, again (`Accepted`). How the interval is
  cut is arithmetic of rounded-up division (`Intervals`, `PiecesAre`,
  `CutIsWhole`), for all intervals and any number of workers; the split into
  whole vectors and a rest is `ElementsShared`.

The type invariants, and that the search stays in bounds and ends, are proved
and not among the properties of the runs.

Products, separators and the other folds over sequences are recursive, and no
prover here takes a theorem of induction with an operator in it. Two forms of it
are within reach: the least number for which a fact would fail (`LeastNumber`,
from the well-foundedness of `<`), and induction with the set of numbers it holds
for in the operator's place (`Upwards`). That the recursion has a solution at all
(`TotalExists`, `FoldExists`) is proved by the first, what it computes step by
step (`SeparatorSteps`, `ProductSteps`, `RemainingSteps`, `ReachSteps`) follows,
and facts about the result by the second.

`quick_select` and `quick_sort` recurse twice, on arrays; the same two forms do
for them, by the length of the range.

The inductive invariants were checked by TLC on the instances of the runs before
they were proved.

Only model-checked:

- Liveness (`OutsideRun`, `DestructionEnds`, `ApplyEnds`, `Ends`): the prover does
  not reason about `ENABLED`. `SearchNarrows` is the variant that makes the
  search end.
- `ModelGraph`, `ExecutionFits` and `ExecutesAnew`: what the parser builds of a
  config, and which shapes the kernels derive, operation by operation.

## 6. What the models assume of clients

- `PagedRuntime`: the metas of a call are distinct; after a call that threw, its
  metas are only destroyed (as by `apply`, which drops them); a successful bind
  is followed by an execution. A client that retries a decode after a throw
  counts `kv_len` twice: listed as a hazard.
- `PagedAttention`: tokens of a batch are laid out request after request, as
  `apply` does.
- `ThreadPool`: threads outside the pool are done with `enqueue` before the
  destructor begins. Tasks are not: they may enqueue at any time, because the
  workers are joined before the queues go. A task stands for one call of
  `enqueue`, so no task is enqueued at two places.
- `ParallelRun`: a caller is done before the pool is destroyed. When `get`
  throws, the call is left while other pieces still hold a reference to its
  function: listed as a hazard, and no kernel of the repository throws.
- `Pipeline`: every prompt has at least one token.
- `PlanExecution`: a plan of a model is configured for `max_requests * max_len`
  tokens (`max_len` without pages), as `Pipeline` does; nothing in the code asks
  for it, and with fewer the private buffers would be too small. What is bound
  need not match the shapes of the inputs.
- `DeviceMemory`: a tensor is worked on by one thread at a time. Views with
  strides that are not nested are exempt from `WithinBuffer`, because the
  constructor looks at the first dimension only, and so is a tensor after a
  `reallocate` that threw, until it is given a buffer again.
- `MemoryPlan`: plans are what `create_cuda_plan` makes of a graph (`IsPlan`), and
  valid as it asks (`Valid`: an operand overwritten in place has one consumer,
  `is_valid_nodes`). Of `IsPlan`, the code sees to it that a tensor has one
  producer (`add_node`), that tasks come after those they read from
  (`topological_order`) and that initializers have positive dimensions. It does
  not look whether an input has a zero among its largest dimensions, or whether
  an initializer is also an operand or a result; no parser makes such graphs,
  and the model leaves them out. Outputs are the tensors without consumers, and
  every input is copied before every execution.

## 7. A disagreement between a comment and the code

`thread_pool/thread_pool.hpp:101` declares `workers_` last "to support drain
policy". `DrainPolicy` says that of every accepted task; `threads_drain` finds
it violated. A task running on worker 0 passes the test of `shutting_down_` in
`enqueue`; the destructor stores the flag and requests stops; worker 1, with an
empty queue and a stop requested, leaves its loop; the task then pushes to
worker 1's queue. The push is accepted and nobody runs it: its future is broken
when the queues are destroyed. Tasks enqueued from outside the pool do not meet
this (`OutsideDrained`, in `threads`).

## 8. Not modelled

- *CUDA operators*: numerics, tiling and heads, grid sizes and `max_q_len`. Of the
  kernels, the indexing of pages and the shapes are modelled; the rest is
  floating-point arithmetic over rows.
- *CPU operators*: the arithmetic on an element, and `sin` and `cos`.
- *Copies* between tensors (`cudaMemcpy` and its relatives), synchronisation of
  streams, the allocator of the host, the properties of a device. Nothing in
  the models is about the contents of tensors but `MemoryPlan`, which has the
  copies of inputs and weights by what they overwrite.
- *Parser*: reading `config.json`; the config is a record. *Tokenizers*, *weight
  files*, *command line*: I/O and bindings, without state to go wrong.
- Integers are unbounded: the width of `element_num` and `element_size` is listed
  as a hazard.

## 9. Plan

Written, in the order they were planned, the most important behaviour first:
`FreeList`, `PagePool`, `PagedRuntime` with their proofs; `PagedAttention` over
it; `RequestSearch`; `Pipeline` over the runtime; `ThreadPool`;
`GreedyPlanner`, `MemoryPlanner`, `MemoryPlan`; `TopoOrder` with its proofs;
`Param` to `PlanExecution`; `CudaContexts`, `Tensor`, `DeviceMemory`;
`LogitProcessors`; `ParallelRun`, and the proofs of the thread pool;
`DenseAttention`.

Then the proofs of everything `PagedRuntime` and `PagedAttention` are checked
for, of the planner, of device memory, of the layout of a plan and its
execution, and of what `Pipeline` says of positions, refusals and pages.

Then the proofs about graphs and their plans, and about the logit processors.

Left, theorems: `ModelGraph`, which rests on the same lemmas about graphs, then
`ExecutionFits`.

Left, models: `MemoryPlan`'s plans taken from the plans of `GraphPlan`, so that
the layout and the shapes are checked on the same task lists.
