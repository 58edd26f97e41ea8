---------------------------- MODULE PlanExecution ----------------------------
(***************************************************************************)
(* How a runtime executes a plan (cpu_tensor_copy_to_input, bind_input,     *)
(* bind_request_meta and execute of tiny_llm/runtime/cuda/cuda_runtime.cpp),*)
(* as far as the shapes go: an input brings its shape, and each kernel      *)
(* derives those of its outputs again before it runs.  The memory of a      *)
(* tensor was allocated for its largest shape, once.  What the memory holds *)
(* is in MemoryPlan and PagedAttention, how the rows of the cache are       *)
(* counted in DenseAttention: here any kernel may throw.                    *)
(***************************************************************************)
EXTENDS GraphPlan

CONSTANTS
  Runs(_),        \* bound: whether this plan is executed
  InputShapes,    \* bound: the shapes of the inputs
  MaxRequestNum,  \* max_request_num
  Queries,        \* bound: the queries of the requests that are bound
  MaxRuns         \* bound: calls of execute

ASSUME ExecutionAssumption ==
  MaxRequestNum \in Nat \ {0} /\ Queries \subseteq Nat \ {0} /\ MaxRuns \in Nat

VARIABLES
  runtime,  \* its plan_, whose tensor_descs change; NoPlan until it is made
  meta,     \* of the kernels: [is_prefill, num_requests, total_queries]
  runs,     \* how many calls of execute there have been
  outcome   \* how the last one ended

executionVars == <<runtime, meta, runs, outcome>>
xvars == <<gvars, executionVars>>

Made == runtime # NoPlan
NoRequests == [is_prefill |-> TRUE, num_requests |-> 0, total_queries |-> 0]

XInit == GInit /\ runtime = NoPlan /\ meta = NoRequests /\ runs = 0 /\ outcome = "none"

(* The plan moves into the runtime; the graph is not needed any more.       *)
MakeRuntime ==
  /\ Planned /\ is_valid(graph) /\ Runs(plan)
  /\ runtime' = plan
  /\ graph' = EmptyGraph /\ plan' = NoPlan
  /\ UNCHANGED <<meta, runs, outcome>>

-----------------------------------------------------------------------------
descs == runtime.tensor_descs
Paged == \E i \in DOMAIN runtime.tasks : runtime.tasks[i].param.paged

check_input(name, shape) ==
  LET id == runtime.input_infos[name].desc_id
      range == runtime.plan_config[name]
  IN  /\ Len(shape) = Len(descs[id].cur_shape)
      /\ \A k \in DOMAIN shape :
           range.min_shape[k] <= shape[k] /\ shape[k] <= descs[id].max_shape[k]

(* cpu_tensor_copy_to_input or bind_input; one that is refused changes      *)
(* nothing.                                                                 *)
CopyInput(name, shape) ==
  /\ Made /\ runs < MaxRuns /\ check_input(name, shape)
  /\ runtime' = [runtime EXCEPT !.tensor_descs[runtime.input_infos[name].desc_id].cur_shape = shape]
  /\ UNCHANGED <<gvars, meta, runs, outcome>>

SetPrefill ==
  /\ Made /\ runs < MaxRuns
  /\ meta' = [meta EXCEPT !.is_prefill = ~@]
  /\ UNCHANGED <<gvars, runtime, runs, outcome>>

(* bind_request_meta tells the kernels of the requests, none of which has   *)
(* more queries than max_len, and one if it decodes.  It is not told the    *)
(* shapes of the inputs.                                                    *)
BindRequests(num, queries) ==
  /\ Made /\ runs < MaxRuns /\ Paged
  /\ \A i \in DOMAIN runtime.tasks :
       LET param == runtime.tasks[i].param
       IN  param.kind = "CausalAttention" =>
             queries \in num .. num * (IF meta.is_prefill THEN param.dims.max_len ELSE 1)
  /\ meta' = [meta EXCEPT !.num_requests = num, !.total_queries = queries]
  /\ UNCHANGED <<gvars, runtime, runs, outcome>>

-----------------------------------------------------------------------------
(* The descriptions after a task has derived those of its outputs.          *)
Inferred(before, task) ==
  dtype_shape_infer(task.param, DescsOf(before, task.input_descs), meta)

AfterInfer(before, task) ==
  LET outs == Inferred(before, task).outs
  IN  [t \in DOMAIN before |->
         IF \E k \in DOMAIN outs : task.output_descs[k] = t
         THEN LET out == outs[CHOOSE k \in DOMAIN outs : task.output_descs[k] = t]
              IN  [before[t] EXCEPT !.dtype = out.dtype, !.cur_shape = out.cur_shape]
         ELSE before[t]]

AfterTasks(num) ==
  FoldLeft(AfterInfer, descs, SubSeq(runtime.tasks, 1, num))

(* Whether a task refuses the shapes it is given, when those before it have *)
(* not.                                                                     *)
Refuses(i) == Inferred(AfterTasks(i - 1), runtime.tasks[i]).threw

(* All tasks run, or those up to one that throws: because it refuses the    *)
(* shapes, or when it runs.                                                 *)
Execute ==
  /\ Made /\ runs < MaxRuns
  /\ runs' = runs + 1
  /\ \E num \in DOMAIN runtime.tasks :
       /\ \A i \in 1 .. num - 1 : ~Refuses(i)
       /\ runtime' = [runtime EXCEPT !.tensor_descs = AfterTasks(num)]
       /\ CASE Refuses(num) -> outcome' = "refused"
            [] ~Refuses(num) /\ num < Len(runtime.tasks) -> outcome' = "failed"
            [] ~Refuses(num) /\ num = Len(runtime.tasks) -> outcome' \in {"failed", "done"}
  /\ UNCHANGED <<gvars, meta>>

XNext ==
  \/ ~Made /\ GNext /\ UNCHANGED executionVars
  \/ MakeRuntime
  \/ \E name \in DOMAIN runtime.input_infos, shape \in InputShapes : CopyInput(name, shape)
  \/ SetPrefill
  \/ \E num \in 1 .. MaxRequestNum, queries \in Queries : BindRequests(num, queries)
  \/ Execute

XSpec == XInit /\ [][XNext]_xvars

-----------------------------------------------------------------------------
(* The buffers private to a kernel of attention are as large as its hidden  *)
(* state can be, those of keys and values in proportion of the heads.  They *)
(* have room for the queries that are bound, or, without pages, for max_len *)
(* rows of each head.                                                       *)
BuffersSuffice(task) ==
  LET q_o_size == element_num(descs[task.input_descs[1]].max_shape)
      dims == task.param.dims
  IN  task.param.kind = "CausalAttention" =>
        IF task.param.paged THEN meta.total_queries * q_dim(dims) <= q_o_size
        ELSE kv_dim(dims) * dims.max_len <= (q_o_size \div dims.q_head) * dims.kv_head

(* Whatever is copied and bound, and however executions before have thrown: *)
(* no tensor outgrows the memory that was laid out when the plan was made,  *)
(* and no private buffer is too small.                                      *)
ExecutionFits ==
  Made =>
    /\ \A t \in DOMAIN descs :
         element_num(descs[t].cur_shape) <= element_num(descs[t].max_shape)
    /\ \A i \in DOMAIN runtime.tasks : BuffersSuffice(runtime.tasks[i])

Tokens == descs[runtime.input_infos[token_ids].desc_id].cur_shape[2]
Positions == descs[runtime.input_infos[pos_ids].desc_id].cur_shape[2]
Vocab == Last(runtime.tasks).param.dims.out_dim
Logits == descs[runtime.output_infos[Out(lm_head)].desc_id].cur_shape

(* An execution derives every shape anew: it is refused only when there is  *)
(* not a position for every token, or more than one token to decode without *)
(* pages; when it is done, there is a row of logits for every request, or   *)
(* one, and nothing is left of executions that threw.                       *)
ExecutionAnew ==
  Made =>
    /\ (outcome' = "refused" /\ runs' # runs) =>
         Tokens # Positions \/ (~Paged /\ ~meta.is_prefill /\ Tokens # 1)
    /\ (outcome' = "done" /\ runs' # runs) =>
         /\ Tokens = Positions
         /\ Logits' = <<1, IF ~Paged THEN 1
                           ELSE IF meta.num_requests = 0 THEN Tokens ELSE meta.num_requests, Vocab>>
         /\ \A i \in DOMAIN runtime.tasks :
              \A t \in Range(runtime.tasks[i].output_descs) :
                LET shape == descs[t].cur_shape'
                IN  Len(shape) = 3 /\ i < Len(runtime.tasks) => shape[2] = Tokens

ExecutesAnew == [][ExecutionAnew]_xvars
=============================================================================
