------------------------------- MODULE CudaPlan -------------------------------
(***************************************************************************)
(* create_cuda_plan (tiny_llm/runtime/cuda/cuda_plan.cpp): the nodes of a   *)
(* graph, in a topological order, become the tasks of a plan; every tensor  *)
(* gets a description (type and largest shape), which must be there before  *)
(* a kernel derives the description of its outputs from it.                 *)
(*                                                                         *)
(* named_shape_ranges is a function from names to [min_shape, max_shape].   *)
(* tensor_descs has the tensors that are described; the others are as they  *)
(* were made, and guessed has those that a kernel looked at all the same.   *)
(***************************************************************************)
EXTENDS GraphOptimizer, KernelShapes

NoPlan ==
  [tasks |-> <<>>, tensor_descs |-> <<>>, tensor_dependence |-> <<>>, guessed |-> {},
   input_infos |-> <<>>, output_infos |-> <<>>, plan_config |-> <<>>, threw |-> "no"]

(* The nodes that read what a node writes.                                  *)
ConsumersOf(g, node_id) ==
  UNION {Range(g.tensor_infos[t].consumer_nodes) : t \in Range(g.nodes[node_id].output_tensors)}

ProducersOf(g, node_id) ==
  {g.tensor_infos[t].producer_node : t \in Range(g.nodes[node_id].input_tensors)} \ {None}

(* What topological_order may return: an order of all nodes, each before    *)
(* those that consume its outputs.  There is none when there is a cycle.    *)
(* (TopoOrder has the search itself, and its proof.)                        *)
TopologicalOrders(g) ==
  LET Ready(order) ==
        {n \in Ids(g.nodes) \ Range(order) :
           \A m \in Ids(g.nodes) : n \in ConsumersOf(g, m) => m \in Range(order)}
  IN  FoldLeft(LAMBDA orders, n : UNION {{Append(o, m) : m \in Ready(o)} : o \in orders},
               {<<>>}, g.nodes)

-----------------------------------------------------------------------------
(* create_task                                                              *)

(* A node that add_node gave up half-way has fewer.                         *)
HasItsTensors(node) ==
  /\ Len(node.input_tensors) = input_num(node.param)
  /\ Len(node.output_tensors) = output_num(node.param)

(* (fault) the ids of nodes are used where tasks are meant.                 *)
TasksOf_NotMapped(nodes_mapping, ids) == ids

TasksOf(nodes_mapping, ids) == {nodes_mapping[id] : id \in ids}

create_task(plan, g, node_id, nodes_mapping) ==
  LET node == g.nodes[node_id]
  IN  IF ~HasItsTensors(node) THEN [plan EXCEPT !.threw = "arity"]
      ELSE [plan EXCEPT !.tasks = Append(@,
              [name |-> node.name, param |-> node.param,
               input_descs |-> node.input_tensors, output_descs |-> node.output_tensors,
               predecessors |-> TasksOf(nodes_mapping, ProducersOf(g, node_id)),
               successors |-> TasksOf(nodes_mapping, ConsumersOf(g, node_id))])]

-----------------------------------------------------------------------------
(* bind_descs                                                               *)

TaskIO(task_id, io_id) == [task_id |-> task_id, io_id |-> io_id]

(* The map with what the other says.                                        *)
Updated(map, new) ==
  [x \in DOMAIN map \cup DOMAIN new |-> IF x \in DOMAIN new THEN new[x] ELSE map[x]]

WithInput(infos, name, id, io) ==
  LET ios == IF name \in DOMAIN infos THEN infos[name].ios ELSE <<>>
  IN  Emplaced(infos, name, [desc_id |-> id, ios |-> Append(ios, io)])

(* A tensor of this type whose largest shape this is.                       *)
Describe(dtype, shape) == [dtype |-> dtype, cur_shape |-> shape, max_shape |-> shape]

(* One turn of the loop over the operands, of which those no node writes    *)
(* are described here: inputs by the configuration, initializers by what    *)
(* add_tensor was told of them.                                             *)
BindOperand(plan, g, ranges, operand) ==
  LET id == operand.id
      info == g.tensor_infos[id]
      described(shape) == [plan EXCEPT !.tensor_descs = Emplaced(@, id, Describe(info.dtype, shape))]
      io == TaskIO(Len(plan.tasks), operand.io_id)
  IN  CASE info.producer_node # None -> plan
        [] info.producer_node = None /\ info.name \in g.input_names ->
             IF info.name \notin DOMAIN ranges THEN [plan EXCEPT !.threw = "input"]
             ELSE [described(ranges[info.name].max_shape) EXCEPT !.input_infos = WithInput(@, info.name, id, io)]
        [] OTHER ->
             IF \E k \in DOMAIN info.shape : info.shape[k] <= 0 THEN [plan EXCEPT !.threw = "shape"]
             ELSE described(info.shape)

(* (fault) the largest shape an operand can have.                           *)
DescsOf_Largest(descs, ids) ==
  [k \in DOMAIN ids |-> IF ids[k] \in DOMAIN descs
                        THEN Desc(descs[ids[k]].dtype, descs[ids[k]].max_shape) ELSE Floats(<<>>)]

(* What a kernel is given of its operands.                                  *)
DescsOf(descs, ids) ==
  [k \in DOMAIN ids |-> IF ids[k] \in DOMAIN descs
                        THEN Desc(descs[ids[k]].dtype, descs[ids[k]].cur_shape) ELSE Floats(<<>>)]

(* No request is bound yet.                                                 *)
MetaAtPlanning == [is_prefill |-> TRUE, num_requests |-> 0]

(* The kernel describes its outputs, as large as they can be.               *)
Infer(plan, node) ==
  LET inferred == dtype_shape_infer(node.param, DescsOf(plan.tensor_descs, node.input_tensors),
                                    MetaAtPlanning)
      ids == node.output_tensors
      new == [t \in Range(ids) |-> LET out == inferred.outs[CHOOSE k \in DOMAIN ids : ids[k] = t]
                                   IN  Describe(out.dtype, out.cur_shape)]
  IN  IF inferred.threw THEN [plan EXCEPT !.threw = "infer"]
      ELSE [plan EXCEPT !.guessed = @ \cup (Range(node.input_tensors) \ DOMAIN plan.tensor_descs),
                        !.tensor_descs = Updated(@, new)]

BindOutputs(plan, g, node) ==
  LET task_id == Len(plan.tasks)
      Names == {k \in DOMAIN node.output_tensors :
                  g.tensor_infos[node.output_tensors[k]].name \in g.output_names}
      infos == [name \in {g.tensor_infos[node.output_tensors[k]].name : k \in Names} |->
                  LET io_id == CHOOSE k \in Names :
                                 g.tensor_infos[node.output_tensors[k]].name = name
                  IN  [desc_id |-> node.output_tensors[io_id], io |-> TaskIO(task_id, io_id)]]
  IN  [plan EXCEPT !.output_infos = Updated(@, infos)]

bind_descs(plan, g, ranges, node_id) ==
  LET node == g.nodes[node_id]
      operands == [k \in DOMAIN node.input_tensors |-> [id |-> node.input_tensors[k], io_id |-> k]]
      bound == FoldLeft(LAMBDA p, o : IF p.threw # "no" THEN p ELSE BindOperand(p, g, ranges, o),
                        plan, operands)
  IN  IF bound.threw # "no" THEN bound
      ELSE LET inferred == Infer(bound, node)
           IN  IF inferred.threw # "no" THEN inferred ELSE BindOutputs(inferred, g, node)

-----------------------------------------------------------------------------
(* create_cuda_plan                                                         *)

IsRange(range) ==
  /\ Len(range.min_shape) = Len(range.max_shape)
  /\ \A k \in DOMAIN range.min_shape : range.min_shape[k] <= range.max_shape[k]

(* The plan of a graph whose nodes were ordered so.                         *)
PlanInOrder(g, ranges, order) ==
  LET nodes_mapping == [id \in Range(order) |-> CHOOSE i \in DOMAIN order : order[i] = id]
      empty == [NoPlan EXCEPT !.plan_config = ranges, !.tensor_dependence =
                  [t \in DOMAIN g.tensor_infos |-> Len(g.tensor_infos[t].consumer_nodes)]]
      WithTask(p, id) ==
        LET created == create_task(p, g, id, nodes_mapping)
        IN  IF created.threw # "no" THEN created ELSE bind_descs(created, g, ranges, id)
  IN  FoldLeft(LAMBDA p, id : IF p.threw # "no" THEN p ELSE WithTask(p, id), empty, order)

create_cuda_plan(g, ranges) ==
  CASE \E name \in DOMAIN ranges : ~IsRange(ranges[name]) ->
         {[NoPlan EXCEPT !.threw = "range"]}
    [] (\A name \in DOMAIN ranges : IsRange(ranges[name])) /\ TopologicalOrders(g) = {} ->
         {[NoPlan EXCEPT !.threw = "cycle"]}
    [] OTHER -> {PlanInOrder(g, ranges, order) : order \in TopologicalOrders(g)}
=============================================================================
