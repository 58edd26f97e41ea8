------------------------------ MODULE GraphPlan ------------------------------
(***************************************************************************)
(* The life of a graph: it is built by calls of add_tensor and add_node in  *)
(* any order, or by llama_parser; inputs and outputs are named; it may be   *)
(* optimised; and a plan is created of it.  Calls that throw leave the      *)
(* graph as they found it or half changed, and the client may go on.        *)
(***************************************************************************)
EXTENDS CudaPlan, LlamaParser

CONSTANTS
  TensorNames,
  NodeNames(_),  \* bound: the names a client may give the next node
  Params(_),     \* bound: the operations it may have
  Shapes(_),     \* bound: the types and shapes a client may declare next
  MaxDeclared,   \* bound: the tensors it declares
  InputSets(_), OutputSets(_),  \* bound: the inputs and outputs it names
  Ranges(_),     \* bound: the configurations a plan is created with
  LlamaConfigs   \* bound: the models that are parsed

ASSUME GraphPlanAssumption ==
  \A config \in LlamaConfigs : config.num_hidden_layers \in Nat

VARIABLES
  graph,
  plan     \* NoPlan until one is created

gvars == <<graph, plan>>

GInit == graph = EmptyGraph /\ plan = NoPlan

(* What a call left is the graph now, whether it threw or not.              *)
Becomes(outcome) == graph' = outcome.graph /\ UNCHANGED plan

Declared(g) == {id \in Ids(g.tensor_infos) : g.tensor_infos[id].has_explicit_added}
Parsed(g) == lm_head \in DOMAIN g.node_name_to_idx

(* Bound: a client names inputs and outputs once the graph is built.        *)
Building == graph.input_names = {} /\ graph.output_names = {} /\ plan = NoPlan
Naming == plan = NoPlan /\ graph.nodes # <<>> /\ ~Parsed(graph)

AddTensor(name, dtype, shape) ==
  /\ Building /\ Cardinality(Declared(graph)) < MaxDeclared
  /\ Becomes(add_tensor(graph, name, dtype, shape))

AddNode(name, param, inputs, outputs) ==
  /\ Building
  /\ Becomes(add_node(graph, name, inputs, outputs, param))

SetInputNames(names) == Naming /\ graph.input_names = {} /\ Becomes(set_input_names(graph, names))
SetOutputNames(names) == Naming /\ graph.output_names = {} /\ Becomes(set_output_names(graph, names))

(* A pipeline starts with a model.                                          *)
Parse(config, paged) ==
  /\ graph = EmptyGraph
  /\ Becomes(llama_parser(config, paged))

(* DCEPass::run asks for an output: retain_nodes.back() of nothing is       *)
(* undefined.                                                               *)
Optimize ==
  /\ plan = NoPlan /\ graph.output_names # {}
  /\ Becomes(RunDCE(graph))

CreatePlan(ranges) ==
  /\ plan = NoPlan /\ graph.nodes # <<>>
  /\ plan' \in create_cuda_plan(graph, ranges)
  /\ UNCHANGED graph

(* As many names as the operation takes, of inputs or of outputs.           *)
Operands(num) == [1 .. num -> TensorNames]

GNext ==
  \/ \E name \in TensorNames, desc \in Shapes(graph) :
       AddTensor(name, desc.dtype, desc.cur_shape)
  \/ \E name \in NodeNames(graph), param \in Params(graph) :
       \E inputs \in Operands(input_num(param)), outputs \in Operands(output_num(param)) :
         AddNode(name, param, inputs, outputs)
  \/ \E names \in InputSets(graph) : SetInputNames(names)
  \/ \E names \in OutputSets(graph) : SetOutputNames(names)
  \/ \E config \in LlamaConfigs, paged \in BOOLEAN : Parse(config, paged)
  \/ Optimize
  \/ \E ranges \in Ranges(graph) : CreatePlan(ranges)

GSpec == GInit /\ [][GNext]_gvars

-----------------------------------------------------------------------------
Occurrences(seq, x) == Cardinality({k \in DOMAIN seq : seq[k] = x})

(* The two ways a graph is kept agree after every call, one that threw      *)
(* half-way and the renumbering of DCEPass included: names and ids are one  *)
(* to one, a tensor lists a consumer once for every operand that is the     *)
(* tensor, its producer is the one node that writes it, and the outputs     *)
(* named exist.                                                             *)
CrossReferenced ==
  LET nodes == graph.nodes
      infos == graph.tensor_infos
  IN  /\ DOMAIN graph.tensor_name_to_idx = {infos[t].name : t \in DOMAIN infos}
      /\ DOMAIN graph.node_name_to_idx = {nodes[n].name : n \in DOMAIN nodes}
      /\ \A t \in DOMAIN infos : graph.tensor_name_to_idx[infos[t].name] = t
      /\ \A n \in DOMAIN nodes : graph.node_name_to_idx[nodes[n].name] = n
      /\ \A n \in DOMAIN nodes : TouchedBy(nodes[n]) \subseteq DOMAIN infos
      /\ \A t \in DOMAIN infos :
           /\ Range(infos[t].consumer_nodes) \subseteq DOMAIN nodes
           /\ \A n \in DOMAIN nodes :
                /\ Occurrences(infos[t].consumer_nodes, n) = Occurrences(nodes[n].input_tensors, t)
                /\ Occurrences(nodes[n].output_tensors, t)
                     = (IF infos[t].producer_node = n THEN 1 ELSE 0)
      /\ graph.input_names \cup graph.output_names \subseteq DOMAIN graph.tensor_name_to_idx

(* What a tensor is computed from, as a term: the nodes it takes, by name,  *)
(* down to the inputs, or to the given depth when there is a cycle.         *)
Term(g, t, depth) ==
  LET term[d \in 0 .. depth] ==
        [u \in DOMAIN g.tensor_infos |->
           LET producer == g.tensor_infos[u].producer_node
               node == g.nodes[producer]
           IN  IF producer = None \/ d = 0 THEN <<g.tensor_infos[u].name, 0, <<>>>>
               ELSE <<node.name, CHOOSE k \in DOMAIN node.output_tensors : node.output_tensors[k] = u,
                      [k \in DOMAIN node.input_tensors |-> term[d - 1][node.input_tensors[k]]]>>]
  IN  term[depth][t]

Meaning(g, name, depth) == Term(g, g.tensor_name_to_idx[name], depth)

(* The nodes that term takes.                                               *)
NodesIn(g, t, depth) ==
  LET nodes[d \in 0 .. depth] ==
        [u \in DOMAIN g.tensor_infos |->
           LET producer == g.tensor_infos[u].producer_node
           IN  IF producer = None \/ d = 0 THEN {}
               ELSE {g.nodes[producer].name} \cup
                      UNION {nodes[d - 1][v] : v \in Range(g.nodes[producer].input_tensors)}]
  IN  nodes[depth][t]

(* Removing dead code changes no output: each is computed from the same     *)
(* nodes and inputs as before, every node that is left is needed by some    *)
(* output, and a graph that was valid still is.                             *)
DCEKeepsMeaning ==
  [][(Optimize /\ ~RunDCE(graph).threw) =>
       LET depth == Len(graph.nodes)
       IN  /\ \A name \in graph.output_names :
                Meaning(graph', name, depth) = Meaning(graph, name, depth)
           /\ DOMAIN graph'.node_name_to_idx \subseteq
                UNION {NodesIn(graph, graph.tensor_name_to_idx[name], depth) : name \in graph.output_names}
           /\ is_valid(graph) => is_valid(graph')]_gvars

-----------------------------------------------------------------------------
Planned == plan.tasks # <<>> /\ plan.threw = "no"

OperandIs(id) ==
  {io \in [task_id : DOMAIN plan.tasks, io_id : 1 .. 16] :
     /\ io.io_id \in DOMAIN plan.tasks[io.task_id].input_descs
     /\ plan.tasks[io.task_id].input_descs[io.io_id] = id}

(* The tasks of a plan can be executed in their order: no kernel derived    *)
(* its shapes from a tensor that was not described yet, whatever order was  *)
(* chosen; a task's predecessors come before it and its successors after,   *)
(* and the two agree; and every operand that is an input of the graph is    *)
(* recorded, so that its data gets there.                                   *)
PlanSound ==
  Planned =>
    /\ {plan.tasks[i].name : i \in DOMAIN plan.tasks} = DOMAIN graph.node_name_to_idx
    /\ Len(plan.tasks) = Len(graph.nodes)
    /\ plan.guessed = {}
    /\ \A i, j \in DOMAIN plan.tasks :
         /\ j \in plan.tasks[i].predecessors <=> i \in plan.tasks[j].successors
         /\ j \in plan.tasks[i].predecessors => j < i
         /\ j \in plan.tasks[i].predecessors <=>
              Range(plan.tasks[j].output_descs) \cap Range(plan.tasks[i].input_descs) # {}
    /\ \A name \in DOMAIN plan.input_infos :
         LET ios == plan.input_infos[name].ios
         IN  IsInjective(ios) /\ Range(ios) = OperandIs(plan.input_infos[name].desc_id)
    /\ \A t \in DOMAIN plan.tensor_dependence :
         plan.tensor_dependence[t] = Cardinality(OperandIs(t))

(* What the memory layout takes for granted of the plan of a valid graph:   *)
(* every input named was found and every output is written by the task      *)
(* recorded for it, no task reads an output of the graph, whose block would *)
(* be used again before it is copied out, and no other task reads a tensor  *)
(* that is overwritten.                                                     *)
ValidGraphPlan ==
  (Planned /\ is_valid(graph)) =>
    /\ DOMAIN plan.input_infos = graph.input_names
    /\ DOMAIN plan.output_infos = graph.output_names
    /\ \A name \in graph.output_names :
         LET info == plan.output_infos[name]
         IN  /\ plan.tasks[info.io.task_id].output_descs[info.io.io_id] = info.desc_id
             /\ info.desc_id = graph.tensor_name_to_idx[name]
             /\ OperandIs(info.desc_id) = {}
    /\ \A i \in DOMAIN plan.tasks, k \in 0 .. 1 :
         k \in get_inplace_input_ids(plan.tasks[i].param) =>
           {io.task_id : io \in OperandIs(plan.tasks[i].input_descs[k + 1])} = {i}

(* The graph of a model is valid, has no dead code, and can be planned in   *)
(* every order there is once its two inputs are configured, unless the      *)
(* heads do not divide the hidden state: the shapes of its weights are what *)
(* the kernels ask for.  The weights are where the kernels look for them,   *)
(* so none is an operand of Add, Mul or of an operation in place, which     *)
(* would leave it without a block; and no operation works in place on a     *)
(* pinned table, which would make the layout throw.                         *)
HeadsDivide(g) ==
  LET size == g.nodes[g.node_name_to_idx[embed_tokens]].param.dims.hidden_size
  IN  \A n \in Ids(g.nodes) : LET param == g.nodes[n].param
                             IN  param.kind = "CausalAttention" => q_dim(param.dims) = size

ModelGraph ==
  Parsed(graph) =>
    /\ is_valid(graph) /\ RunDCE(graph) = Returned(graph)
    /\ plan.threw \in {"no", "range", "input"} \/ (plan.threw = "infer" /\ ~HeadsDivide(graph))
    /\ \A n \in Ids(graph.nodes) :
         LET node == graph.nodes[n]
             Producer(k) == graph.tensor_infos[node.input_tensors[k]].producer_node
             Initializer(k) == Producer(k) = None
               /\ graph.tensor_infos[node.input_tensors[k]].name \notin graph.input_names
         IN  /\ \A k \in DOMAIN node.input_tensors :
                  Initializer(k) <=> k > extern_input_num(node.param)
             /\ \A k \in get_inplace_input_ids(node.param) :
                  ~graph.nodes[Producer(k + 1)].param.pin
=============================================================================
