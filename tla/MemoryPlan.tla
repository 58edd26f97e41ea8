------------------------------ MODULE MemoryPlan ------------------------------
(***************************************************************************)
(* How CudaRuntime lays out the memory of a plan and executes it            *)
(* (tiny_llm/runtime/cuda/cuda_runtime.cpp).  SizeCalculator walks the      *)
(* tasks once, in topological order, and gives every tensor a block: of the *)
(* dynamic arena, where the blocks of tensors that are not needed any more  *)
(* are used again, or of the static arena, for what must survive from one   *)
(* execution to the next (weights, pinned rope tables, key/value caches).   *)
(* The kernels then run on the baked addresses, every execution.            *)
(*                                                                          *)
(* A task is [ins, weights, outs, inplace, pin, inner]: the tensors it      *)
(* reads, those of them that are initializers apart; those it writes; the   *)
(* position in ins of the one it works in place on, or 0; whether its       *)
(* outputs are pinned; and the buffers private to its kernel, in the order  *)
(* they are allocated, each [name, exclusive, size].                        *)
(***************************************************************************)
EXTENDS GreedyPlanner, FiniteSets, Folds, SequencesExt

CONSTANTS
  EmptyPlan,      \* [tasks, size]: no tasks; the sizes of inputs and weights
  Extensions(_),  \* the plans that continue a plan with one more task
  MaxTasks,       \* bound: the tasks of a plan
  Align,          \* kAlign
  Runs            \* bound: the number of executions

ASSUME PlanAssumption ==
  /\ EmptyPlan.tasks = <<>>
  /\ Align \in Nat \ {0} /\ Runs \in Nat \ {0} /\ MaxTasks \in Nat \ {0}

VARIABLES
  plan,     \* plan_ : tasks in topological order, and the size of every tensor
  layout,   \* SizeCalculator: [relations, dynamic_gmp, static_gmp, inner, threw]
  unplaced, \* inputs calculate_relations has not yet given a block
  cur,      \* the task being laid out or executed; one past the last when done;
            \* 0 before
  stage,    \* how many of the buffers that task writes it has written
  run,      \* the current execution; 0 while the layout is made
  content   \* what device memory holds: values not overwritten since

lvars == <<plan, layout, unplaced, cur, stage, run, content>>

Tasks == plan.tasks
TaskNum == Len(Tasks)
WeightsOf(task) == ToSet(task.weights)

Produced(p) == UNION {ToSet(p.tasks[i].outs) : i \in DOMAIN p.tasks}
InputsOf(p) == (UNION {ToSet(p.tasks[i].ins) : i \in DOMAIN p.tasks}) \ Produced(p)
Weights == UNION {WeightsOf(Tasks[i]) : i \in DOMAIN Tasks}

(* Where x is an operand: <<task, position>>.                               *)
Operands(p, x) ==
  UNION {{<<i, k>> : k \in {m \in DOMAIN p.tasks[i].ins : p.tasks[i].ins[m] = x}} :
           i \in DOMAIN p.tasks}

(* tensor_dependence: once for every operand that is the tensor.            *)
Dependence(p, x) == Cardinality(Operands(p, x))

Consumers(p, x) == {i \in DOMAIN p.tasks : x \in ToSet(p.tasks[i].ins)}

(* The tasks of kernels over tensors T.                                     *)
TasksOver(T) ==
  [ins : Seq(T), weights : Seq(T), outs : Seq(T), inplace : Nat, pin : BOOLEAN,
   inner : Seq([name : STRING, exclusive : BOOLEAN, size : Nat \ {0}])]

(* What create_cuda_plan makes of a graph: every tensor has a size, none is *)
(* empty, and one task at most writes it, before those that read it; weights*)
(* are no task's operands or results; work in place has one result.         *)
IsPlan(p) ==
  /\ p.tasks \in Seq(TasksOver(DOMAIN p.size))
  /\ \A x \in DOMAIN p.size : p.size[x] \in Nat \ {0}
  /\ \A i \in DOMAIN p.tasks :
       /\ p.tasks[i].inplace <= Len(p.tasks[i].ins)
       /\ p.tasks[i].inplace > 0 => Len(p.tasks[i].outs) = 1
       /\ IsInjective(p.tasks[i].outs)
  /\ \A i, j \in DOMAIN p.tasks :
       /\ i # j => ToSet(p.tasks[i].outs) \cap ToSet(p.tasks[j].outs) = {}
       /\ j <= i => ToSet(p.tasks[i].outs) \cap ToSet(p.tasks[j].ins) = {}
       /\ WeightsOf(p.tasks[i]) \cap (ToSet(p.tasks[j].ins) \cup ToSet(p.tasks[j].outs)) = {}

(* What create_cuda_plan asks of its graph, "a valid graph", about work in  *)
(* place (is_valid_nodes): an operand that is overwritten has one consumer. *)
Valid(p) ==
  \A i \in DOMAIN p.tasks :
    p.tasks[i].inplace > 0 => Consumers(p, p.tasks[i].ins[p.tasks[i].inplace]) = {i}

-----------------------------------------------------------------------------
(* The layout.                                                              *)

Relation(dependence, v_block, exclusive) ==
  [dependence |-> dependence, v_block |-> v_block, exclusive |-> exclusive]

EmptyLayout(p) ==
  [relations |-> [x \in DOMAIN p.size |-> Relation(0, VirtualBlock(0, 0), FALSE)],
   dynamic_gmp |-> EmptyPlanner, static_gmp |-> EmptyPlanner,
   inner |-> [i \in DOMAIN p.tasks |-> <<>>], threw |-> FALSE]

(* The tensors of S are placed: their uses are counted.                     *)
Counted(l, S) ==
  [l EXCEPT !.relations =
     [x \in DOMAIN l.relations |->
        IF x \in S THEN Relation(Dependence(plan, x), l.relations[x].v_block, l.relations[x].exclusive)
        ELSE l.relations[x]]]

(* set_v_block, for a tensor that gets a block of its own.                  *)
WithBlock(l, x) ==
  [l EXCEPT !.relations[x] = Relation(l.relations[x].dependence,
                                      Allocated(l.dynamic_gmp, plan.size[x], Align), FALSE),
            !.dynamic_gmp = AfterAllocate(l.dynamic_gmp, plan.size[x], Align)]

(* (fault) the operand keeps its claim on the block its result inherits.    *)
Inheriting_BothOwn(l, from, to) ==
  IF l.relations[from].exclusive THEN [l EXCEPT !.threw = TRUE]
  ELSE [l EXCEPT !.relations[to] =
          Relation(l.relations[to].dependence, l.relations[from].v_block, FALSE)]

(* set_v_block, for the result of an operation in place.                    *)
Inheriting(l, from, to) ==
  IF l.relations[from].exclusive THEN [l EXCEPT !.threw = TRUE]
  ELSE [l EXCEPT !.relations[from] = Relation(0, l.relations[from].v_block, FALSE),
                 !.relations[to] =
                    Relation(l.relations[to].dependence, l.relations[from].v_block, FALSE)]

(* (fault) what must survive an execution is not marked exclusive.          *)
AssignedInitializer_Shared(l, x) ==
  [l EXCEPT !.relations[x] =
              Relation(0, Allocated(l.static_gmp, plan.size[x], Align), FALSE),
            !.static_gmp = AfterAllocate(l.static_gmp, plan.size[x], Align)]

(* assign_initializer                                                       *)
AssignedInitializer(l, x) ==
  [l EXCEPT !.relations[x] =
              Relation(0, Allocated(l.static_gmp, plan.size[x], Align), TRUE),
            !.static_gmp = AfterAllocate(l.static_gmp, plan.size[x], Align)]

(* A private buffer of the kernel of task i, added to its inner_relations.  *)
WithInner(l, i, buffer) ==
  LET gmp == IF buffer.exclusive THEN l.static_gmp ELSE l.dynamic_gmp
      placed == [name |-> buffer.name, exclusive |-> buffer.exclusive,
                 v_block |-> Allocated(gmp, buffer.size, Align)]
      after == AfterAllocate(gmp, buffer.size, Align)
  IN  IF buffer.exclusive
        THEN [l EXCEPT !.inner[i] = Append(l.inner[i], placed), !.static_gmp = after]
        ELSE [l EXCEPT !.inner[i] = Append(l.inner[i], placed), !.dynamic_gmp = after]

(* The buffers of task i, in order.                                         *)
InnerPlaced(l, i) ==
  FoldLeft(LAMBDA m, buffer : WithInner(m, i, buffer), l, Tasks[i].inner)

(* The dynamic arena takes a block back; the check in deallocate throws.    *)
GivenBack(l, b) ==
  IF Refused(l.dynamic_gmp, b) THEN [l EXCEPT !.threw = TRUE]
  ELSE [l EXCEPT !.dynamic_gmp = AfterDeallocate(l.dynamic_gmp, b)]

(* (fault) only the first of the kernel's dynamic buffers is given back.    *)
InnerReturned_FirstOnly(l, i) == GivenBack(l, l.inner[i][1].v_block)

(* The dynamic ones among them are given back once all are allocated.       *)
InnerReturned(l, i) ==
  FoldLeft(LAMBDA m, buffer : IF buffer.exclusive THEN m ELSE GivenBack(m, buffer.v_block),
           l, l.inner[i])

Used(l, x) ==
  LET relation == l.relations[x]
      counted == [l EXCEPT !.relations[x] =
                    Relation(relation.dependence - 1, relation.v_block, relation.exclusive)]
  IN  IF relation.dependence = 0 THEN l
      ELSE IF relation.dependence = 1 /\ ~relation.exclusive
             THEN GivenBack(counted, relation.v_block)
           ELSE counted

-----------------------------------------------------------------------------
(* The operator() of SizeCalculator for the kernel of task i.               *)
Visited(l, i) ==
  LET task == Tasks[i]
      weighted == FoldLeft(AssignedInitializer, l, task.weights)
      placed == IF task.pin THEN FoldLeft(AssignedInitializer, weighted, task.outs)
                ELSE IF task.inplace > 0
                  THEN Inheriting(weighted, task.ins[task.inplace], task.outs[1])
                  ELSE FoldLeft(WithBlock, weighted, task.outs)
  IN  IF task.inner = <<>> THEN placed ELSE InnerReturned(InnerPlaced(placed, i), i)

LInit ==
  /\ plan = EmptyPlan
  /\ layout = EmptyLayout(plan)
  /\ unplaced = {}
  /\ cur = 0 /\ stage = 0 /\ run = 0
  /\ content = {}

(* create_cuda_plan appends the tasks.                                      *)
AddTask ==
  /\ run = 0 /\ cur = 0 /\ TaskNum < MaxTasks
  /\ plan' \in {p \in Extensions(plan) : IsPlan(p) /\ Valid(p)}
  /\ UNCHANGED <<layout, unplaced, cur, stage, run, content>>

(* The constructor of SizeCalculator.                                       *)
StartLayout ==
  /\ run = 0 /\ cur = 0 /\ TaskNum > 0
  /\ layout' = EmptyLayout(plan)
  /\ unplaced' = InputsOf(plan)
  /\ cur' = 1
  /\ UNCHANGED <<plan, stage, run, content>>

(* The inputs come first, in the order of the unordered map input_infos.    *)
PlaceInput(x) ==
  /\ x \in unplaced
  /\ layout' = WithBlock(Counted(layout, {x}), x)
  /\ unplaced' = unplaced \ {x}
  /\ UNCHANGED <<plan, cur, stage, run, content>>

(* One turn of the loop of calculate_relations over the tasks.              *)
LayOutTask ==
  /\ run = 0 /\ unplaced = {} /\ cur \in 1 .. TaskNum /\ ~layout.threw
  /\ layout' = FoldLeft(Used, Visited(Counted(layout, ToSet(Tasks[cur].outs)), cur), Tasks[cur].ins)
  /\ cur' = cur + 1
  /\ UNCHANGED <<plan, unplaced, stage, run, content>>

-----------------------------------------------------------------------------
(* Execution.  A value is [name, owner, exclusive, v_block, run]: a tensor  *)
(* (owner 0) or a private buffer of task owner, where it lies, and the      *)
(* execution that wrote it.                                                 *)

Overwritten(c, v) == c.exclusive = v.exclusive /\ Overlap(c.v_block, v.v_block)
Written(held, v) == {c \in held : ~Overwritten(c, v)} \cup {v}

TensorValue(x, when) ==
  [name |-> x, owner |-> 0, exclusive |-> layout.relations[x].exclusive,
   v_block |-> layout.relations[x].v_block, run |-> when]
InnerValue(i, k, when) ==
  [name |-> layout.inner[i][k].name, owner |-> i,
   exclusive |-> layout.inner[i][k].exclusive,
   v_block |-> layout.inner[i][k].v_block, run |-> when]

(* The tensors of a sequence are written, one after the other.              *)
AllWritten(held, s, when) ==
  FoldLeft(LAMBDA m, x : Written(m, TensorValue(x, when)), held, s)

(* What was written where v lies is still there: for an exclusive block,    *)
(* whichever execution wrote it.                                            *)
Intact(v) ==
  \E c \in content :
    /\ c.name = v.name /\ c.owner = v.owner
    /\ c.exclusive = v.exclusive /\ c.v_block = v.v_block
    /\ c.exclusive \/ c.run = v.run

(* The weights of a task are copied.                                        *)
TaskAssigned(held, task) == AllWritten(held, task.weights, 0)

(* WeightAssigner copies every initializer to where it was placed.          *)
AssignWeights ==
  /\ run = 0 /\ cur = TaskNum + 1 /\ ~layout.threw
  /\ content' = FoldLeft(TaskAssigned, content, Tasks)
  /\ run' = 1 /\ cur' = 0
  /\ UNCHANGED <<plan, layout, unplaced, stage>>

(* cpu_tensor_copy_to_input, for every input, before each execution.        *)
CopyInputs ==
  /\ run > 0 /\ cur = 0
  /\ content' = AllWritten(content, SetToSeq(InputsOf(plan)), run)
  /\ cur' = 1 /\ stage' = 0
  /\ UNCHANGED <<plan, layout, unplaced, run>>

Stages(i) == Len(Tasks[i].inner) + 1

(* RopeKernel::execute returns at once when its tables are already there.   *)
Skips(task) == task.pin /\ run > 1

(* The kernel fills its private buffers one after the other ...             *)
FillInner ==
  /\ run > 0 /\ cur \in 1 .. TaskNum /\ stage < Stages(cur) - 1
  /\ stage' = stage + 1
  /\ content' = Written(content, InnerValue(cur, stage + 1, run))
  /\ UNCHANGED <<plan, layout, unplaced, cur, run>>

(* ... then its outputs, while it may still be reading its operands.        *)
WriteOutputs ==
  /\ run > 0 /\ cur \in 1 .. TaskNum /\ stage = Stages(cur) - 1
  /\ stage' = stage + 1
  /\ content' = IF Skips(Tasks[cur]) THEN content
                ELSE AllWritten(content, Tasks[cur].outs, run)
  /\ UNCHANGED <<plan, layout, unplaced, cur, run>>

NextTask ==
  /\ run > 0 /\ cur \in 1 .. TaskNum /\ stage = Stages(cur)
  /\ cur' = cur + 1 /\ stage' = 0
  /\ UNCHANGED <<plan, layout, unplaced, run, content>>

(* The outputs have been copied out; the next execution may begin.          *)
NextRun ==
  /\ run \in 1 .. Runs - 1 /\ cur = TaskNum + 1
  /\ run' = run + 1 /\ cur' = 0
  /\ UNCHANGED <<plan, layout, unplaced, stage, content>>

LNext ==
  \/ AddTask \/ StartLayout
  \/ \E x \in unplaced : PlaceInput(x)
  \/ LayOutTask \/ AssignWeights
  \/ CopyInputs \/ FillInner \/ WriteOutputs \/ NextTask \/ NextRun

LSpec == LInit /\ [][LNext]_lvars

-----------------------------------------------------------------------------
(* From its launch to its last write, a kernel finds every operand, weight  *)
(* and private buffer as it was last written, in every execution: reusing   *)
(* memory is invisible to it.  The operand it works in place on is its own  *)
(* to overwrite.                                                            *)
OperandsIntact ==
  (run > 0 /\ cur \in 1 .. TaskNum) =>
    LET task == Tasks[cur]
    IN  /\ \A k \in DOMAIN task.ins :
             \/ stage = Stages(cur) /\ task.inplace > 0
                  /\ task.ins[k] = task.ins[task.inplace]
             \/ Intact(TensorValue(task.ins[k], run))
        /\ \A w \in WeightsOf(task) : Intact(TensorValue(w, 0))
        /\ \A k \in DOMAIN task.inner :
             (k <= stage \/ (task.inner[k].exclusive /\ run > 1))
               => Intact(InnerValue(cur, k, run))

(* When an execution has ended, every tensor nobody consumed, so every      *)
(* output of the graph, holds what that execution computed.                 *)
OutputsIntact ==
  (run > 0 /\ cur = TaskNum + 1) =>
    \A x \in Produced(plan) : Consumers(plan, x) = {} => Intact(TensorValue(x, run))

(* When the layout is made, the dynamic arena has every block back but      *)
(* those of the tensors nobody consumes.                                    *)
BlocksReturned ==
  (cur = TaskNum + 1 /\ ~layout.threw) =>
    LET gmp == layout.dynamic_gmp
        kept == {x \in Produced(plan) :
                   Consumers(plan, x) = {} /\ ~layout.relations[x].exclusive}
        free == UNION {Bytes(gmp.v_blocks[i]) : i \in DOMAIN gmp.v_blocks}
    IN  (0 .. gmp.total_size - 1) \ free =
          UNION {Bytes(layout.relations[x].v_block) : x \in kept}

(* Laying out a valid graph throws for one reason only: an operation works  *)
(* in place on a pinned tensor.  The allocator's own checks never fail.     *)
ThrowsOnPinnedOnly ==
  layout.threw =>
    \E i \in DOMAIN Tasks, j \in DOMAIN Tasks :
      /\ Tasks[i].inplace > 0 /\ Tasks[j].pin
      /\ Tasks[i].ins[Tasks[i].inplace] \in ToSet(Tasks[j].outs)
=============================================================================
