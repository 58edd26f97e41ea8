------------------------------ MODULE TopoOrder ------------------------------
(***************************************************************************)
(* topological_order (tiny_llm/runtime/cuda/cuda_plan.cpp): the order in    *)
(* which a graph's nodes become the tasks of a plan.  It is a depth-first   *)
(* search with a stack of its own, on which a node may be several times:    *)
(* the consumers of a node's outputs are pushed when they are white, and a  *)
(* white node that is on the stack already is pushed again.                 *)
(***************************************************************************)
EXTENDS Naturals, SequencesExt

CONSTANTS
  NodeNum,  \* graph.nodes.size()
  Lists     \* bound: the lists of consumers a node's outputs may have

Nodes == 0 .. NodeNum - 1

ASSUME TopoAssumption ==
  /\ NodeNum \in Nat
  /\ Lists \subseteq Seq(Nodes)

VARIABLES
  consumers,  \* for each node, the consumer_nodes of its outputs, in order
  status,     \* "white", "gray" or "black"
  stack,      \* the top is the last element
  id,         \* the node the outer loop is at
  node_id,    \* the node whose consumers are looked at
  seen,       \* how many of them have been
  res,        \* the result: finished nodes, then their reverse
  pc          \* "search", "scan" (in the loop over consumers), "done" or "threw"

graphVars == <<consumers, id>>
scanVars == <<node_id, seen>>
vars == <<graphVars, status, stack, scanVars, res, pc>>

Init ==
  /\ consumers \in [Nodes -> Lists]
  /\ status = [n \in Nodes |-> "white"]
  /\ stack = <<>>
  /\ id = 0 /\ node_id = 0 /\ seen = 0
  /\ res = <<>>
  /\ pc = "search"

-----------------------------------------------------------------------------
(* The outer loop.                                                          *)

StartAt ==
  /\ pc = "search" /\ stack = <<>> /\ id < NodeNum
  /\ status[id] = "white"
  /\ stack' = <<id>>
  /\ UNCHANGED <<graphVars, status, scanVars, res, pc>>

PassBy ==
  /\ pc = "search" /\ stack = <<>> /\ id < NodeNum
  /\ status[id] # "white"
  /\ id' = id + 1
  /\ UNCHANGED <<consumers, status, stack, scanVars, res, pc>>

Return ==
  /\ pc = "search" /\ stack = <<>> /\ id = NodeNum
  /\ res' = Reverse(res)
  /\ pc' = "done"
  /\ UNCHANGED <<graphVars, status, stack, scanVars>>

-----------------------------------------------------------------------------
(* The inner loop, by the status of the node on top.                        *)

Top == stack[Len(stack)]
At(colour) == pc = "search" /\ stack # <<>> /\ status[Top] = colour
Pop == stack' = SubSeq(stack, 1, Len(stack) - 1)

Enter ==
  /\ At("white")
  /\ status' = [status EXCEPT ![Top] = "gray"]
  /\ node_id' = Top /\ seen' = 0
  /\ pc' = "scan"
  /\ UNCHANGED <<graphVars, stack, res>>

Finish ==
  /\ At("gray")
  /\ status' = [status EXCEPT ![Top] = "black"]
  /\ res' = Append(res, Top)
  /\ Pop
  /\ UNCHANGED <<graphVars, scanVars, pc>>

(* (fault) a node that has been finished stays on the stack.                *)
PopDuplicate_Kept == UNCHANGED stack

PopDuplicate == Pop

(* The node was pushed more than once and has been finished higher up.      *)
Duplicate ==
  /\ At("black")
  /\ PopDuplicate
  /\ UNCHANGED <<graphVars, status, scanVars, res, pc>>

-----------------------------------------------------------------------------
(* The loop over the consumers of node_id.                                  *)

Scanning == pc = "scan" /\ seen < Len(consumers[node_id])
Consumer == consumers[node_id][seen + 1]

(* (fault) a node that is on the stack already is not pushed again.         *)
ToVisit_OnceOnStack == status[Consumer] = "white" /\ Consumer \notin Range(stack)

ToVisit == status[Consumer] = "white"

(* (fault) a node that was entered before is taken for a cycle.             *)
ClosesCycle_AnyEntered == status[Consumer] # "white"

(* The search is inside the consumer.                                       *)
ClosesCycle == status[Consumer] = "gray"

Push ==
  /\ Scanning /\ ToVisit
  /\ stack' = Append(stack, Consumer)
  /\ seen' = seen + 1
  /\ UNCHANGED <<graphVars, status, node_id, res, pc>>

Throw ==
  /\ Scanning /\ ClosesCycle
  /\ pc' = "threw"
  /\ UNCHANGED <<graphVars, status, stack, scanVars, res>>

SkipOver ==
  /\ Scanning /\ ~ToVisit /\ ~ClosesCycle
  /\ seen' = seen + 1
  /\ UNCHANGED <<graphVars, status, stack, node_id, res, pc>>

Scanned ==
  /\ pc = "scan" /\ seen = Len(consumers[node_id])
  /\ pc' = "search"
  /\ UNCHANGED <<graphVars, status, stack, scanVars, res>>

Next ==
  \/ StartAt \/ PassBy \/ Return
  \/ Enter \/ Finish \/ Duplicate
  \/ Push \/ Throw \/ SkipOver \/ Scanned

(* The function is sequential and goes on until it returns or throws.       *)
Spec == Init /\ [][Next]_vars /\ WF_vars(Next)

-----------------------------------------------------------------------------
(* A topological order: every node once, each before its consumers.         *)
IsTopological(order) ==
  /\ IsInjective(order) /\ Range(order) = Nodes
  /\ \A i, j \in DOMAIN order : order[j] \in Range(consumers[order[i]]) => i < j

(* What is returned is a topological order of the graph, so nothing is      *)
(* returned for a graph with a cycle.                                       *)
OrderIsTopological == pc = "done" => IsTopological(res)

(* Nodes that have a cycle among them: each has a consumer that is one.     *)
Cyclic == \E S \in SUBSET Nodes : S # {} /\ \A n \in S : Range(consumers[n]) \cap S # {}

(* No acyclic graph is refused: a node met again on another path, or twice  *)
(* among the consumers of one node, is not taken for a cycle.               *)
ThrowsOnlyOnCycle == pc = "threw" => Cyclic

(* The search ends, although nodes are pushed again and again.              *)
Ends == <>(pc \in {"done", "threw"})
=============================================================================
