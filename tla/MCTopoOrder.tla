----------------------------- MODULE MCTopoOrder -----------------------------
(* Every graph of four nodes with up to two consumers each, in any order,   *)
(* the same consumer twice included: diamonds, shared consumers, self-loops *)
(* and cycles through any of the nodes.                                     *)
EXTENDS TopoOrder

MCLists == {<<>>} \cup {<<n>> : n \in Nodes} \cup (Nodes \X Nodes)
=============================================================================
