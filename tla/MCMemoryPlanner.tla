--------------------------- MODULE MCMemoryPlanner ---------------------------
(* MemoryPlanner on an arena of nine bytes: blocks of one to four bytes,    *)
(* aligned to one, two or three, so padding, splits on both sides and       *)
(* merges on both sides all happen.                                         *)
EXTENDS MemoryPlanner
=============================================================================
