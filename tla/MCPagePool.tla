----------------------------- MODULE MCPagePool -----------------------------
(* PagePool on four pages and three owners: every way to split and order    *)
(* the pages among the free list and the owners is reached.                 *)
EXTENDS PagePool
=============================================================================
