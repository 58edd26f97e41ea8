--------------------------- MODULE MCRequestSearch ---------------------------
(* Every batch of up to four requests with up to five tokens between them,  *)
(* empty requests included, and every thread of three rows.                 *)
EXTENDS RequestSearch
=============================================================================
