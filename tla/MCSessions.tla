----------------------------- MODULE MCSessions -----------------------------
(* Sessions with two kinds of routines. *)
EXTENDS Sessions

=============================================================================
