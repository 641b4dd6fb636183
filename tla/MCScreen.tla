------------------------------ MODULE MCScreen ------------------------------
(* Screen with decks of one and of two cards and up to two issues. *)
EXTENDS Screen

=============================================================================
