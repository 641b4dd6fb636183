----------------------------- MODULE MCPresence -----------------------------
(* Presence on a small instance; the bounds are chosen in the .cfg file. *)
EXTENDS Presence

CONSTANT p1

=============================================================================
