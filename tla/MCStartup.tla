------------------------------ MODULE MCStartup ------------------------------
(* Startup with two ids, one name, and two peers. *)
EXTENDS Startup

=============================================================================
