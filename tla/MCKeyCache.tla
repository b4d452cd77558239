----------------------------- MODULE MCKeyCache -----------------------------
(* A small instance of KeyCache for TLC. *)
EXTENDS KeyCache

=============================================================================
