----------------------------- MODULE MCConsumer -----------------------------
(* Small instances of Consumer for TLC. *)
EXTENDS Consumer

CONSTANT Fronts     \* the processes that are given requests

MCMaxInFlight == [p \in Procs |-> IF p \in Fronts THEN 1 ELSE 0]

=============================================================================
