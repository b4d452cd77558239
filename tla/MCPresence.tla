----------------------------- MODULE MCPresence -----------------------------
(* A small instance of Presence for TLC. *)
EXTENDS Presence, TLC

\* Nothing in the specification tells one user or one call from another.
Symmetry == Permutations(Users) \cup Permutations(Calls)

=============================================================================
