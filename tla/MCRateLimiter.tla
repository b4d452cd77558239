--------------------------- MODULE MCRateLimiter ---------------------------
(* Small instances of RateLimiter for TLC. *)
EXTENDS RateLimiter, TLC

\* Nothing in the specification tells one call from another.
Symmetry == Permutations(Reqs)

=============================================================================
