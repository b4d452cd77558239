----------------------------- MODULE MCRealtime -----------------------------
(* Small instances of Realtime for TLC. *)
EXTENDS Realtime, TLC

CONSTANTS
    Senders,        \* the requests that send messages,
    Seconds,        \* those that do one of SecondOps,
    SecondOps,
    OtherOps,       \* and what the rest ask for
    Stranger,       \* who is in no conversation at first
    Entries         \* how often everybody else is in the list

MCOps == [r \in Reqs |-> IF r \in Senders THEN {"send"}
                         ELSE IF r \in Seconds THEN SecondOps ELSE OtherOps]

MCMembers == [c \in Convs |-> [u \in Users |-> IF u = Stranger THEN 0 ELSE Entries]]

\* Where nobody is a client or a stranger.
Symmetry == Permutations(Users) \cup Permutations(Seconds)

=============================================================================
