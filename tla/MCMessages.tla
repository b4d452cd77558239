----------------------------- MODULE MCMessages -----------------------------
(* Small instances of Messages for TLC. *)
EXTENDS Messages, TLC

CONSTANTS
    Senders,        \* the requests that send messages,
    OtherOps        \* and what the other requests ask for

MCOps == [r \in Reqs |-> IF r \in Senders THEN {"send"} ELSE OtherOps]

\* Everybody is in every conversation once; one more user is in none.
CONSTANT Stranger
MCMembers == [c \in Convs |-> [u \in Users |-> IF u = Stranger THEN 0 ELSE 1]]

\* Nothing in the specification tells one member, emoji or conversation from
\* another, or one request from another of the same kind.
Symmetry ==
    Permutations(Users \ {Stranger}) \cup Permutations(Emojis)
        \cup Permutations(Convs) \cup Permutations(Senders)
        \cup Permutations(Reqs \ Senders)

=============================================================================
