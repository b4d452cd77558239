-------------------------- MODULE MCConversations --------------------------
(* Small instances of Conversations for TLC. *)
EXTENDS Conversations, TLC

CONSTANTS
    Creators,       \* the requests that create conversations,
    CreatorOps,     \* how they do,
    OtherOps        \* and what the other requests ask for

MCOps == [r \in Reqs |-> IF r \in Creators THEN CreatorOps ELSE OtherOps]

\* Lists too short, long enough (with repeated ids and with the creator's own)
\* and too long for MaxGroup = 3.
MCMemberLists == UNION {[1..n -> Users] : n \in 1..3}

\* Nothing in the specification tells one user from another, or one request
\* from another of the same kind.
Symmetry ==
    Permutations(Users) \cup Permutations(Creators)
        \cup Permutations(Reqs \ Creators)

=============================================================================
