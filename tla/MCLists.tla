------------------------------ MODULE MCLists ------------------------------
(* Small instances of Lists for TLC.  Ids are ordered, so there is no symmetry. *)
EXTENDS Lists

CONSTANTS
    NumMsgs,    \* messages are 1..NumMsgs,
    NumConvs    \* and conversations 1..NumConvs

MCMsgs == 1..NumMsgs
MCConvs == 1..NumConvs
MCEarlier == [c \in MCConvs |-> NumMsgs + c]

=============================================================================
