------------------------- MODULE DirectChatRegistry -------------------------
(***************************************************************************)
(* What CreateDirectChat promises, without a word about how: every pair of *)
(* users has at most one chat, a chat once published stays the pair's chat *)
(* for ever, and a request is answered with the pair's published chat or   *)
(* with none.  Each pair is a register that is written once.               *)
(***************************************************************************)
CONSTANTS
    Pairs,      \* the pairs of users
    Ids,        \* conversation ids
    Callers,    \* requests
    None        \* no conversation

VARIABLES
    chat,       \* pair -> its published chat, or None
    answer      \* request -> the chat it was answered with, or None

vars == <<chat, answer>>

Init ==
    /\ chat = [p \in Pairs |-> None]
    /\ answer = [r \in Callers |-> None]

\* A pair that has no chat gets one.
Publish(p, c) ==
    /\ chat[p] = None
    /\ chat' = [chat EXCEPT ![p] = c]
    /\ UNCHANGED answer

\* A request about pair p learns the chat of p.
Answer(r, p) ==
    /\ chat[p] # None
    /\ answer[r] = None
    /\ answer' = [answer EXCEPT ![r] = chat[p]]
    /\ UNCHANGED chat

Next ==
    \/ \E p \in Pairs, c \in Ids : Publish(p, c)
    \/ \E r \in Callers, p \in Pairs : Answer(r, p)

Spec == Init /\ [][Next]_vars

=============================================================================
