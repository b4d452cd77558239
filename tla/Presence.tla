------------------------------ MODULE Presence ------------------------------
(***************************************************************************)
(* PresenceStore: who is online, a sorted set scored by the time of the    *)
(* last sign of life, which a goroutine of the process cleans up; and who  *)
(* is typing in a conversation, a sorted set with a lifetime.              *)
(*                                                                         *)
(* One action is one Redis command.  The times that become scores and      *)
(* cutoffs are read before the command is sent, and a command takes effect *)
(* at most MaxDelay later.  IsOnline and GetOnlineUsers only read.  The    *)
(* "typing" event that HandleTyping ends with is left out: nothing that is *)
(* stored depends on it.  No handler of this repository calls SetOnline or *)
(* SetOffline yet: their callers are those of port.PresenceStore.          *)
(***************************************************************************)
EXTENDS Integers

CONSTANTS
    Users,
    Calls,          \* the calls, each of which runs once
    StaleCutoff,    \* staleCutoff (5 minutes in the code)
    CleanupPeriod,  \* the ticker of Application.Start (30 seconds)
    TypingTTL,      \* typingTTL (10 seconds)
    MaxDelay,       \* from reading the clock to the effect in Redis
    MaxTime         \* how long time runs

ASSUME TimesAssumption ==
    /\ StaleCutoff \in Nat \ {0} /\ CleanupPeriod \in Nat \ {0}
    /\ TypingTTL \in Nat \ {0} /\ MaxDelay \in Nat /\ MaxTime \in Nat
    /\ MaxDelay < CleanupPeriod /\ MaxDelay < StaleCutoff

None == -1          \* no score, no expiry, nothing pending

VARIABLES
    now,
    presence,       \* chat:presence: the score of each user, or None
    typing,         \* chat:typing:<conversation>: its members; {} is no key
    expiry,         \* when that key expires, or None
    pc, op, user,   \* where each call is, what it is and of whom
    stamp,          \* the time it read
    due,            \* when the ticker fires next
    sent,           \* the time read by a clean-up on its way, or None
    \* History variables, which no action reads:
    signed,         \* the newest time a user was signed on with since going off
    misses,         \* clean-ups that failed since the last that did not
    unbounded       \* an EXPIRE was lost since the typing key was made

redis == <<presence, typing, expiry>>
cleaner == <<due, sent, misses>>
vars == <<now, presence, typing, expiry, pc, op, user, stamp, due, sent,
          signed, misses, unbounded>>

Ops == {"online", "offline", "typing", "clear"}

PCs == {"idle", "command", "expire", "done"}

Init ==
    /\ now = 0
    /\ presence = [u \in Users |-> None]
    /\ typing = {}
    /\ expiry = None
    /\ pc = [k \in Calls |-> "idle"]
    /\ op = [k \in Calls |-> "none"]
    /\ user = [k \in Calls |-> None]
    /\ stamp = [k \in Calls |-> None]
    /\ due \in 1..CleanupPeriod
    /\ sent = None
    /\ signed = [u \in Users |-> None]
    /\ misses = 0
    /\ unbounded = FALSE

\* The call has ended; what it was is forgotten.
Finish(k) ==
    /\ pc' = [pc EXCEPT ![k] = "done"]
    /\ op' = [op EXCEPT ![k] = "none"]
    /\ user' = [user EXCEPT ![k] = None]
    /\ stamp' = [stamp EXCEPT ![k] = None]

\* A call reads the clock and sends its first command.
Begin(k) ==
    /\ pc[k] = "idle"
    /\ \E o \in Ops, u \in Users : /\ op' = [op EXCEPT ![k] = o]
                                 /\ user' = [user EXCEPT ![k] = u]
    /\ stamp' = [stamp EXCEPT ![k] = now]
    /\ pc' = [pc EXCEPT ![k] = "command"]
    /\ UNCHANGED <<now, redis, cleaner, signed, unbounded>>

SetOnline(k) ==
    /\ pc[k] = "command" /\ op[k] = "online"
    /\ presence' = [presence EXCEPT ![user[k]] = stamp[k]]
    /\ signed' = [signed EXCEPT ![user[k]] = IF @ > stamp[k] THEN @ ELSE stamp[k]]
    /\ Finish(k)
    /\ UNCHANGED <<now, typing, expiry, cleaner, unbounded>>

SetOffline(k) ==
    /\ pc[k] = "command" /\ op[k] = "offline"
    /\ presence' = [presence EXCEPT ![user[k]] = None]
    /\ signed' = [signed EXCEPT ![user[k]] = None]
    /\ Finish(k)
    /\ UNCHANGED <<now, typing, expiry, cleaner, unbounded>>

AddTyping_Expired(k) ==              \* mutant: EXPIRE is sent before ZADD
    /\ pc[k] = "command" /\ op[k] = "typing"
    /\ typing' = typing \cup {user[k]}
    /\ expiry' = IF typing = {} THEN None ELSE now + TypingTTL
    /\ Finish(k)
    /\ UNCHANGED <<now, presence, cleaner, signed, unbounded>>

\* SetTyping, ZADD
AddTyping(k) ==
    /\ pc[k] = "command" /\ op[k] = "typing"
    /\ typing' = typing \cup {user[k]}
    /\ pc' = [pc EXCEPT ![k] = "expire"]
    /\ UNCHANGED <<now, presence, expiry, op, user, stamp, cleaner, signed, unbounded>>

ExpireTyping_Always(k) ==            \* mutant: the lifetime is set with no look at the key
    /\ pc[k] = "expire"
    /\ expiry' = now + TypingTTL
    /\ unbounded' = FALSE
    /\ Finish(k)
    /\ UNCHANGED <<now, presence, typing, cleaner, signed>>

\* SetTyping, EXPIRE, which does nothing when there is no key; its error is
\* dropped.
ExpireTyping(k) ==
    /\ pc[k] = "expire"
    /\ expiry' = IF typing = {} THEN None ELSE now + TypingTTL
    /\ unbounded' = FALSE
    /\ Finish(k)
    /\ UNCHANGED <<now, presence, typing, cleaner, signed>>

ExpireLost(k) ==
    /\ pc[k] = "expire"
    /\ unbounded' = (unbounded \/ typing # {})
    /\ Finish(k)
    /\ UNCHANGED <<now, redis, cleaner, signed>>

\* ClearTyping; Redis drops a key with its last member.
ClearTyping(k) ==
    /\ pc[k] = "command" /\ op[k] = "clear"
    /\ typing' = typing \ {user[k]}
    /\ expiry' = IF typing' = {} THEN None ELSE expiry
    /\ unbounded' = (unbounded /\ typing' # {})
    /\ Finish(k)
    /\ UNCHANGED <<now, presence, cleaner, signed>>

\* The first command fails, and the call with it; or the conversation is not
\* found, or HandleTyping refuses a user who is not a member of it.
CommandFails(k) ==
    /\ pc[k] = "command"
    /\ Finish(k)
    /\ UNCHANGED <<now, redis, cleaner, signed, unbounded>>

-----------------------------------------------------------------------------
(* CleanupStalePresence *)

\* The ticker fires and the cutoff is computed.
TickerFires ==
    /\ now = due
    /\ sent' = now
    /\ due' = due + CleanupPeriod
    /\ UNCHANGED <<now, redis, pc, op, user, stamp, signed, misses, unbounded>>

Removed_All(score) == score # None /\ score <= sent    \* mutant: staleCutoff forgotten

Removed_Later(score) ==              \* mutant: an exclusive bound, "(" cutoff
    score # None /\ score < sent - StaleCutoff

\* ZREMRANGEBYSCORE chat:presence -inf cutoff
Removed(score) == score # None /\ score <= sent - StaleCutoff

CleanupStalePresence ==
    /\ sent # None
    /\ presence' = [u \in Users |-> IF Removed(presence[u]) THEN None ELSE presence[u]]
    /\ sent' = None
    /\ misses' = 0
    /\ UNCHANGED <<now, typing, expiry, pc, op, user, stamp, due, signed, unbounded>>

\* The error is logged; the next tick tries again.
CleanupFails ==
    /\ sent # None
    /\ sent' = None
    /\ misses' = misses + 1
    /\ UNCHANGED <<now, redis, pc, op, user, stamp, due, signed, unbounded>>

-----------------------------------------------------------------------------
\* Time does not pass the ticker, nor a command that has been on its way for
\* MaxDelay.
Patient ==
    /\ now # due
    /\ sent # None => now < sent + MaxDelay
    /\ \A k \in Calls : pc[k] = "command" => now < stamp[k] + MaxDelay

\* A second passes.  The typing key dies when its time has come.
Tick ==
    /\ now < MaxTime
    /\ Patient
    /\ now' = now + 1
    /\ IF expiry = now'
         THEN typing' = {} /\ expiry' = None /\ unbounded' = FALSE
         ELSE UNCHANGED <<typing, expiry, unbounded>>
    /\ UNCHANGED <<presence, pc, op, user, stamp, cleaner, signed>>

Call(k) ==
    \/ Begin(k)
    \/ SetOnline(k)
    \/ SetOffline(k)
    \/ AddTyping(k)
    \/ ExpireTyping(k)
    \/ ExpireLost(k)
    \/ ClearTyping(k)
    \/ CommandFails(k)

Next ==
    \/ \E k \in Calls : Call(k)
    \/ TickerFires
    \/ CleanupStalePresence
    \/ CleanupFails
    \/ Tick

Spec == Init /\ [][Next]_vars

-----------------------------------------------------------------------------
(* Properties *)

\* Every variable stays in its domain, and only a key that exists expires.
TypeOK ==
    /\ now \in 0..MaxTime
    /\ presence \in [Users -> 0..MaxTime \cup {None}]
    /\ typing \subseteq Users
    /\ expiry \in Nat \cup {None} /\ (expiry # None => typing # {} /\ expiry > now)
    /\ pc \in [Calls -> PCs]
    /\ op \in [Calls -> Ops \cup {"none"}]
    /\ user \in [Calls -> Users \cup {None}]
    /\ stamp \in [Calls -> 0..MaxTime \cup {None}]
    /\ due \in now..(now + CleanupPeriod)
    /\ sent \in 0..now \cup {None}
    /\ signed \in [Users -> 0..MaxTime \cup {None}]
    /\ misses \in Nat
    /\ unbounded \in BOOLEAN

\* "removes users who haven't refreshed their presence": a user who has, and has not
\* gone off since, is listed until staleCutoff has passed, less what a late
\* command can take away: a refresh with an older time may come after one with a
\* newer time.
FreshStays ==
    \A u \in Users :
        (signed[u] # None /\ now - signed[u] < StaleCutoff - MaxDelay) =>
            presence[u] # None

\* A user who gives no sign of life leaves the list within staleCutoff, one period
\* of the ticker for every clean-up that failed and one for the last, and the
\* delay of a command.
StaleGoes ==
    \A u \in Users : presence[u] # None =>
        now - presence[u] < StaleCutoff + (1 + misses) * CleanupPeriod + MaxDelay

\* The typing set dies typingTTL after the last sign of typing at the latest,
\* unless a call is between its two commands or an EXPIRE was lost, which the
\* code does not notice: then it lives until somebody types again.
TypingForgotten ==
    typing # {} =>
        \/ expiry # None /\ expiry <= now + TypingTTL
        \/ \E k \in Calls : pc[k] = "expire"
        \/ unbounded

=============================================================================
