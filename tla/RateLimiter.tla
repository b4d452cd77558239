---------------------------- MODULE RateLimiter ----------------------------
(***************************************************************************)
(* RateLimiter.AllowMessage for one user: a counter in Redis that every    *)
(* call raises with INCR and whose lifetime every call renews with EXPIRE. *)
(* The two commands travel in one pipeline, which is not a transaction:    *)
(* time may pass, the key may die and other callers may run in between.    *)
(***************************************************************************)
EXTENDS Naturals, FiniteSets

CONSTANTS
    Reqs,       \* calls of AllowMessage
    Max,        \* rateLimitMax (60 in the code)
    Window,     \* rateLimitWindow, in ticks (one minute in the code)
    Horizon,    \* bound on time, for TLC
    Faults,     \* may a pipeline break?
    Never       \* a key without an expiry

ASSUME LimiterAssumption ==
    /\ Max \in Nat \ {0}
    /\ Window \in Nat \ {0}
    /\ Horizon \in Nat
    /\ Faults \in BOOLEAN
    /\ Never \notin Nat

VARIABLES
    now,        \* the time
    count,      \* the value of the key, 0 when it is not there
    expires,    \* when the key dies, or Never
    pc,         \* "idle", "expire", then the answer
    ticket,     \* what INCR returned to each call
    asked,      \* when INCR ran for each call
    renewed     \* when EXPIRE ran for each call

vars == <<now, count, expires, pc, ticket, asked, renewed>>

Answers == {"allowed", "denied", "error"}

Alive == count > 0 /\ (expires = Never \/ now < expires)

Init ==
    /\ now = 0
    /\ count = 0
    /\ expires = Never
    /\ pc = [r \in Reqs |-> "idle"]
    /\ ticket = [r \in Reqs |-> 0]
    /\ asked = [r \in Reqs |-> 0]
    /\ renewed = [r \in Reqs |-> 0]

\* INCR makes a missing key, with no expiry.
Incr(r) ==
    /\ pc[r] = "idle"
    /\ count' = IF Alive THEN count + 1 ELSE 1
    /\ expires' = IF Alive THEN expires ELSE Never
    /\ ticket' = [ticket EXCEPT ![r] = count']
    /\ asked' = [asked EXCEPT ![r] = now]
    /\ pc' = [pc EXCEPT ![r] = "expire"]
    /\ UNCHANGED <<now, renewed>>

Verdict(n) == IF n <= Max THEN "allowed" ELSE "denied"

Renewal_Past == now - Window         \* mutant: the sign swapped

Renewal_Once == IF expires = Never THEN now + Window ELSE expires   \* mutant:
                    \* the window is set by its first message only

\* EXPIRE gives the key a whole window from now.
Renewal == now + Window

\* EXPIRE does nothing to a missing key.  The reply may be lost.
Expire(r) ==
    /\ pc[r] = "expire"
    /\ expires' = IF Alive THEN Renewal ELSE expires
    /\ renewed' = [renewed EXCEPT ![r] = now]
    /\ \E answer \in {Verdict(ticket[r])} \cup (IF Faults THEN {"error"} ELSE {}) :
          pc' = [pc EXCEPT ![r] = answer]
    /\ UNCHANGED <<now, count, ticket, asked>>

\* The connection breaks before EXPIRE is run.
Break(r) ==
    /\ Faults
    /\ pc[r] = "expire"
    /\ pc' = [pc EXCEPT ![r] = "error"]
    /\ UNCHANGED <<now, count, expires, ticket, asked, renewed>>

Tick ==
    /\ now < Horizon
    /\ now' = now + 1
    /\ UNCHANGED <<count, expires, pc, ticket, asked, renewed>>

Next == Tick \/ \E r \in Reqs : Incr(r) \/ Expire(r) \/ Break(r)

Spec == Init /\ [][Next]_vars

-----------------------------------------------------------------------------
(* Properties *)

\* Every variable stays in its domain.
TypeOK ==
    /\ now \in Nat
    /\ count \in Nat
    /\ expires \in Nat \cup {Never}
    /\ pc \in [Reqs -> {"idle", "expire"} \cup Answers]
    /\ ticket \in [Reqs -> Nat]
    /\ asked \in [Reqs -> Nat]
    /\ renewed \in [Reqs -> Nat]

\* A call that was allowed, and whose EXPIRE ran in the same tick as its INCR.
Prompt(r) == pc[r] = "allowed" /\ renewed[r] = asked[r]

\* "max messages per window": among the calls whose pipelines were not split
\* by the passing of time, at most Max are allowed in any stretch of time as
\* long as the window, wherever it begins.
WindowLimit ==
    \A t \in 0..now :
        Cardinality({r \in Reqs : Prompt(r) /\ asked[r] \in t..(t + Window - 1)})
            <= Max

=============================================================================
