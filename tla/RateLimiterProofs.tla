-------------------------- MODULE RateLimiterProofs --------------------------
(***************************************************************************)
(* "max messages per window" for any number of calls, any limit and any    *)
(* window: two prompt calls less than a window apart have counted on the   *)
(* same key, and so have different tickets, of which Max are good.         *)
(***************************************************************************)
EXTENDS RateLimiter, FiniteSetTheorems, TLAPS

(* The inductive invariant *)

\* A call that has counted in this tick and not sent its EXPIRE.
Pending(r) == pc[r] = "expire" /\ asked[r] = now

\* The calls whose place in the window matters, now or later.
Fit(r) == Prompt(r) \/ Pending(r)

CallInv(r) ==
    /\ asked[r] <= now
    /\ pc[r] # "idle" => ticket[r] >= 1
    /\ pc[r] = "allowed" => ticket[r] <= Max

\* The key that a call counted on lives to the end of the tick, and when the call was
\* prompt for a window; until then the counter is not below its ticket.
KeyInv(r) ==
    /\ Pending(r) => Alive /\ ticket[r] <= count
    /\ (Prompt(r) /\ now < asked[r] + Window) =>
          /\ count > 0 /\ ticket[r] <= count
          /\ expires = Never \/ asked[r] + Window <= expires

\* Calls less than a window apart have different tickets.
Apart(r, s) ==
    (r # s /\ Fit(r) /\ Fit(s) /\ asked[r] <= asked[s] /\ asked[s] < asked[r] + Window) =>
        ticket[r] # ticket[s]

Ind ==
    /\ TypeOK
    /\ \A r \in Reqs : CallInv(r) /\ KeyInv(r)
    /\ \A r, s \in Reqs : Apart(r, s)

-----------------------------------------------------------------------------
(* The steps *)

LEMMA Numbers ==
    /\ Max \in Nat /\ 0 < Max /\ Window \in Nat /\ 0 < Window
    /\ Never \notin Nat
BY LimiterAssumption

LEMMA InitInd == Init => Ind
<1> SUFFICES ASSUME Init PROVE Ind
    OBVIOUS
<1>1. TypeOK
    BY DEF Init, TypeOK
<1>2. ASSUME NEW r \in Reqs PROVE CallInv(r) /\ KeyInv(r) /\ ~Fit(r)
    BY DEF Init, CallInv, KeyInv, Fit, Pending, Prompt
<1>3. ASSUME NEW r \in Reqs, NEW s \in Reqs PROVE Apart(r, s)
    BY <1>2 DEF Apart
<1> QED
    BY <1>1, <1>2, <1>3 DEF Ind

\* The call whose INCR finds the key takes the next ticket, above those of the calls
\* whose place matters; a call that finds no key is a window later than they are.
LEMMA IncrInd ==
    ASSUME Ind, NEW r \in Reqs, Incr(r)
    PROVE  Ind'
<1>1. /\ pc[r] = "idle"
      /\ count' = IF Alive THEN count + 1 ELSE 1
      /\ expires' = IF Alive THEN expires ELSE Never
      /\ ticket' = [ticket EXCEPT ![r] = count']
      /\ asked' = [asked EXCEPT ![r] = now]
      /\ pc' = [pc EXCEPT ![r] = "expire"]
      /\ UNCHANGED <<now, renewed>>
    BY DEF Incr
<1>2. now \in Nat /\ count \in Nat /\ count' \in Nat /\ count' >= 1
    BY <1>1 DEF Ind, TypeOK
<1>3. TypeOK'
    BY <1>1, <1>2 DEF Ind, TypeOK
<1>4. /\ pc'[r] = "expire" /\ asked'[r] = now /\ ticket'[r] = count'
      /\ \A s \in Reqs \ {r} : /\ pc'[s] = pc[s] /\ asked'[s] = asked[s]
                               /\ ticket'[s] = ticket[s] /\ renewed'[s] = renewed[s]
    BY <1>1 DEF Ind, TypeOK
<1>5. Alive'
    BY <1>1, <1>2 DEF Alive, Ind, TypeOK
<1>6. CallInv(r)' /\ KeyInv(r)'
    BY <1>1, <1>2, <1>4, <1>5 DEF CallInv, KeyInv, Prompt, Pending
<1>7. ASSUME NEW s \in Reqs \ {r}
      PROVE  /\ CallInv(s)' /\ KeyInv(s)'
             /\ Fit(s)' => Fit(s)
             /\ (Fit(s)' /\ now < asked'[s] + Window) => ticket'[s] < ticket'[r]
  <2>1. /\ CallInv(s) /\ KeyInv(s)
        /\ asked[s] \in Nat /\ ticket[s] \in Nat /\ expires \in Nat \cup {Never}
    BY DEF Ind, TypeOK
  <2>2. CallInv(s)' /\ (Fit(s)' => Fit(s)) /\ (Prompt(s)' => Prompt(s))
        /\ (Pending(s)' => Pending(s))
    BY <1>1, <1>4, <2>1 DEF CallInv, Fit, Prompt, Pending
  <2>3. (Fit(s) /\ now < asked[s] + Window) => Alive /\ ticket[s] <= count
    BY <1>2, <2>1, Numbers DEF Fit, KeyInv, Alive
  <2>4. KeyInv(s)'
    BY <1>1, <1>2, <1>4, <1>5, <2>1, <2>2, <2>3 DEF KeyInv, Fit
  <2>5. (Fit(s)' /\ now < asked'[s] + Window) => ticket'[s] < ticket'[r]
    BY <1>1, <1>2, <1>4, <2>1, <2>2, <2>3
  <2> QED
    BY <2>2, <2>4, <2>5
<1>8. ASSUME NEW s \in Reqs, NEW u \in Reqs PROVE Apart(s, u)'
  <2>1. Apart(s, u)
    BY DEF Ind
  <2>2. asked[s] \in Nat /\ asked[u] \in Nat /\ asked[s] <= now /\ asked[u] <= now
    BY DEF Ind, TypeOK, CallInv
  <2>3. CASE s # r /\ u # r
    BY <1>4, <1>7, <2>1, <2>3 DEF Apart
  <2>4. CASE s # r /\ u = r
    BY <1>2, <1>4, <1>7, <2>4 DEF Apart, Ind, TypeOK
  <2>5. CASE s = r /\ u # r
    <3>1. SUFFICES ASSUME Fit(u)', asked'[r] <= asked'[u] PROVE ticket'[r] # ticket'[u]
      BY <2>5 DEF Apart
    <3>2. asked'[u] = now
      BY <1>2, <1>4, <2>2, <2>5, <3>1
    <3>3. ticket'[u] < ticket'[r]
      BY <1>2, <1>7, <2>5, <3>1, <3>2, Numbers
    <3>4. ticket'[u] \in Nat /\ ticket'[r] \in Nat
      BY <1>3 DEF TypeOK
    <3> QED
      BY <3>3, <3>4
  <2>6. CASE s = r /\ u = r
    BY <2>6 DEF Apart
  <2> QED
    BY <2>3, <2>4, <2>5, <2>6
<1> QED
    BY <1>3, <1>6, <1>7, <1>8 DEF Ind

\* A step that gives no tickets and makes no call fit.
LEMMA ApartStays ==
    ASSUME Ind, UNCHANGED <<ticket, asked>>,
           \A r \in Reqs : Fit(r)' => Fit(r)
    PROVE  \A r, s \in Reqs : Apart(r, s)'
BY DEF Ind, Apart

\* The EXPIRE of a prompt call finds the key it counted on, and gives it a window.
LEMMA ExpireInd ==
    ASSUME Ind, NEW r \in Reqs, Expire(r)
    PROVE  Ind'
<1>1. PICK answer \in Answers : /\ pc' = [pc EXCEPT ![r] = answer]
                                /\ answer = "allowed" => ticket[r] <= Max
  <2>1. PICK answer \in {Verdict(ticket[r])} \cup (IF Faults THEN {"error"} ELSE {}) :
            pc' = [pc EXCEPT ![r] = answer]
    BY DEF Expire
  <2> QED
    BY <2>1 DEF Verdict, Answers
<1>2. /\ pc[r] = "expire"
      /\ expires' = IF Alive THEN now + Window ELSE expires
      /\ renewed' = [renewed EXCEPT ![r] = now]
      /\ UNCHANGED <<now, count, ticket, asked>>
    BY DEF Expire, Renewal
<1>3. /\ now \in Nat /\ count \in Nat /\ expires \in Nat \cup {Never}
      /\ now + Window \in Nat
    BY Numbers DEF Ind, TypeOK
<1>4. TypeOK'
    BY <1>1, <1>2, <1>3 DEF Ind, TypeOK
<1>5. /\ pc'[r] = answer /\ answer # "idle" /\ answer # "expire" /\ renewed'[r] = now
      /\ \A s \in Reqs \ {r} : pc'[s] = pc[s] /\ renewed'[s] = renewed[s]
    BY <1>1, <1>2 DEF Ind, TypeOK, Answers
<1>6. Alive => Alive'
    BY <1>2, <1>3, Numbers DEF Alive
<1>7. /\ CallInv(r) /\ KeyInv(r)
      /\ asked[r] \in Nat /\ ticket[r] \in Nat
    BY DEF Ind, TypeOK
<1>8. Fit(r)' => Pending(r)
    BY <1>2, <1>5 DEF Fit, Pending, Prompt
<1>9. CallInv(r)'
    BY <1>1, <1>2, <1>5, <1>7 DEF CallInv
<1>10. KeyInv(r)'
  <2>1. ~Pending(r)'
    BY <1>5 DEF Pending
  <2>2. ASSUME Prompt(r)'
        PROVE  /\ count > 0 /\ ticket[r] <= count
               /\ expires' = asked[r] + Window
    BY <1>2, <1>3, <1>7, <1>8, <2>2 DEF Fit, KeyInv, Pending, Alive
  <2>3. asked[r] + Window <= asked[r] + Window
    BY <1>7, Numbers
  <2> QED
    BY <1>2, <2>1, <2>2, <2>3 DEF KeyInv
<1>11. ASSUME NEW s \in Reqs \ {r} PROVE CallInv(s)' /\ KeyInv(s)' /\ (Fit(s)' => Fit(s))
  <2>1. /\ CallInv(s) /\ KeyInv(s)
        /\ asked[s] \in Nat /\ asked[s] <= now
    BY DEF Ind, TypeOK, CallInv
  <2>2. /\ CallInv(s)' /\ (Fit(s)' => Fit(s))
        /\ Prompt(s)' => Prompt(s)
        /\ Pending(s)' => Pending(s)
    BY <1>2, <1>5, <2>1 DEF CallInv, Fit, Prompt, Pending
  <2>3. expires' = expires \/ (asked[s] + Window <= expires')
    BY <1>2, <1>3, <2>1, Numbers
  <2> QED
    BY <1>2, <1>6, <2>1, <2>2, <2>3 DEF KeyInv
<1> QED
    BY <1>2, <1>4, <1>8, <1>9, <1>10, <1>11, ApartStays DEF Ind, Fit

LEMMA BreakInd ==
    ASSUME Ind, NEW r \in Reqs, Break(r)
    PROVE  Ind'
<1>1. /\ pc' = [pc EXCEPT ![r] = "error"] /\ pc[r] = "expire"
      /\ UNCHANGED <<now, count, expires, ticket, asked, renewed>>
    BY DEF Break
<1>2. TypeOK'
    BY <1>1 DEF Ind, TypeOK, Answers
<1>3. ASSUME NEW s \in Reqs PROVE CallInv(s)' /\ KeyInv(s)' /\ (Fit(s)' => Fit(s))
  <2>1. /\ Prompt(s)' => Prompt(s)
        /\ Pending(s)' => Pending(s)
        /\ pc'[s] = pc[s] \/ (pc[s] # "idle" /\ pc'[s] # "allowed")
    BY <1>1 DEF Ind, TypeOK, Prompt, Pending
  <2> QED
    BY <1>1, <2>1 DEF Ind, CallInv, KeyInv, Fit, Alive
<1> QED
    BY <1>1, <1>2, <1>3, ApartStays DEF Ind

\* After a tick no call has counted in it, and a key that was given a window by a
\* prompt call is still there when the window is not over.
LEMMA TickInd ==
    ASSUME Ind, Tick
    PROVE  Ind'
<1>1. /\ now' = now + 1 /\ now \in Nat
      /\ UNCHANGED <<count, expires, pc, ticket, asked, renewed>>
    BY DEF Tick, Ind, TypeOK
<1>2. TypeOK'
    BY <1>1 DEF Ind, TypeOK
<1>3. ASSUME NEW s \in Reqs PROVE CallInv(s)' /\ KeyInv(s)' /\ (Fit(s)' => Fit(s))
  <2>1. CallInv(s) /\ KeyInv(s) /\ asked[s] \in Nat /\ asked[s] <= now
    BY DEF Ind, TypeOK, CallInv
  <2>2. ~Pending(s)' /\ (Prompt(s)' => Prompt(s))
    BY <1>1, <2>1 DEF Pending, Prompt
  <2>3. now' < asked'[s] + Window => now < asked[s] + Window
    BY <1>1, <2>1, Numbers
  <2> QED
    BY <1>1, <2>1, <2>2, <2>3 DEF CallInv, KeyInv, Fit
<1> QED
    BY <1>1, <1>2, <1>3, ApartStays DEF Ind

LEMMA NextInd == Ind /\ [Next]_vars => Ind'
<1> SUFFICES ASSUME Ind, [Next]_vars PROVE Ind'
    OBVIOUS
<1>1. CASE UNCHANGED vars
    BY <1>1 DEF vars, Ind, TypeOK, CallInv, KeyInv, Apart, Fit, Pending, Prompt, Alive
<1> QED
    BY <1>1, IncrInd, ExpireInd, BreakInd, TickInd DEF Next

\* The inductive invariant: the calls of one window hold distinct tickets.
THEOREM Invariance == Spec => []Ind
BY InitInd, NextInd, PTL DEF Spec

-----------------------------------------------------------------------------
(* The theorems *)

\* Every variable keeps its type, whatever breaks between INCR and EXPIRE.
THEOREM TypeCorrect == Spec => []TypeOK
<1>1. Ind => TypeOK
    BY DEF Ind
<1> QED
    BY <1>1, Invariance, PTL

\* Different calls with different tickets, all of them good: at most Max.
LEMMA Limited ==
    ASSUME Ind, NEW t \in 0..now
    PROVE  Cardinality({r \in Reqs : Prompt(r) /\ asked[r] \in t..(t + Window - 1)})
              <= Max
<1> DEFINE S == {r \in Reqs : Prompt(r) /\ asked[r] \in t..(t + Window - 1)}
           f == [r \in S |-> ticket[r]]
<1>1. t \in Nat /\ now \in Nat
    BY DEF Ind, TypeOK
<1>2. ASSUME NEW r \in S PROVE ticket[r] \in 1..Max
  <2>1. /\ r \in Reqs /\ pc[r] = "allowed" /\ ticket[r] \in Nat
    BY DEF Prompt, Ind, TypeOK
  <2> QED
    BY <2>1, Numbers DEF Ind, CallInv
<1>3. ASSUME NEW r \in S, NEW s \in S, r # s PROVE ticket[r] # ticket[s]
  <2>1. /\ r \in Reqs /\ s \in Reqs /\ Fit(r) /\ Fit(s)
        /\ asked[r] \in t..(t + Window - 1) /\ asked[s] \in t..(t + Window - 1)
    BY DEF Fit
  <2>2. /\ asked[r] \in Nat /\ asked[s] \in Nat
        /\ asked[r] < asked[s] + Window /\ asked[s] < asked[r] + Window
    BY <1>1, <2>1, Numbers
  <2>3. Apart(r, s) /\ Apart(s, r)
    BY <2>1 DEF Ind
  <2> QED
    BY <1>3, <2>1, <2>2, <2>3 DEF Apart
<1>4. f \in Injection(S, 1..Max)
  <2>1. f \in [S -> 1..Max]
    BY <1>2
  <2>2. \A r, s \in S : f[r] = f[s] => r = s
    BY <1>3
  <2> QED
    BY <2>1, <2>2 DEF Injection, IsInjective
<1>5. IsFiniteSet(1..Max) /\ Cardinality(1..Max) = Max
    BY Numbers, FS_Interval
<1> HIDE DEF S, f
<1>6. Cardinality(S) <= Max
    BY <1>4, <1>5, FS_Injection
<1> QED
    BY <1>6 DEF S

\* "max messages per window", wherever the window begins, for the calls whose
\* pipelines were not split by the passing of time.
THEOREM AtMostMax == Spec => []WindowLimit
<1>1. Ind => WindowLimit
    BY Limited DEF WindowLimit
<1> QED
    BY <1>1, Invariance, PTL

=============================================================================
