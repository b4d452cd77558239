--------------------------- MODULE PresenceProofs ---------------------------
(***************************************************************************)
(* What PresenceStore promises, for any number of users and calls, and any *)
(* cutoff, period, lifetime and delay with MaxDelay below the period and   *)
(* the cutoff.                                                             *)
(***************************************************************************)
EXTENDS Presence, TLAPS

(* The inductive invariant *)

\* A call knows its user and a time that has come, and its first command is not
\* on its way for longer than MaxDelay.
CallInv(k) ==
    /\ pc[k] \in {"command", "expire"} => user[k] \in Users /\ stamp[k] \in 0..now
    /\ pc[k] = "command" => now <= stamp[k] + MaxDelay

\* A clean-up on its way belongs to the tick before the one that is due.
CleanerInv == sent # None => due = sent + CleanupPeriod /\ now <= sent + MaxDelay

\* The ticks since the last clean-up that was done: those that failed and, when a
\* clean-up is on its way, its own.
Since == IF sent = None THEN misses ELSE misses + 1

\* The cutoff of the last clean-up that was done, or would have been done.
Horizon == due - (1 + Since) * CleanupPeriod - StaleCutoff

\* What is listed is newer than that, or has come since.
StaleInv(u) == presence[u] # None => presence[u] > Horizon

\* A listed time is at most MaxDelay older than the newest, and a user who signed on
\* is not listed only when that time is over.
FreshInv(u) ==
    signed[u] # None =>
        /\ signed[u] <= now
        /\ presence[u] # None => signed[u] <= presence[u] + MaxDelay
        /\ presence[u] = None => signed[u] + StaleCutoff <= now + MaxDelay

Ind ==
    /\ TypeOK
    /\ \A k \in Calls : CallInv(k)
    /\ CleanerInv
    /\ \A u \in Users : StaleInv(u) /\ FreshInv(u)
    /\ TypingForgotten

-----------------------------------------------------------------------------
(* Lemmas *)

\* The constants are numbers.
LEMMA Numbers ==
    /\ StaleCutoff \in Nat /\ CleanupPeriod \in Nat /\ TypingTTL \in Nat
    /\ MaxDelay \in Nat /\ MaxTime \in Nat /\ None = -1
    /\ 0 < StaleCutoff /\ 0 < CleanupPeriod /\ 0 < TypingTTL
    /\ MaxDelay < CleanupPeriod /\ MaxDelay < StaleCutoff
BY TimesAssumption DEF None

\* One more missed clean-up is one more period.
LEMMA OneMore ==
    ASSUME NEW n \in Nat
    PROVE  /\ (1 + n) * CleanupPeriod \in Nat
           /\ (1 + (n + 1)) * CleanupPeriod = (1 + n) * CleanupPeriod + CleanupPeriod
           /\ CleanupPeriod <= (1 + n) * CleanupPeriod
<1>1. CleanupPeriod \in Nat
    BY Numbers
<1>2. n * CleanupPeriod \in Nat
    BY <1>1
<1>3. (1 + n) * CleanupPeriod = CleanupPeriod + n * CleanupPeriod
    BY <1>1
<1>4. (1 + (n + 1)) * CleanupPeriod = 2 * CleanupPeriod + n * CleanupPeriod
    BY <1>1
<1> QED
    BY <1>1, <1>2, <1>3, <1>4

\* A period has begun since, so the cutoff is StaleCutoff in the past.
LEMMA Horizons ==
    ASSUME TypeOK
    PROVE  /\ Since \in Nat /\ Horizon \in Int
           /\ Horizon + StaleCutoff <= now
<1>1. Since \in Nat /\ due \in Nat /\ now \in Nat /\ due <= now + CleanupPeriod
    BY Numbers DEF TypeOK, Since
<1> DEFINE m == (1 + Since) * CleanupPeriod
<1>2. m \in Nat /\ CleanupPeriod <= m
    BY <1>1, OneMore
<1>3. Horizon = due - m - StaleCutoff
    BY DEF Horizon
<1> HIDE DEF m
<1> QED
    BY <1>1, <1>2, <1>3, Numbers

LEMMA InitInd == Init => Ind
<1> SUFFICES ASSUME Init PROVE Ind
    OBVIOUS
<1>1. TypeOK
  <2>1. /\ now \in 0..MaxTime /\ due \in now..(now + CleanupPeriod)
        /\ sent \in 0..now \cup {None}
    BY Numbers DEF Init
  <2>2. /\ pc \in [Calls -> PCs] /\ op \in [Calls -> Ops \cup {"none"}]
        /\ user \in [Calls -> Users \cup {None}]
    BY DEF Init, PCs
  <2>3. /\ stamp \in [Calls -> 0..MaxTime \cup {None}]
        /\ presence \in [Users -> 0..MaxTime \cup {None}]
        /\ signed \in [Users -> 0..MaxTime \cup {None}]
    BY DEF Init
  <2> QED
    BY <2>1, <2>2, <2>3 DEF Init, TypeOK
<1>2. ASSUME NEW k \in Calls PROVE CallInv(k)
    BY DEF Init, CallInv
<1>3. ASSUME NEW u \in Users PROVE StaleInv(u) /\ FreshInv(u)
    BY DEF Init, StaleInv, FreshInv
<1> QED
    BY <1>1, <1>2, <1>3 DEF Init, Ind, CleanerInv, TypingForgotten

\* A call that ends leaves the other calls where they are.
LEMMA Finished ==
    ASSUME Ind, NEW k \in Calls, Finish(k), now' = now
    PROVE  /\ pc' \in [Calls -> PCs]
           /\ op' \in [Calls -> Ops \cup {"none"}]
           /\ user' \in [Calls -> Users \cup {None}]
           /\ stamp' \in [Calls -> 0..MaxTime \cup {None}]
           /\ pc'[k] = "done"
           /\ \A c \in Calls \ {k} : pc'[c] = pc[c]
           /\ \A c \in Calls : CallInv(c)'
<1>1. /\ pc' \in [Calls -> PCs]
      /\ op' \in [Calls -> Ops \cup {"none"}]
      /\ user' \in [Calls -> Users \cup {None}]
      /\ stamp' \in [Calls -> 0..MaxTime \cup {None}]
    BY DEF Finish, Ind, TypeOK, PCs
<1>2. /\ pc'[k] = "done"
      /\ \A c \in Calls \ {k} :
            pc'[c] = pc[c] /\ user'[c] = user[c] /\ stamp'[c] = stamp[c]
    BY DEF Finish, Ind, TypeOK
<1>3. CallInv(k)'
    BY <1>2 DEF CallInv
<1>4. ASSUME NEW c \in Calls \ {k} PROVE CallInv(c)'
    BY <1>2 DEF Ind, CallInv
<1> QED
    BY <1>1, <1>2, <1>3, <1>4

\* Steps that touch neither the clock nor the sorted set of those online.
LEMMA PresenceStays ==
    ASSUME Ind, UNCHANGED <<now, presence, cleaner, signed>>
    PROVE  CleanerInv' /\ \A u \in Users : StaleInv(u)' /\ FreshInv(u)'
BY DEF Ind, cleaner, CleanerInv, StaleInv, FreshInv, Since, Horizon

\* The typing key stays and no call leaves its EXPIRE.
LEMMA TypingStays ==
    ASSUME Ind, UNCHANGED <<now, typing, expiry, unbounded>>,
           \A k \in Calls : pc[k] = "expire" => pc'[k] = "expire"
    PROVE  TypingForgotten'
BY DEF Ind, TypingForgotten

-----------------------------------------------------------------------------
(* The steps of a call *)

LEMMA BeginInd ==
    ASSUME Ind, NEW k \in Calls, Begin(k)
    PROVE  Ind'
<1>1. PICK o \in Ops, u \in Users : /\ op' = [op EXCEPT ![k] = o]
                                  /\ user' = [user EXCEPT ![k] = u]
    BY DEF Begin
<1>2. /\ pc[k] = "idle"
      /\ pc' = [pc EXCEPT ![k] = "command"] /\ stamp' = [stamp EXCEPT ![k] = now]
      /\ UNCHANGED <<now, redis, cleaner, signed, unbounded>>
    BY DEF Begin
<1>3. TypeOK'
    BY <1>1, <1>2 DEF Ind, TypeOK, redis, cleaner, PCs
<1>4. CallInv(k)'
    BY <1>1, <1>2, Numbers DEF Ind, TypeOK, CallInv
<1>5. ASSUME NEW c \in Calls \ {k} PROVE CallInv(c)'
    BY <1>1, <1>2 DEF Ind, TypeOK, CallInv
<1>6. TypingForgotten'
    BY <1>2, TypingStays DEF redis, Ind, TypeOK
<1> QED
    BY <1>2, <1>3, <1>4, <1>5, <1>6, PresenceStays DEF Ind, redis

\* The score is at most MaxDelay old: newer than any cutoff that is still to come.
LEMMA SetOnlineInd ==
    ASSUME Ind, NEW k \in Calls, SetOnline(k)
    PROVE  Ind'
<1>1. /\ user[k] \in Users /\ stamp[k] \in 0..now /\ now <= stamp[k] + MaxDelay
      /\ stamp[k] \in Nat /\ now \in Nat /\ stamp[k] \in 0..MaxTime
  <2>1. /\ user[k] \in Users /\ stamp[k] \in 0..now /\ now <= stamp[k] + MaxDelay
    BY DEF SetOnline, Ind, CallInv
  <2>2. now \in 0..MaxTime
    BY DEF Ind, TypeOK
  <2> QED
    BY <2>1, <2>2, Numbers
<1>2. /\ presence' = [presence EXCEPT ![user[k]] = stamp[k]]
      /\ signed' = [signed EXCEPT ![user[k]] = IF @ > stamp[k] THEN @ ELSE stamp[k]]
      /\ Finish(k) /\ UNCHANGED <<now, typing, expiry, cleaner, unbounded>>
    BY DEF SetOnline
<1>3. TypeOK'
  <2>1. /\ presence' \in [Users -> 0..MaxTime \cup {None}]
        /\ signed' \in [Users -> 0..MaxTime \cup {None}]
    BY <1>1, <1>2 DEF Ind, TypeOK
  <2> QED
    BY <1>2, <2>1, Finished DEF Ind, TypeOK, cleaner
<1>4. CleanerInv'
    BY <1>2 DEF Ind, CleanerInv, cleaner
<1>5. PICK u \in Users, s \in 0..now : u = user[k] /\ s = stamp[k]
    BY <1>1
<1>6. /\ presence'[u] = s /\ s # None /\ s \in Nat /\ now <= s + MaxDelay
      /\ signed'[u] \in {signed[u], s}
      /\ signed[u] \in Int /\ (signed[u] # None => signed[u] <= now)
      /\ \A v \in Users \ {u} : presence'[v] = presence[v] /\ signed'[v] = signed[v]
  <2>1. /\ presence \in [Users -> 0..MaxTime \cup {None}]
        /\ signed \in [Users -> 0..MaxTime \cup {None}]
    BY DEF Ind, TypeOK
  <2>2. /\ presence'[u] = s /\ signed'[u] \in {signed[u], s}
        /\ \A v \in Users \ {u} : presence'[v] = presence[v] /\ signed'[v] = signed[v]
    BY <1>2, <1>5, <2>1
  <2>3. signed[u] \in Int /\ (signed[u] # None => signed[u] <= now)
    BY <2>1, Numbers DEF Ind, FreshInv
  <2>4. s # None /\ s \in Nat /\ now <= s + MaxDelay
    BY <1>1, <1>5, Numbers
  <2> QED
    BY <2>2, <2>3, <2>4
<1>7. /\ UNCHANGED now /\ Horizon' = Horizon
      /\ Horizon \in Int /\ Horizon + StaleCutoff <= now /\ now \in Nat
    BY <1>1, <1>2, Horizons DEF cleaner, Since, Horizon, Ind
<1>8. StaleInv(u)'
    BY <1>6, <1>7, Numbers DEF StaleInv
<1>9. FreshInv(u)'
    BY <1>6, <1>7, Numbers DEF FreshInv
<1>10. ASSUME NEW v \in Users \ {u} PROVE StaleInv(v)' /\ FreshInv(v)'
    BY <1>6, <1>7 DEF Ind, StaleInv, FreshInv
<1>11. TypingForgotten'
    BY <1>2, Finished, TypingStays DEF SetOnline, Ind, TypeOK
<1> QED
    BY <1>2, <1>3, <1>4, <1>8, <1>9, <1>10, <1>11, Finished DEF Ind

LEMMA SetOfflineInd ==
    ASSUME Ind, NEW k \in Calls, SetOffline(k)
    PROVE  Ind'
<1>1. PICK u \in Users : u = user[k]
    BY DEF SetOffline, Ind, CallInv
<1>2. /\ presence' = [presence EXCEPT ![u] = None]
      /\ signed' = [signed EXCEPT ![u] = None]
      /\ Finish(k) /\ UNCHANGED <<now, typing, expiry, cleaner, unbounded>>
    BY <1>1 DEF SetOffline
<1>3. /\ presence' \in [Users -> 0..MaxTime \cup {None}]
      /\ signed' \in [Users -> 0..MaxTime \cup {None}]
      /\ presence'[u] = None /\ signed'[u] = None
      /\ \A v \in Users \ {u} : presence'[v] = presence[v] /\ signed'[v] = signed[v]
    BY <1>2 DEF Ind, TypeOK
<1>4. TypeOK'
    BY <1>2, <1>3, Finished DEF Ind, TypeOK, cleaner
<1>5. CleanerInv' /\ Horizon' = Horizon
    BY <1>2 DEF Ind, CleanerInv, cleaner, Horizon, Since
<1>6. ASSUME NEW v \in Users PROVE StaleInv(v)' /\ FreshInv(v)'
    BY <1>2, <1>3, <1>5 DEF Ind, StaleInv, FreshInv
<1>7. TypingForgotten'
    BY <1>2, Finished, TypingStays DEF SetOffline, Ind, TypeOK
<1> QED
    BY <1>2, <1>4, <1>5, <1>6, <1>7, Finished DEF Ind

LEMMA AddTypingInd ==
    ASSUME Ind, NEW k \in Calls, AddTyping(k)
    PROVE  Ind'
<1>1. /\ pc[k] = "command" /\ user[k] \in Users
      /\ typing' = typing \cup {user[k]}
      /\ pc' = [pc EXCEPT ![k] = "expire"]
      /\ UNCHANGED <<now, presence, expiry, op, user, stamp, cleaner, signed, unbounded>>
    BY DEF AddTyping, Ind, CallInv
<1>2. TypeOK'
    BY <1>1 DEF Ind, TypeOK, cleaner, PCs
<1>3. ASSUME NEW c \in Calls PROVE CallInv(c)'
    BY <1>1 DEF Ind, TypeOK, CallInv
<1>4. TypingForgotten'
    BY <1>1 DEF Ind, TypeOK, TypingForgotten
<1> QED
    BY <1>1, <1>2, <1>3, <1>4, PresenceStays DEF Ind

LEMMA ExpireTypingInd ==
    ASSUME Ind, NEW k \in Calls, ExpireTyping(k)
    PROVE  Ind'
<1>1. /\ expiry' = IF typing = {} THEN None ELSE now + TypingTTL
      /\ unbounded' = FALSE
      /\ Finish(k) /\ UNCHANGED <<now, presence, typing, cleaner, signed>>
    BY DEF ExpireTyping
<1>2. /\ now \in Nat /\ now + TypingTTL > now /\ now + TypingTTL # None
      /\ now + TypingTTL \in Nat
    BY Numbers DEF Ind, TypeOK
<1>3. TypeOK'
  <2>1. expiry' \in Nat \cup {None} /\ (expiry' # None => typing' # {} /\ expiry' > now')
    BY <1>1, <1>2
  <2> QED
    BY <1>1, <2>1, Finished DEF Ind, TypeOK, cleaner
<1>4. TypingForgotten'
    BY <1>1, <1>2, Numbers DEF TypingForgotten
<1> QED
    BY <1>1, <1>3, <1>4, PresenceStays, Finished DEF Ind

LEMMA ExpireLostInd ==
    ASSUME Ind, NEW k \in Calls, ExpireLost(k)
    PROVE  Ind'
<1>1. /\ unbounded' = (unbounded \/ typing # {})
      /\ Finish(k) /\ UNCHANGED <<now, presence, typing, expiry, cleaner, signed>>
    BY DEF ExpireLost, redis
<1>2. TypeOK'
    BY <1>1, Finished DEF Ind, TypeOK, cleaner
<1>3. TypingForgotten'
    BY <1>1 DEF TypingForgotten
<1> QED
    BY <1>1, <1>2, <1>3, PresenceStays, Finished DEF Ind

LEMMA ClearTypingInd ==
    ASSUME Ind, NEW k \in Calls, ClearTyping(k)
    PROVE  Ind'
<1>1. /\ pc[k] = "command" /\ typing' = typing \ {user[k]}
      /\ expiry' = IF typing' = {} THEN None ELSE expiry
      /\ unbounded' = (unbounded /\ typing' # {})
      /\ Finish(k) /\ UNCHANGED <<now, presence, cleaner, signed>>
    BY DEF ClearTyping
<1>2. TypeOK'
    BY <1>1, Finished DEF Ind, TypeOK, cleaner
<1>3. TypingForgotten'
  <2>1. SUFFICES ASSUME typing' # {}
                 PROVE  \/ expiry' # None /\ expiry' <= now' + TypingTTL
                        \/ \E c \in Calls : pc'[c] = "expire"
                        \/ unbounded'
    BY DEF TypingForgotten
  <2>2. typing # {} /\ expiry' = expiry /\ unbounded' = unbounded /\ now' = now
    BY <1>1, <2>1 DEF Ind, TypeOK
  <2>3. \A c \in Calls : pc[c] = "expire" => pc'[c] = "expire"
    BY <1>1, Finished
  <2> QED
    BY <2>2, <2>3 DEF Ind, TypingForgotten
<1> QED
    BY <1>1, <1>2, <1>3, PresenceStays, Finished DEF Ind

LEMMA CommandFailsInd ==
    ASSUME Ind, NEW k \in Calls, CommandFails(k)
    PROVE  Ind'
<1>1. /\ pc[k] = "command" /\ Finish(k)
      /\ UNCHANGED <<now, presence, typing, expiry, cleaner, signed, unbounded>>
    BY DEF CommandFails, redis
<1>2. TypeOK'
    BY <1>1, Finished DEF Ind, TypeOK, cleaner
<1>3. TypingForgotten'
    BY <1>1, Finished, TypingStays DEF Ind, TypeOK
<1> QED
    BY <1>1, <1>2, <1>3, PresenceStays, Finished DEF Ind

-----------------------------------------------------------------------------
(* The clean-up and the clock *)

\* The clean-up of the last tick has ended before this one.
LEMMA TickerFiresInd ==
    ASSUME Ind, TickerFires
    PROVE  Ind'
<1>1. /\ now = due /\ sent' = now /\ due' = due + CleanupPeriod
      /\ UNCHANGED <<now, presence, typing, expiry, pc, op, user, stamp, signed, misses,
                     unbounded>>
    BY DEF TickerFires, redis
<1>2. now \in Nat /\ sent \in Nat \cup {None}
    BY Numbers DEF Ind, TypeOK
<1>3. sent = None
    BY <1>1, <1>2, Numbers DEF Ind, CleanerInv
<1>4. TypeOK'
  <2>1. due' \in now..(now + CleanupPeriod) /\ sent' \in 0..now \cup {None}
    BY <1>1, <1>2, Numbers
  <2> QED
    BY <1>1, <2>1 DEF Ind, TypeOK
<1>5. CleanerInv'
    BY <1>1, <1>2, Numbers DEF CleanerInv
<1>6. Horizon' = Horizon
  <2>1. misses \in Nat /\ Since = misses /\ Since' = misses + 1
    BY <1>1, <1>2, <1>3, Numbers DEF Ind, TypeOK, Since
  <2> DEFINE m == (1 + misses) * CleanupPeriod
             n == (1 + (misses + 1)) * CleanupPeriod
  <2>2. m \in Nat /\ n = m + CleanupPeriod
    BY <2>1, OneMore
  <2>3. Horizon = due - m - StaleCutoff /\ Horizon' = (due + CleanupPeriod) - n - StaleCutoff
    BY <1>1, <2>1 DEF Horizon
  <2> HIDE DEF m, n
  <2> QED
    BY <1>1, <1>2, <2>2, <2>3, Numbers
<1>7. ASSUME NEW u \in Users PROVE StaleInv(u)' /\ FreshInv(u)'
    BY <1>1, <1>6 DEF Ind, StaleInv, FreshInv
<1>8. ASSUME NEW k \in Calls PROVE CallInv(k)'
    BY <1>1 DEF Ind, CallInv
<1>9. TypingForgotten'
    BY <1>1 DEF Ind, TypingForgotten
<1> QED
    BY <1>4, <1>5, <1>7, <1>8, <1>9 DEF Ind

\* Whatever the clean-up leaves is newer than its cutoff; whatever it takes was
\* StaleCutoff old, less MaxDelay at most.
LEMMA CleanupInd ==
    ASSUME Ind, CleanupStalePresence
    PROVE  Ind'
<1>1. /\ sent # None /\ sent' = None /\ misses' = 0
      /\ presence' = [u \in Users |-> IF Removed(presence[u]) THEN None ELSE presence[u]]
      /\ UNCHANGED <<now, typing, expiry, pc, op, user, stamp, due, signed, unbounded>>
    BY DEF CleanupStalePresence
<1>2. /\ now \in Nat /\ sent \in Nat /\ sent <= now /\ due = sent + CleanupPeriod
    BY <1>1, Numbers DEF Ind, TypeOK, CleanerInv
<1>3. TypeOK'
    BY <1>1 DEF Ind, TypeOK
<1>4. CleanerInv'
    BY <1>1 DEF CleanerInv
<1>5. Horizon' = sent - StaleCutoff
  <2>1. Since' = 0 /\ (1 + 0) * CleanupPeriod = CleanupPeriod
    BY <1>1, Numbers DEF Since
  <2>2. Horizon' = due - (1 + 0) * CleanupPeriod - StaleCutoff
    BY <1>1, <2>1 DEF Horizon
  <2> QED
    BY <1>2, <2>1, <2>2, Numbers
<1>6. ASSUME NEW u \in Users PROVE StaleInv(u)' /\ FreshInv(u)'
  <2>1. presence[u] \in Nat \cup {None} /\ signed[u] \in Nat \cup {None}
    BY Numbers DEF Ind, TypeOK
  <2>2. \/ /\ presence'[u] = None
           /\ presence[u] # None => presence[u] <= sent - StaleCutoff
        \/ /\ presence'[u] = presence[u]
           /\ presence[u] # None => ~(presence[u] <= sent - StaleCutoff)
    BY <1>1 DEF Removed
  <2>3. StaleInv(u)'
    BY <1>2, <1>5, <2>1, <2>2, Numbers DEF StaleInv
  <2>4. FreshInv(u)'
    BY <1>1, <1>2, <2>1, <2>2, Numbers DEF Ind, FreshInv
  <2> QED
    BY <2>3, <2>4
<1>7. ASSUME NEW k \in Calls PROVE CallInv(k)'
    BY <1>1 DEF Ind, CallInv
<1>8. TypingForgotten'
    BY <1>1 DEF Ind, TypingForgotten
<1> QED
    BY <1>3, <1>4, <1>6, <1>7, <1>8 DEF Ind

LEMMA CleanupFailsInd ==
    ASSUME Ind, CleanupFails
    PROVE  Ind'
<1>1. /\ sent # None /\ sent' = None /\ misses' = misses + 1
      /\ UNCHANGED <<now, presence, typing, expiry, pc, op, user, stamp, due, signed,
                     unbounded>>
    BY DEF CleanupFails, redis
<1>2. TypeOK'
    BY <1>1 DEF Ind, TypeOK
<1>3. CleanerInv' /\ Horizon' = Horizon
    BY <1>1 DEF CleanerInv, Since, Horizon
<1>4. ASSUME NEW u \in Users PROVE StaleInv(u)' /\ FreshInv(u)'
    BY <1>1, <1>3 DEF Ind, StaleInv, FreshInv
<1>5. ASSUME NEW k \in Calls PROVE CallInv(k)'
    BY <1>1 DEF Ind, CallInv
<1>6. TypingForgotten'
    BY <1>1 DEF Ind, TypingForgotten
<1> QED
    BY <1>2, <1>3, <1>4, <1>5, <1>6 DEF Ind

LEMMA TickInd ==
    ASSUME Ind, Tick
    PROVE  Ind'
<1>1. /\ now < MaxTime /\ Patient /\ now' = now + 1
      /\ UNCHANGED <<presence, pc, op, user, stamp, due, sent, misses, signed>>
      /\ \/ expiry = now + 1 /\ typing' = {} /\ expiry' = None /\ unbounded' = FALSE
         \/ expiry # now + 1 /\ UNCHANGED <<typing, expiry, unbounded>>
    BY DEF Tick, cleaner
<1>2. /\ now \in Nat /\ due \in Nat /\ now <= due /\ due <= now + CleanupPeriod
      /\ now' \in 0..MaxTime
    BY <1>1, Numbers DEF Ind, TypeOK
<1>3. now + 1 <= due
    BY <1>1, <1>2 DEF Patient
<1>4. TypeOK'
  <2>1. due \in now'..(now' + CleanupPeriod)
    BY <1>1, <1>2, <1>3, Numbers
  <2>2. sent \in 0..now' \cup {None}
    BY <1>1, <1>2 DEF Ind, TypeOK
  <2>3. /\ typing' \subseteq Users /\ unbounded' \in BOOLEAN
        /\ expiry' \in Nat \cup {None}
        /\ expiry' # None => typing' # {} /\ expiry' > now'
    <3>1. CASE typing' = {} /\ expiry' = None /\ unbounded' = FALSE
      BY <3>1
    <3>2. CASE expiry # now + 1 /\ UNCHANGED <<typing, expiry, unbounded>>
      <4>1. /\ expiry \in Nat \cup {None}
            /\ expiry # None => typing # {} /\ expiry > now
        BY DEF Ind, TypeOK
      <4>2. expiry # None => expiry > now + 1
        BY <1>2, <3>2, <4>1
      <4> QED
        BY <1>1, <3>2, <4>1, <4>2 DEF Ind, TypeOK
    <3> QED
      BY <1>1, <3>1, <3>2
  <2> QED
    BY <1>1, <1>2, <2>1, <2>2, <2>3 DEF Ind, TypeOK
<1>5. CleanerInv'
    BY <1>1, <1>2, Numbers DEF Ind, TypeOK, CleanerInv, Patient
<1>6. Horizon' = Horizon
    BY <1>1 DEF Horizon, Since
<1>7. ASSUME NEW u \in Users PROVE StaleInv(u)' /\ FreshInv(u)'
  <2>1. presence[u] \in Nat \cup {None} /\ signed[u] \in Nat \cup {None}
    BY Numbers DEF Ind, TypeOK
  <2> QED
    BY <1>1, <1>2, <1>6, <2>1, Numbers DEF Ind, StaleInv, FreshInv
<1>8. ASSUME NEW k \in Calls PROVE CallInv(k)'
  <2>1. pc[k] \in {"command", "expire"} => stamp[k] \in 0..now
    BY DEF Ind, CallInv
  <2> QED
    BY <1>1, <1>2, <2>1, Numbers DEF Ind, CallInv, Patient
<1>9. TypingForgotten'
  <2>1. SUFFICES ASSUME typing' # {}
                 PROVE  \/ expiry' # None /\ expiry' <= now' + TypingTTL
                        \/ \E c \in Calls : pc'[c] = "expire"
                        \/ unbounded'
    BY DEF TypingForgotten
  <2>2. UNCHANGED <<typing, expiry, unbounded, pc>>
    BY <1>1, <2>1
  <2>3. expiry <= now + TypingTTL => expiry <= now' + TypingTTL
    BY <1>1, <1>2, Numbers DEF Ind, TypeOK
  <2> QED
    BY <2>1, <2>2, <2>3 DEF Ind, TypingForgotten
<1> QED
    BY <1>4, <1>5, <1>7, <1>8, <1>9 DEF Ind

LEMMA NextInd == Ind /\ [Next]_vars => Ind'
<1> SUFFICES ASSUME Ind, [Next]_vars PROVE Ind'
    OBVIOUS
<1>1. ASSUME NEW k \in Calls, Call(k) PROVE Ind'
    BY <1>1, BeginInd, SetOnlineInd, SetOfflineInd, AddTypingInd, ExpireTypingInd,
       ExpireLostInd, ClearTypingInd, CommandFailsInd DEF Call
<1>2. CASE UNCHANGED vars
  <2>1. TypeOK' /\ \A k \in Calls : CallInv(k)'
    BY <1>2 DEF vars, redis, cleaner, Ind, TypeOK, CallInv
  <2>2. TypingForgotten'
    BY <1>2 DEF vars, redis, Ind, TypingForgotten
  <2>3. UNCHANGED <<now, presence, cleaner, signed>>
    BY <1>2 DEF vars, redis, cleaner
  <2> QED
    BY <2>1, <2>2, <2>3, PresenceStays DEF Ind
<1> QED
    BY <1>1, <1>2, TickerFiresInd, CleanupInd, CleanupFailsInd, TickInd DEF Next

\* The inductive invariant: the calls and the clean-up on their way, and the age of
\* every entry they may still leave.
THEOREM Invariance == Spec => []Ind
BY InitInd, NextInd, PTL DEF Spec

-----------------------------------------------------------------------------
(* The theorems *)

\* Every variable keeps its type; a key without members has no lifetime, the ticker
\* is never overtaken, and a clean-up on its way has read a time that has come.
THEOREM TypeCorrect == Spec => []TypeOK
<1>1. Ind => TypeOK
    BY DEF Ind
<1> QED
    BY <1>1, Invariance, PTL

\* The typing set has a lifetime of at most typingTTL, or a call is about to give it
\* one, or an EXPIRE was lost, whatever calls meet on the key.
THEOREM TypingEnds == Spec => []TypingForgotten
<1>1. Ind => TypingForgotten
    BY DEF Ind
<1> QED
    BY <1>1, Invariance, PTL

\* A user who has signed on less than staleCutoff ago, less the delay of a command,
\* and has not signed off is listed, in whatever order the commands arrive.
THEOREM FreshListed == Spec => []FreshStays
<1>1. Ind => FreshStays
  <2> SUFFICES ASSUME Ind, NEW u \in Users, signed[u] # None,
                      now - signed[u] < StaleCutoff - MaxDelay
               PROVE  presence[u] # None
    BY DEF FreshStays
  <2>1. presence[u] = None => signed[u] + StaleCutoff <= now + MaxDelay
    BY DEF Ind, FreshInv
  <2>2. now \in Nat /\ signed[u] \in Nat
    BY Numbers DEF Ind, TypeOK
  <2> QED
    BY <2>1, <2>2, Numbers
<1> QED
    BY <1>1, Invariance, PTL

\* Nobody is listed longer than staleCutoff and one period for the next clean-up and
\* for each that failed, and the delay of a command.
THEOREM StaleRemoved == Spec => []StaleGoes
<1>1. Ind => StaleGoes
  <2> SUFFICES ASSUME Ind, NEW u \in Users, presence[u] # None
               PROVE  now - presence[u]
                        < StaleCutoff + (1 + misses) * CleanupPeriod + MaxDelay
    BY DEF StaleGoes
  <2> DEFINE m == (1 + misses) * CleanupPeriod
  <2>1. /\ now \in Nat /\ due \in Nat /\ now <= due /\ misses \in Nat
        /\ presence[u] \in Nat /\ sent \in Nat \cup {None}
    BY Numbers DEF Ind, TypeOK
  <2>2. m \in Nat /\ (1 + (misses + 1)) * CleanupPeriod = m + CleanupPeriod
    BY <2>1, OneMore
  <2>3. presence[u] > Horizon
    BY DEF Ind, StaleInv
  <2>4. CASE sent = None
    <3>1. Horizon = due - m - StaleCutoff
      BY <2>4 DEF Horizon, Since
    <3> HIDE DEF m
    <3>2. now - presence[u] < StaleCutoff + m + MaxDelay
      BY <2>1, <2>2, <2>3, <3>1, Numbers
    <3> QED
      BY <3>2 DEF m
  <2>5. CASE sent # None
    <3>1. Horizon = due - (m + CleanupPeriod) - StaleCutoff
      BY <2>2, <2>5 DEF Horizon, Since
    <3>2. due = sent + CleanupPeriod /\ now <= sent + MaxDelay /\ sent \in Nat
      BY <2>1, <2>5 DEF Ind, CleanerInv
    <3> HIDE DEF m
    <3>3. now - presence[u] < StaleCutoff + m + MaxDelay
      BY <2>1, <2>2, <2>3, <3>1, <3>2, Numbers
    <3> QED
      BY <3>3 DEF m
  <2> QED
    BY <2>4, <2>5
<1> QED
    BY <1>1, Invariance, PTL

=============================================================================
