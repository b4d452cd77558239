--------------------------- MODULE KeyCacheProofs ---------------------------
(***************************************************************************)
(* What holds of KeyCache for every set of key ids, keys and requests.     *)
(***************************************************************************)
EXTENDS KeyCache, TLAPS

\* All the keys of a key set have been published under their key ids.
Known(set) == \A k \in Kids : set[k] \in Keys => <<k, set[k]>> \in ever

\* What is published, what is cached, and what a refresh was answered with and has
\* yet to store, was published at some time since the process started.
AllKnown == Known(published) /\ Known(keys) /\ \A r \in Reqs : Known(body[r])

\* A request has no answer before it is done.
AnsweredLast == \A r \in Reqs : pc[r] # "done" => res[r] = "none"

Ind == TypeOK /\ AllKnown /\ AnsweredLast /\ AcceptedWasIssued

USE DEF PCs

\* A cache that takes over a key set stays a cache of known keys.
LEMMA MergeKnown ==
    ASSUME NEW cache \in KeySet, NEW set \in KeySet, Known(cache), Known(set)
    PROVE  Merge(cache, set) \in KeySet /\ Known(Merge(cache, set))
BY DEF Merge, Known, KeySet

\* The empty key set knows no keys.
LEMMA NoKeysKnown == NoKeys \in KeySet /\ Known(NoKeys)
BY KeysAssumption DEF NoKeys, Known, KeySet

\* The invariant holds when the middleware has been made.
LEMMA InitInd == Init => Ind
<1> SUFFICES ASSUME Init PROVE Ind
    OBVIOUS
<1>1. published \in KeySet /\ ever = Entries(published)
    BY DEF Init
<1>2. Known(published)
    BY <1>1 DEF Known, Entries
<1>3. keys \in KeySet /\ Known(keys)
    BY <1>1, <1>2, MergeKnown, NoKeysKnown DEF Init
<1>4. NoToken \in Token
    BY KeysAssumption DEF NoToken, Token
<1>5. ever \subseteq Kids \X Keys
    BY <1>1 DEF Entries, KeySet
<1>6. TypeOK
    BY <1>1, <1>3, <1>4, <1>5, NoKeysKnown, NoReqAssumption, RotationsAssumption
       DEF Init, TypeOK, KeySet
<1>7. AllKnown
    BY <1>2, <1>3, NoKeysKnown DEF AllKnown, Init
<1>8. AnsweredLast /\ AcceptedWasIssued
    BY DEF AnsweredLast, AcceptedWasIssued, Init
<1> QED
    BY <1>6, <1>7, <1>8 DEF Ind

-----------------------------------------------------------------------------
(* One lemma for each action *)

\* A rotation publishes what is known from then on, and forgets nothing.
LEMMA RotateInd == Ind /\ Rotate => Ind'
<1> SUFFICES ASSUME Ind, Rotate PROVE Ind'
    OBVIOUS
<1> USE DEF Ind
<1>1. PICK k \in Kids, key \in Keys \cup {NoKey} :
          /\ published' = [published EXCEPT ![k] = key]
          /\ steady' = [r \in Reqs |-> steady[r] /\ token[r].kid # k]
    BY DEF Rotate
<1>2. published' \in KeySet
    BY <1>1 DEF TypeOK, KeySet
<1>3. ever' = ever \cup Entries(published') /\ ever \subseteq ever'
    BY DEF Rotate
<1>4. steady' \in [Reqs -> BOOLEAN]
  <2>1. \A r \in Reqs : steady[r] \in BOOLEAN
    BY DEF TypeOK
  <2> QED
    BY <1>1, <2>1, Zenon
<1>5. ever' \subseteq Kids \X Keys
    BY <1>2, <1>3 DEF Entries, TypeOK, KeySet
<1>6. rotations' \in 0..MaxRotations
    BY RotationsAssumption DEF Rotate, TypeOK
<1>7. TypeOK'
    BY <1>2, <1>4, <1>5, <1>6 DEF Rotate, TypeOK
<1>8. AllKnown'
    BY <1>2, <1>3 DEF Rotate, AllKnown, Known, Entries
<1>9. AnsweredLast' /\ AcceptedWasIssued'
    BY <1>3 DEF Rotate, AnsweredLast, AcceptedWasIssued
<1> QED
    BY <1>7, <1>8, <1>9

\* An answer that is a refusal, or one the cache's key agrees with, breaks nothing.
LEMMA AnswerInd ==
    ASSUME Ind, NEW r \in Reqs, NEW a \in {"ok", "unauthorized"},
           Answer(r, a), pc[r] \notin {"fetch", "store"},
           a = "ok" /\ ~dev => <<token[r].kid, token[r].key>> \in ever,
           UNCHANGED <<issuer, dev, keys, lock, token, body, history>>
    PROVE  Ind'
<1> USE DEF Ind
<1>1. TypeOK'
    BY DEF TypeOK, Answer, issuer, history
<1>2. AllKnown'
    BY DEF AllKnown, Known, issuer, history
<1>3. AnsweredLast' /\ AcceptedWasIssued'
    BY DEF AnsweredLast, AcceptedWasIssued, Answer, TypeOK, history
<1> QED
    BY <1>1, <1>2, <1>3

\* What a verdict lets through was signed with the key it was given.
LEMMA VerdictSound ==
    ASSUME Ind, NEW r \in Reqs, NEW key,
           key = keys[token[r].kid], key # NoKey
    PROVE  /\ Verdict(r, key) \in {"ok", "unauthorized"}
           /\ Verdict(r, key) = "ok" => <<token[r].kid, token[r].key>> \in ever
<1>1. token[r].kid \in Kids /\ key \in Keys
    BY DEF Ind, TypeOK, Token
<1> QED
    BY <1>1 DEF Verdict, Ind, AllKnown, Known

\* Requests that never look at the cache.
LEMMA ArriveInd == ASSUME NEW r \in Reqs PROVE Ind /\ Arrive(r) => Ind'
<1> SUFFICES ASSUME Ind, Arrive(r) PROVE Ind'
    OBVIOUS
<1>1. CASE Refuse(r)
    BY <1>1, AnswerInd DEF Refuse
<1>2. CASE ParseUnverified(r)
    BY <1>2, AnswerInd DEF ParseUnverified
<1>3. CASE Authenticate(r)
  <2>1. PICK t \in Token :
            /\ token' = [token EXCEPT ![r] = t]
            /\ steady' = [steady EXCEPT ![r] = published[t.kid] = t.key]
    BY <1>3 DEF Authenticate
  <2>2. token' \in [Reqs -> Token]
    BY <2>1 DEF Ind, TypeOK
  <2>3. steady' \in [Reqs -> BOOLEAN]
    BY <2>1, Zenon DEF Ind, TypeOK
  <2>4. TypeOK'
    BY <1>3, <2>2, <2>3 DEF Authenticate, Goto, Ind, TypeOK, issuer
  <2>5. AllKnown'
    BY <1>3 DEF Authenticate, Ind, AllKnown, Known, issuer
  <2>6. AnsweredLast'
    BY <1>3 DEF Authenticate, Goto, Ind, TypeOK, AnsweredLast
  <2>7. AcceptedWasIssued'
    <3>1. \A s \in Reqs : s # r => token'[s] = token[s]
      BY <2>1 DEF Ind, TypeOK
    <3>2. res'[r] = "none"
      BY <1>3 DEF Authenticate, Goto, Ind, AnsweredLast
    <3> QED
      BY <1>3, <3>1, <3>2 DEF Authenticate, Goto, Ind, AcceptedWasIssued
  <2> QED
    BY <2>4, <2>5, <2>6, <2>7 DEF Ind
<1> QED
    BY <1>1, <1>2, <1>3 DEF Arrive

\* The first look answers from a key the cache has, and otherwise goes to refresh.
LEMMA LookupInd == ASSUME NEW r \in Reqs PROVE Ind /\ Lookup(r) => Ind'
<1> SUFFICES ASSUME Ind, Lookup(r) PROVE Ind'
    OBVIOUS
<1> DEFINE key == keys[token[r].kid]
<1>1. CASE key # NoKey
  <2>1. Answer(r, Verdict(r, key))
    BY <1>1 DEF Lookup
  <2> QED
    BY <1>1, <2>1, VerdictSound, AnswerInd DEF Lookup
<1>2. CASE key = NoKey
  <2>1. Goto(r, "refresh")
    BY <1>2 DEF Lookup
  <2> QED
    BY <2>1 DEF Lookup, Goto, Ind, TypeOK, AllKnown, Known, AnsweredLast,
                AcceptedWasIssued, issuer, history
<1> QED
    BY <1>1, <1>2

\* The second look answers either way.
LEMMA LookupAgainInd == ASSUME NEW r \in Reqs PROVE Ind /\ LookupAgain(r) => Ind'
<1> SUFFICES ASSUME Ind, LookupAgain(r) PROVE Ind'
    OBVIOUS
<1> DEFINE key == keys[token[r].kid]
<1>1. CASE key # NoKey
  <2>1. Answer(r, Verdict(r, key))
    BY <1>1 DEF LookupAgain
  <2> QED
    BY <1>1, <2>1, VerdictSound, AnswerInd DEF LookupAgain
<1>2. CASE key = NoKey
  <2>1. Answer(r, "unauthorized")
    BY <1>2 DEF LookupAgain
  <2> QED
    BY <2>1, AnswerInd DEF LookupAgain
<1> QED
    BY <1>1, <1>2

\* The write lock is taken when nobody has it.
LEMMA RefreshLockInd == ASSUME NEW r \in Reqs PROVE Ind /\ RefreshLock(r) => Ind'
<1> SUFFICES ASSUME Ind, RefreshLock(r) PROVE Ind'
    OBVIOUS
<1> USE DEF RefreshLock, Goto, Ind, issuer, history
<1>1. \A s \in Reqs : pc[s] \notin {"fetch", "store"}
    BY NoReqAssumption DEF TypeOK
<1>2. TypeOK'
    BY <1>1 DEF TypeOK
<1>3. AllKnown'
    BY DEF AllKnown, Known
<1>4. AnsweredLast' /\ AcceptedWasIssued'
    BY DEF AnsweredLast, AcceptedWasIssued, TypeOK
<1> QED
    BY <1>2, <1>3, <1>4

\* Both answers of the issuer hold known keys only.
LEMMA FetchAnsweredInd ==
    ASSUME NEW r \in Reqs PROVE Ind /\ FetchAnswered(r) => Ind'
<1> SUFFICES ASSUME Ind, FetchAnswered(r) PROVE Ind'
    OBVIOUS
<1> USE DEF FetchAnswered, Goto, Ind, issuer
<1>1. PICK set \in {published, NoKeys} :
          /\ body' = [body EXCEPT ![r] = set]
          /\ got' = [got EXCEPT ![r] = IF set = published THEN "keys" ELSE "other"]
    OBVIOUS
<1>2. set \in KeySet /\ Known(set)
    BY NoKeysKnown DEF TypeOK, AllKnown
<1>3. TypeOK'
    BY <1>1, <1>2 DEF TypeOK
<1>4. AllKnown'
    BY <1>1, <1>2 DEF AllKnown, Known, TypeOK
<1>5. AnsweredLast' /\ AcceptedWasIssued'
    BY DEF AnsweredLast, AcceptedWasIssued, TypeOK
<1> QED
    BY <1>3, <1>4, <1>5

\* A failed fetch gives the lock back and refuses.
LEMMA FetchFailsInd == ASSUME NEW r \in Reqs PROVE Ind /\ FetchFails(r) => Ind'
<1> SUFFICES ASSUME Ind, FetchFails(r) PROVE Ind'
    OBVIOUS
<1> USE DEF FetchFails, Answer, Ind, issuer
<1>1. TypeOK'
    BY NoReqAssumption DEF TypeOK
<1>2. AllKnown'
    BY DEF AllKnown, Known
<1>3. AnsweredLast' /\ AcceptedWasIssued'
    BY DEF AnsweredLast, AcceptedWasIssued, TypeOK
<1> QED
    BY <1>1, <1>2, <1>3

\* The answer is merged into the cache and the lock given back.
LEMMA RefreshStoreInd ==
    ASSUME NEW r \in Reqs PROVE Ind /\ RefreshStore(r) => Ind'
<1> SUFFICES ASSUME Ind, RefreshStore(r) PROVE Ind'
    OBVIOUS
<1> USE DEF RefreshStore, Goto, Ind, issuer, history
<1>1. keys' \in KeySet /\ Known(keys')
  <2>1. keys \in KeySet /\ body[r] \in KeySet /\ Known(keys) /\ Known(body[r])
    BY DEF TypeOK, AllKnown, KeySet
  <2>2. Merge(keys, body[r]) \in KeySet /\ Known(Merge(keys, body[r]))
    BY <2>1, MergeKnown
  <2> QED
    BY <2>2
<1>2. TypeOK'
    BY <1>1, NoKeysKnown, NoReqAssumption DEF TypeOK, KeySet
<1>3. AllKnown'
    BY <1>1, NoKeysKnown DEF AllKnown, Known, TypeOK
<1>4. AnsweredLast' /\ AcceptedWasIssued'
    BY DEF AnsweredLast, AcceptedWasIssued, TypeOK
<1> QED
    BY <1>2, <1>3, <1>4

-----------------------------------------------------------------------------
(* Theorems *)

\* Nothing the issuer, the requests or the cache do breaks the invariant.
LEMMA NextInd == Ind /\ [Next]_vars => Ind'
<1> SUFFICES ASSUME Ind, [Next]_vars PROVE Ind'
    OBVIOUS
<1>1. CASE Rotate
    BY <1>1, RotateInd
<1>2. ASSUME NEW r \in Reqs, Arrive(r) PROVE Ind'
    BY <1>2, ArriveInd
<1>3. ASSUME NEW r \in Reqs, Step(r) PROVE Ind'
    BY <1>3, LookupInd, LookupAgainInd, RefreshLockInd, FetchAnsweredInd,
       FetchFailsInd, RefreshStoreInd DEF Step
<1>4. CASE UNCHANGED vars
    BY <1>4 DEF vars, Ind, TypeOK, AllKnown, Known, AnsweredLast,
                AcceptedWasIssued
<1> QED
    BY <1>1, <1>2, <1>3, <1>4 DEF Next

\* The inductive invariant: besides the two properties below, all that is
\* published, cached or on its way into the cache is known, and nobody has an
\* answer before it is done.
THEOREM Invariance == Spec => []Ind
<1>1. Init => Ind
    BY InitInd
<1>2. Ind /\ [Next]_vars => Ind'
    BY NextInd
<1> QED
    BY <1>1, <1>2, PTL DEF Spec

\* Every variable keeps its type, and jwksCache.mu is held for writing by exactly
\* the request that fetches or stores: no path through refresh keeps it.
THEOREM TypeCorrect == Spec => []TypeOK
<1>1. Ind => TypeOK
    BY DEF Ind
<1> QED
    BY <1>1, Invariance, PTL

\* A verified request is let through only with a key that was published under its
\* key id while the process ran, however often keys are replaced, whatever
\* fetches fail, and in whatever order requests refresh the cache.
THEOREM OnlyIssuedKeys == Spec => []AcceptedWasIssued
<1>1. Ind => AcceptedWasIssued
    BY DEF Ind
<1> QED
    BY <1>1, Invariance, PTL

-----------------------------------------------------------------------------
(* A key that is published all along is found *)

\* What a request whose token bears such a key finds in the issuer's answer and in
\* the cache: its own refresh brings the key, and whoever refreshes after it, before
\* its second look, cannot replace the key, since the lock is held from before the
\* fetch until the answer is stored.
LiveInv(r) ==
    /\ pc[r] = "idle" => ~steady[r]
    /\ steady[r] => published[token[r].kid] = token[r].key
    /\ pc[r] \in {"idle", "lookup", "refresh", "fetch"} => got[r] = "none"
    /\ pc[r] \in {"store", "again"} => got[r] # "none"
    /\ (pc[r] = "store" /\ steady[r] /\ got[r] = "keys") =>
          body[r][token[r].kid] = token[r].key
    /\ (pc[r] = "again" /\ steady[r] /\ got[r] = "keys") =>
          /\ keys[token[r].kid] = token[r].key
          /\ \A s \in Reqs : pc[s] = "store" =>
                body[s][token[r].kid] \in {token[r].key, NoKey}

LiveInd == (\A r \in Reqs : LiveInv(r)) /\ LiveKeyAccepted

\* What LiveKeyAccepted says of one request.
LiveKey(r) ==
    (res[r] = "unauthorized" /\ token[r].good /\ steady[r]) =>
        /\ got[r] # "keys"
        /\ got[r] = "none" => token[r].kid \in Reissued

LEMMA LiveKeys == LiveKeyAccepted <=> \A r \in Reqs : LiveKey(r)
BY DEF LiveKeyAccepted, LiveKey

\* A key id that had two keys goes on having had them.
LEMMA ReissuedGrows ==
    ASSUME ever \subseteq ever'
    PROVE  Reissued \subseteq Reissued'
BY DEF Reissued

\* A request that does nothing itself.
LEMMA OthersLive ==
    ASSUME NEW q \in Reqs, LiveInv(q), LiveKey(q), ever \subseteq ever',
           pc'[q] = pc[q], token'[q] = token[q], res'[q] = res[q],
           body'[q] = body[q], got'[q] = got[q], steady'[q] => steady[q],
           steady'[q] => published'[token[q].kid] = token[q].key,
           (pc[q] = "again" /\ steady'[q] /\ got[q] = "keys") =>
              /\ keys'[token[q].kid] = token[q].key
              /\ \A s \in Reqs : pc'[s] = "store" =>
                    body'[s][token[q].kid] \in {token[q].key, NoKey}
    PROVE  LiveInv(q)' /\ LiveKey(q)'
<1>1. LiveInv(q)'
    BY DEF LiveInv
<1>2. LiveKey(q)'
    BY ReissuedGrows DEF LiveKey
<1> QED
    BY <1>1, <1>2

\* Steps that leave the issuer, the cache and what is on its way into it alone.
LEMMA QuietLive ==
    ASSUME LiveInd, NEW r \in Reqs,
           UNCHANGED <<published, keys, ever, body>>,
           \A q \in Reqs : pc'[q] = "store" => pc[q] = "store",
           \A q \in Reqs \ {r} :
              /\ pc'[q] = pc[q] /\ token'[q] = token[q] /\ res'[q] = res[q]
              /\ got'[q] = got[q] /\ steady'[q] = steady[q],
           LiveInv(r)', LiveKey(r)'
    PROVE  LiveInd'
<1>1. ASSUME NEW q \in Reqs \ {r}
      PROVE  LiveInv(q)' /\ LiveKey(q)'
  <2>1. LiveInv(q) /\ LiveKey(q)
    BY LiveKeys DEF LiveInd
  <2>2. steady'[q] => published'[token[q].kid] = token[q].key
    BY <2>1 DEF LiveInv
  <2>3. (pc[q] = "again" /\ steady'[q] /\ got[q] = "keys") =>
           /\ keys'[token[q].kid] = token[q].key
           /\ \A s \in Reqs : pc'[s] = "store" =>
                 body'[s][token[q].kid] \in {token[q].key, NoKey}
    BY <2>1 DEF LiveInv
  <2> QED
    BY <2>1, <2>2, <2>3, OthersLive
<1>2. LiveKeyAccepted'
    BY <1>1 DEF LiveKeyAccepted, LiveKey
<1> QED
    BY <1>1, <1>2 DEF LiveInd

\* Rotating a key ends the steadiness of whoever relies on it.
LEMMA RotateLive == Ind /\ LiveInd /\ Rotate => LiveInd'
<1> SUFFICES ASSUME Ind, LiveInd, Rotate PROVE LiveInd'
    OBVIOUS
<1>1. PICK k \in Kids, key \in Keys \cup {NoKey} :
          /\ published' = [published EXCEPT ![k] = key]
          /\ steady' = [r \in Reqs |-> steady[r] /\ token[r].kid # k]
    BY DEF Rotate
<1>2. /\ ever \subseteq ever'
      /\ UNCHANGED <<dev, keys, lock, pc, token, res, body, got>>
    BY DEF Rotate
<1>3. ASSUME NEW q \in Reqs
      PROVE  LiveInv(q)' /\ LiveKey(q)'
  <2>1. LiveInv(q) /\ LiveKey(q)
    BY LiveKeys DEF LiveInd
  <2>2. steady'[q] => steady[q] /\ token[q].kid # k
    BY <1>1
  <2>3. steady'[q] => published'[token[q].kid] = token[q].key
    BY <1>1, <2>1, <2>2 DEF Ind, TypeOK, KeySet, Token, LiveInv
  <2>4. (pc[q] = "again" /\ steady'[q] /\ got[q] = "keys") =>
           /\ keys'[token[q].kid] = token[q].key
           /\ \A s \in Reqs : pc'[s] = "store" =>
                 body'[s][token[q].kid] \in {token[q].key, NoKey}
    BY <1>2, <2>1, <2>2 DEF LiveInv
  <2> QED
    BY <1>2, <2>1, <2>2, <2>3, <2>4, OthersLive
<1>4. LiveKeyAccepted'
    BY <1>3 DEF LiveKeyAccepted, LiveKey
<1> QED
    BY <1>3, <1>4 DEF LiveInd

\* A request that arrives relies on what is published now.
LEMMA ArriveLive ==
    ASSUME Ind, LiveInd, NEW r \in Reqs, Arrive(r)
    PROVE  LiveInd'
<1>1. TypeOK /\ LiveInv(r) /\ pc[r] = "idle" /\ res[r] = "none"
    BY DEF Ind, AnsweredLast, LiveInd, Arrive, Refuse, ParseUnverified, Authenticate
<1>2. CASE Refuse(r) \/ ParseUnverified(r)
  <2>1. PICK a : Answer(r, a) /\ UNCHANGED <<issuer, dev, keys, lock, token, body, history>>
    BY <1>2 DEF Refuse, ParseUnverified
  <2>2. /\ pc'[r] = "done" /\ UNCHANGED <<published, keys, ever, body, token, steady, got>>
        /\ \A q \in Reqs \ {r} : pc'[q] = pc[q] /\ res'[q] = res[q]
    BY <1>1, <2>1 DEF Answer, TypeOK, issuer, history
  <2>3. LiveInv(r)' /\ LiveKey(r)'
    BY <1>1, <2>2 DEF LiveInv, LiveKey
  <2> QED
    BY <2>2, <2>3, QuietLive
<1>3. CASE Authenticate(r)
  <2>1. PICK t \in Token :
            /\ token' = [token EXCEPT ![r] = t]
            /\ steady' = [steady EXCEPT ![r] = published[t.kid] = t.key]
    BY <1>3 DEF Authenticate
  <2>2. /\ steady'[r] <=> published[t.kid] = t.key
        /\ \A q \in Reqs \ {r} : steady'[q] = steady[q]
    BY <1>1, <2>1, Zenon DEF TypeOK
  <2>3. /\ pc'[r] = "lookup" /\ UNCHANGED <<published, keys, ever, body, res, got>>
        /\ token'[r] = t
        /\ \A q \in Reqs \ {r} : pc'[q] = pc[q] /\ token'[q] = token[q]
    BY <1>1, <1>3, <2>1 DEF Authenticate, Goto, TypeOK, issuer
  <2>4. LiveInv(r)' /\ LiveKey(r)'
    BY <1>1, <2>2, <2>3 DEF LiveInv, LiveKey
  <2> QED
    BY <2>2, <2>3, <2>4, QuietLive
<1> QED
    BY <1>2, <1>3 DEF Arrive

\* Two keys for one key id: the cached one, and the one that is published.
LEMMA OtherKeyReissued ==
    ASSUME Ind, NEW r \in Reqs, keys[token[r].kid] # NoKey,
           keys[token[r].kid] # token[r].key, published[token[r].kid] = token[r].key
    PROVE  token[r].kid \in Reissued
<1>1. token[r].kid \in Kids /\ token[r].key \in Keys /\ keys[token[r].kid] \in Keys
    BY DEF Ind, TypeOK, Token
<1>2. /\ <<token[r].kid, token[r].key>> \in ever
      /\ <<token[r].kid, keys[token[r].kid]>> \in ever
    BY <1>1 DEF Ind, AllKnown, Known
<1> QED
    BY <1>1, <1>2 DEF Reissued

\* Both looks at the cache.
LEMMA LookLive ==
    ASSUME Ind, LiveInd, NEW r \in Reqs, Lookup(r) \/ LookupAgain(r)
    PROVE  LiveInd'
<1> DEFINE key == keys[token[r].kid]
<1>1. /\ TypeOK /\ LiveInv(r) /\ res[r] = "none"
      /\ UNCHANGED <<issuer, dev, keys, lock, token, body, history>>
    BY DEF Ind, AnsweredLast, LiveInd, Lookup, LookupAgain
<1>2. UNCHANGED <<published, keys, ever, body, token, steady, got>>
    BY <1>1 DEF issuer, history
<1>3. CASE Goto(r, "refresh") /\ pc[r] = "lookup"
  <2>1. /\ pc'[r] = "refresh" /\ res' = res
        /\ \A q \in Reqs \ {r} : pc'[q] = pc[q]
    BY <1>1, <1>3 DEF Goto, TypeOK
  <2>2. LiveInv(r)' /\ LiveKey(r)'
    BY <1>1, <1>2, <1>3, <2>1 DEF LiveInv, LiveKey
  <2> QED
    BY <1>2, <2>1, <2>2, QuietLive
<1>4. ASSUME NEW a, Answer(r, a),
             \/ pc[r] = "lookup" /\ key # NoKey /\ a = Verdict(r, key)
             \/ pc[r] = "again" /\ a = IF key = NoKey THEN "unauthorized"
                                                      ELSE Verdict(r, key)
      PROVE  LiveInd'
  <2>1. /\ pc'[r] = "done" /\ res'[r] = a
        /\ \A q \in Reqs \ {r} : pc'[q] = pc[q] /\ res'[q] = res[q]
    BY <1>1, <1>4 DEF Answer, TypeOK
  <2>2. LiveInv(r)'
    BY <1>1, <1>2, <2>1 DEF LiveInv
  <2>3. token[r].key # NoKey
    BY <1>1, KeysAssumption DEF TypeOK, Token
  <2>4. LiveKey(r)'
    <3>1. SUFFICES ASSUME a = "unauthorized", token[r].good, steady[r]
                   PROVE  got[r] # "keys" /\ (got[r] = "none" => token[r].kid \in Reissued)
      <4>1. Reissued' = Reissued
        BY <1>2 DEF Reissued
      <4> QED
        BY <1>2, <2>1, <4>1 DEF LiveKey
    <3>2. published[token[r].kid] = token[r].key
      BY <1>1, <3>1 DEF LiveInv
    <3>3. CASE pc[r] = "lookup"
      <4>1. key # NoKey /\ key # token[r].key
        BY <1>4, <3>1, <3>3 DEF Verdict
      <4> QED
        BY <1>1, <3>2, <3>3, <4>1, OtherKeyReissued DEF LiveInv
    <3>4. CASE pc[r] = "again"
      <4>1. key # token[r].key
        BY <1>4, <2>3, <3>1, <3>4 DEF Verdict
      <4> QED
        BY <1>1, <3>1, <3>4, <4>1 DEF LiveInv
    <3> QED
      BY <1>4, <3>3, <3>4
  <2> QED
    BY <1>2, <2>1, <2>2, <2>4, QuietLive
<1> QED
    BY <1>3, <1>4 DEF Lookup, LookupAgain

LEMMA RefreshLockLive ==
    ASSUME Ind, LiveInd, NEW r \in Reqs, RefreshLock(r)
    PROVE  LiveInd'
<1>1. /\ TypeOK /\ LiveInv(r) /\ res[r] = "none" /\ pc[r] = "refresh"
      /\ UNCHANGED <<published, keys, ever, body, token, steady, got, res>>
    BY DEF Ind, AnsweredLast, LiveInd, RefreshLock, Goto, issuer, history
<1>2. pc'[r] = "fetch" /\ \A q \in Reqs \ {r} : pc'[q] = pc[q]
    BY <1>1 DEF RefreshLock, Goto, TypeOK
<1>3. LiveInv(r)' /\ LiveKey(r)'
    BY <1>1, <1>2 DEF LiveInv, LiveKey
<1> QED
    BY <1>1, <1>2, <1>3, QuietLive

LEMMA FetchFailsLive ==
    ASSUME Ind, LiveInd, NEW r \in Reqs, FetchFails(r)
    PROVE  LiveInd'
<1>1. /\ TypeOK /\ LiveInv(r) /\ pc[r] = "fetch"
      /\ UNCHANGED <<published, keys, ever, body, token, steady>>
    BY DEF Ind, LiveInd, FetchFails, issuer
<1>2. /\ pc'[r] = "done" /\ got'[r] = "error"
      /\ \A q \in Reqs \ {r} : pc'[q] = pc[q] /\ res'[q] = res[q] /\ got'[q] = got[q]
    BY <1>1 DEF FetchFails, Answer, TypeOK
<1>3. LiveInv(r)' /\ LiveKey(r)'
    BY <1>1, <1>2 DEF LiveInv, LiveKey
<1> QED
    BY <1>1, <1>2, <1>3, QuietLive

\* The issuer's answer holds the key of everybody whose key is still published, or
\* no key at all.
LEMMA FetchAnsweredLive ==
    ASSUME Ind, LiveInd, NEW r \in Reqs, FetchAnswered(r)
    PROVE  LiveInd'
<1>1. /\ TypeOK /\ LiveInv(r) /\ pc[r] = "fetch" /\ res[r] = "none"
      /\ UNCHANGED <<published, keys, ever, token, steady, res>>
    BY DEF Ind, AnsweredLast, LiveInd, FetchAnswered, Goto, issuer
<1>2. PICK set \in {published, NoKeys} :
          /\ body' = [body EXCEPT ![r] = set]
          /\ got' = [got EXCEPT ![r] = IF set = published THEN "keys" ELSE "other"]
    BY DEF FetchAnswered
<1>3. /\ pc'[r] = "store" /\ body'[r] = set /\ got'[r] \in {"keys", "other"}
      /\ got'[r] = "keys" => set = published
      /\ \A q \in Reqs \ {r} :
            pc'[q] = pc[q] /\ body'[q] = body[q] /\ got'[q] = got[q]
    BY <1>1, <1>2 DEF FetchAnswered, Goto, TypeOK
<1>4. LiveInv(r)' /\ LiveKey(r)'
    BY <1>1, <1>3 DEF LiveInv, LiveKey
<1>5. ASSUME NEW q \in Reqs \ {r}
      PROVE  LiveInv(q)' /\ LiveKey(q)'
  <2>1. LiveInv(q) /\ LiveKey(q)
    BY LiveKeys DEF LiveInd
  <2>2. steady'[q] => published'[token[q].kid] = token[q].key
    BY <1>1, <2>1 DEF LiveInv
  <2>3. (pc[q] = "again" /\ steady'[q] /\ got[q] = "keys") =>
           /\ keys'[token[q].kid] = token[q].key
           /\ \A s \in Reqs : pc'[s] = "store" =>
                 body'[s][token[q].kid] \in {token[q].key, NoKey}
    <3>1. token[q].kid \in Kids
      BY <1>1 DEF TypeOK, Token
    <3> QED
      BY <1>1, <1>3, <2>1, <2>2, <3>1 DEF LiveInv, NoKeys
  <2> QED
    BY <1>1, <1>3, <2>1, <2>2, <2>3, OthersLive
<1>6. LiveKeyAccepted'
    BY <1>4, <1>5 DEF LiveKeyAccepted, LiveKey
<1> QED
    BY <1>4, <1>5, <1>6 DEF LiveInd

\* Only the holder of the lock is about to store, so what it fetched comes after
\* whatever those who look again have stored.
LEMMA RefreshStoreLive ==
    ASSUME Ind, LiveInd, NEW r \in Reqs, RefreshStore(r)
    PROVE  LiveInd'
<1>1. /\ TypeOK /\ LiveInv(r) /\ pc[r] = "store" /\ res[r] = "none"
      /\ UNCHANGED <<published, ever, token, steady, got, res>>
      /\ keys' = Merge(keys, body[r])
    BY DEF Ind, AnsweredLast, LiveInd, RefreshStore, Goto, issuer, history
<1>2. /\ pc'[r] = "again"
      /\ \A q \in Reqs \ {r} : pc'[q] = pc[q] /\ body'[q] = body[q]
    BY <1>1 DEF RefreshStore, Goto, TypeOK
<1>3. \A s \in Reqs : pc'[s] # "store"
  <2>1. \A s \in Reqs : pc[s] = "store" => s = r
    BY <1>1 DEF TypeOK
  <2> QED
    BY <1>2, <2>1
<1>4. LiveInv(r)' /\ LiveKey(r)'
  <2>1. token[r].kid \in Kids /\ token[r].key \in Keys
    BY <1>1 DEF TypeOK, Token
  <2>2. (steady[r] /\ got[r] = "keys") => keys'[token[r].kid] = token[r].key
    BY <1>1, <2>1 DEF LiveInv, Merge
  <2> QED
    BY <1>1, <1>2, <1>3, <2>2 DEF LiveInv, LiveKey
<1>5. ASSUME NEW q \in Reqs \ {r}
      PROVE  LiveInv(q)' /\ LiveKey(q)'
  <2>1. LiveInv(q) /\ LiveKey(q)
    BY LiveKeys DEF LiveInd
  <2>2. steady'[q] => published'[token[q].kid] = token[q].key
    BY <1>1, <2>1 DEF LiveInv
  <2>3. (pc[q] = "again" /\ steady'[q] /\ got[q] = "keys") =>
           /\ keys'[token[q].kid] = token[q].key
           /\ \A s \in Reqs : pc'[s] = "store" =>
                 body'[s][token[q].kid] \in {token[q].key, NoKey}
    <3>1. token[q].kid \in Kids /\ token[q].key \in Keys
      BY <1>1 DEF TypeOK, Token
    <3>2. keys'[token[q].kid] = IF body[r][token[q].kid] \in Keys
                                  THEN body[r][token[q].kid]
                                  ELSE keys[token[q].kid]
      BY <1>1, <3>1 DEF Merge
    <3>3. SUFFICES ASSUME pc[q] = "again", steady[q], got[q] = "keys"
                   PROVE  keys'[token[q].kid] = token[q].key
      BY <1>1, <1>3
    <3>4. /\ keys[token[q].kid] = token[q].key
          /\ body[r][token[q].kid] \in {token[q].key, NoKey}
      BY <1>1, <2>1, <3>3 DEF LiveInv
    <3> QED
      BY <3>1, <3>2, <3>4, KeysAssumption
  <2> QED
    BY <1>1, <1>2, <2>1, <2>2, <2>3, OthersLive
<1>6. LiveKeyAccepted'
    BY <1>4, <1>5 DEF LiveKeyAccepted, LiveKey
<1> QED
    BY <1>4, <1>5, <1>6 DEF LiveInd

LEMMA InitLive == Init => LiveInd
BY DEF Init, LiveInd, LiveInv, LiveKeyAccepted

LEMMA NextLive == Ind /\ LiveInd /\ [Next]_vars => LiveInd'
<1> SUFFICES ASSUME Ind, LiveInd, [Next]_vars PROVE LiveInd'
    OBVIOUS
<1>1. ASSUME NEW r \in Reqs, Step(r) PROVE LiveInd'
    BY <1>1, LookLive, RefreshLockLive, FetchAnsweredLive, FetchFailsLive,
       RefreshStoreLive DEF Step
<1>2. CASE UNCHANGED vars
    BY <1>2 DEF vars, LiveInd, LiveInv, LiveKeyAccepted, Reissued
<1> QED
    BY <1>1, <1>2, RotateLive, ArriveLive DEF Next

\* What a request knows of the answer to its own refresh stays true of the cache.
THEOREM LiveInvariance == Spec => []LiveInd
BY InitLive, NextLive, Invariance, PTL DEF Spec

\* Refreshing helps: a good token whose key has been published since the request
\* arrived is never refused after the request's own refresh was answered with
\* keys, whoever else refreshes meanwhile, and without a refresh only when the
\* cache held another key under the same key id.
THEOREM RefreshHelps == Spec => []LiveKeyAccepted
<1>1. LiveInd => LiveKeyAccepted
    BY DEF LiveInd
<1> QED
    BY <1>1, LiveInvariance, PTL

=============================================================================
