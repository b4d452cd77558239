------------------------------ MODULE KeyCache ------------------------------
(***************************************************************************)
(* AuthMiddleware: validation of bearer tokens against the public keys of  *)
(* the issuer (Keycloak), which jwksCache keeps under a RWMutex.           *)
(*                                                                         *)
(* One action is the code between two waits: for the mutex, or for the     *)
(* issuer's answer.  A read lock is never held across a wait, so the       *)
(* locked lookup is one step; the write lock is held while refresh fetches.*)
(* The specification lets a reader in whenever no writer holds the lock,   *)
(* which includes every order in which Go's RWMutex admits them.           *)
(***************************************************************************)
EXTENDS Naturals, FiniteSets

CONSTANTS
    Kids, Keys,     \* key ids, and RSA public keys
    Reqs,           \* HTTP requests
    MaxRotations,   \* how often the issuer changes what it publishes
    NoKey,          \* no entry for this key id, or in the issuer's answer one
                    \* that is not RSA or whose numbers do not parse
    NoReq           \* nobody

ASSUME KeysAssumption == NoKey \notin Keys /\ Keys # {} /\ Kids # {}
ASSUME NoReqAssumption == NoReq \notin Reqs
ASSUME RotationsAssumption == MaxRotations \in Nat

VARIABLES
    published,      \* what the issuer serves at jwksURL
    rotations,      \* how often it has changed
    dev,            \* jwksURL is empty: tokens are not verified
    keys,           \* jwksCache.keys
    lock,           \* who holds jwksCache.mu for writing
    pc, token, res, \* where each request is, its token, its answer
    body,           \* the key set the issuer answered this refresh with
    \* History variables, which no action reads:
    ever,           \* the <<kid, key>> published since the process started
    steady,         \* the request's key was published ever since it arrived
    got             \* how its own refresh ended

history == <<ever, steady, got>>
issuer == <<published, rotations>>
vars == <<published, rotations, dev, keys, lock, pc, token, res, body,
          ever, steady, got>>

-----------------------------------------------------------------------------
(* Data *)

\* A token names a key id and was signed with some key.  It is good unless it has
\* expired, which the JWT library tests, or names no subject.
Token == [kid : Kids, key : Keys, good : BOOLEAN]

NoToken == [kid |-> CHOOSE k \in Kids : TRUE, key |-> CHOOSE k \in Keys : TRUE,
            good |-> FALSE]

PCs == {"idle", "lookup", "refresh", "fetch", "store", "again", "done"}

KeySet == [Kids -> Keys \cup {NoKey}]

Entries(set) == {<<k, set[k]>> : k \in {j \in Kids : set[j] \in Keys}}

\* refresh adds and overwrites, skips what is not RSA or does not parse, and
\* never removes.
Merge(cache, set) ==
    [k \in Kids |-> IF set[k] \in Keys THEN set[k] ELSE cache[k]]

NoKeys == [k \in Kids |-> NoKey]

-----------------------------------------------------------------------------
\* NewAuthMiddleware fetches once; when that fails the cache starts empty.
Init ==
    /\ published \in KeySet
    /\ rotations = 0
    /\ dev \in BOOLEAN
    /\ keys \in {NoKeys, Merge(NoKeys, published)}
    /\ dev => keys = NoKeys
    /\ lock = NoReq
    /\ pc = [r \in Reqs |-> "idle"]
    /\ token = [r \in Reqs |-> NoToken]
    /\ res = [r \in Reqs |-> "none"]
    /\ body = [r \in Reqs |-> NoKeys]
    /\ ever = Entries(published)
    /\ steady = [r \in Reqs |-> FALSE]
    /\ got = [r \in Reqs |-> "none"]

Goto(r, next) == pc' = [pc EXCEPT ![r] = next] /\ UNCHANGED res

Answer(r, a) ==
    /\ pc' = [pc EXCEPT ![r] = "done"]
    /\ res' = [res EXCEPT ![r] = a]

\* The issuer adds, withdraws or replaces a key.
Rotate ==
    /\ rotations < MaxRotations
    /\ \E k \in Kids, key \in Keys \cup {NoKey} :
          /\ key # published[k]
          /\ published' = [published EXCEPT ![k] = key]
          /\ steady' = [r \in Reqs |-> steady[r] /\ token[r].kid # k]
    /\ rotations' = rotations + 1
    /\ ever' = ever \cup Entries(published')
    /\ UNCHANGED <<dev, keys, lock, pc, token, res, body, got>>

\* No bearer token, one that does not parse, one that is not signed with RSA when
\* tokens are verified, or one without a subject when they are not.
Refuse(r) ==
    /\ pc[r] = "idle"
    /\ Answer(r, "unauthorized")
    /\ UNCHANGED <<issuer, dev, keys, lock, token, body, history>>

\* parse without a JWKS address: the claims are taken as they are.
ParseUnverified(r) ==
    /\ pc[r] = "idle"
    /\ dev
    /\ Answer(r, "ok")
    /\ UNCHANGED <<issuer, dev, keys, lock, token, body, history>>

\* Authenticate, or ParseToken, up to the first use of the cache.
Authenticate(r) ==
    /\ pc[r] = "idle"
    /\ ~dev
    /\ \E t \in Token :
          /\ token' = [token EXCEPT ![r] = t]
          /\ steady' = [steady EXCEPT ![r] = published[t.kid] = t.key]
    /\ Goto(r, "lookup")
    /\ UNCHANGED <<issuer, dev, keys, lock, body, ever, got>>

Verdict_NoKid(r, key) ==             \* mutant: any key of the cache will do
    IF token[r].good THEN "ok" ELSE "unauthorized"

\* The key was found: the library checks signature and expiry, Authenticate sub.
Verdict(r, key) ==
    IF token[r].key = key /\ token[r].good THEN "ok" ELSE "unauthorized"

\* jwksCache.get, the first look.
Lookup(r) ==
    /\ pc[r] = "lookup"
    /\ lock = NoReq
    /\ IF keys[token[r].kid] # NoKey
         THEN Answer(r, Verdict(r, keys[token[r].kid]))
         ELSE Goto(r, "refresh")
    /\ UNCHANGED <<issuer, dev, keys, lock, token, body, history>>

RefreshLock_Unlocked(r) ==           \* mutant: fetch first, lock afterwards
    /\ pc[r] = "refresh"
    /\ UNCHANGED lock
    /\ Goto(r, "fetch")
    /\ UNCHANGED <<issuer, dev, keys, token, body, history>>

\* jwksCache.refresh takes the write lock and sends its request.
RefreshLock(r) ==
    /\ pc[r] = "refresh"
    /\ lock = NoReq
    /\ lock' = r
    /\ Goto(r, "fetch")
    /\ UNCHANGED <<issuer, dev, keys, token, body, history>>

\* The issuer answers with what it publishes, or with any other JSON object (the
\* status is not tested), which holds no keys.
FetchAnswered(r) ==
    /\ pc[r] = "fetch"
    /\ \E set \in {published, NoKeys} :
          /\ body' = [body EXCEPT ![r] = set]
          /\ got' = [got EXCEPT ![r] = IF set = published THEN "keys" ELSE "other"]
    /\ Goto(r, "store")
    /\ UNCHANGED <<issuer, dev, keys, lock, token, ever, steady>>

FetchFails_Locked(r) ==              \* mutant: returns without unlocking
    /\ pc[r] = "fetch"
    /\ got' = [got EXCEPT ![r] = "error"]
    /\ Answer(r, "unauthorized")
    /\ UNCHANGED <<issuer, dev, keys, lock, token, body, ever, steady>>

\* No answer within ten seconds, or one that is not JSON.
FetchFails(r) ==
    /\ pc[r] = "fetch"
    /\ got' = [got EXCEPT ![r] = "error"]
    /\ lock' = NoReq
    /\ Answer(r, "unauthorized")
    /\ UNCHANGED <<issuer, dev, keys, token, body, ever, steady>>

\* The rest of refresh.
RefreshStore(r) ==
    /\ pc[r] = "store"
    /\ keys' = Merge(keys, body[r])
    /\ lock' = NoReq
    /\ body' = [body EXCEPT ![r] = NoKeys]
    /\ Goto(r, "again")
    /\ UNCHANGED <<issuer, dev, token, history>>

\* jwksCache.get, the second look.
LookupAgain(r) ==
    /\ pc[r] = "again"
    /\ lock = NoReq
    /\ Answer(r, IF keys[token[r].kid] = NoKey THEN "unauthorized"
                 ELSE Verdict(r, keys[token[r].kid]))
    /\ UNCHANGED <<issuer, dev, keys, lock, token, body, history>>

Step(r) ==
    \/ Lookup(r)
    \/ RefreshLock(r)
    \/ FetchAnswered(r)
    \/ FetchFails(r)
    \/ RefreshStore(r)
    \/ LookupAgain(r)

Arrive(r) == Refuse(r) \/ ParseUnverified(r) \/ Authenticate(r)

Next == Rotate \/ \E r \in Reqs : Arrive(r) \/ Step(r)

Spec == Init /\ [][Next]_vars

\* A goroutine that has started keeps running, the mutex lets those who wait in,
\* and a fetch ends after ten seconds at the latest (http.Client.Timeout).
FairSpec == Spec /\ \A r \in Reqs : WF_vars(Step(r))

-----------------------------------------------------------------------------
(* Properties *)

\* Every variable stays in its domain, and the write lock belongs to the request
\* that is refreshing.
TypeOK ==
    /\ published \in KeySet
    /\ rotations \in 0..MaxRotations
    /\ dev \in BOOLEAN
    /\ keys \in [Kids -> Keys \cup {NoKey}]
    /\ pc \in [Reqs -> PCs]
    /\ token \in [Reqs -> Token]
    /\ res \in [Reqs -> {"none", "ok", "unauthorized"}]
    /\ body \in [Reqs -> KeySet]
    /\ ever \subseteq Kids \X Keys
    /\ steady \in [Reqs -> BOOLEAN]
    /\ got \in [Reqs -> {"none", "keys", "other", "error"}]
    /\ \A r \in Reqs : lock = r <=> pc[r] \in {"fetch", "store"}

\* "validates Keycloak-issued JWTs via JWKS": whatever the issuer has withdrawn
\* or replaced meanwhile, a request is let through only with a key that was
\* published under its key id while this process ran.
AcceptedWasIssued ==
    \A r \in Reqs : (res[r] = "ok" /\ ~dev) =>
        <<token[r].kid, token[r].key>> \in ever

\* The key ids that were published with more than one key.
Reissued == {k \in Kids : \E a, b \in Keys : a # b /\ <<k, a>> \in ever
                                                   /\ <<k, b>> \in ever}

\* "Unknown kid - refresh and retry once": a good token, whose key the issuer has
\* been publishing ever since the request arrived, is never turned away after
\* the request's own refresh was answered with keys, whoever else refreshes
\* meanwhile; and without a refresh only when its key id had another key before.
LiveKeyAccepted ==
    \A r \in Reqs :
        (res[r] = "unauthorized" /\ token[r].good /\ steady[r]) =>
            /\ got[r] # "keys"
            /\ got[r] = "none" => token[r].kid \in Reissued

\* Every request is answered, although all of them may wait behind one that holds
\* the lock for as long as its fetch takes.
EveryoneAnswered ==
    \A r \in Reqs : pc[r] = "lookup" ~> pc[r] = "done"

=============================================================================
