----------------------------- MODULE ListsProofs -----------------------------
(***************************************************************************)
(* A reader who follows the cursors gets everything once and in order, for *)
(* any number of messages, conversations and writers, and any limits.      *)
(*                                                                         *)
(* First what a page cut out of a set of keys is; then the invariant of    *)
(* the requests, in which all that a page does to what came before it is   *)
(* said by IsPage.                                                         *)
(***************************************************************************)
EXTENDS Lists, FiniteSetTheorems, TLAPS

-----------------------------------------------------------------------------
(* The order of the keys *)

\* The least element of a set of natural numbers.
LEMMA NatMin ==
    ASSUME NEW T \in SUBSET Nat, T # {}
    PROVE  \E n \in T : \A m \in T : n <= m
<1> DEFINE R == OpToRel(<, Nat)
<1>1. IsWellFoundedOn(R, Nat)
    BY NatLessThanWellFounded
<1>2. \A m, n \in Nat : m < n => <<m, n>> \in R
    BY DEF OpToRel
<1> HIDE DEF R
<1>3. PICK n \in T : \A m \in T : <<m, n>> \notin R
    BY <1>1, WFMin
<1>4. \A m \in T : m \in Nat /\ n \in Nat /\ ~(m < n)
    BY <1>2, <1>3, Zenon
<1>5. \A m \in T : n <= m
    BY <1>4
<1> QED
    BY <1>5

\* Less orders the keys strictly and totally.
LEMMA LessOrder ==
    /\ \A k \in Keys : ~Less(k, k)
    /\ \A k, l \in Keys : k = l \/ Less(k, l) \/ Less(l, k)
    /\ \A k, l, m \in Keys : Less(k, l) /\ Less(l, m) => Less(k, m)
<1>1. \A k \in Keys : k[1] \in Nat /\ k[2] \in Nat /\ k = <<k[1], k[2]>>
    BY DEF Keys
<1> QED
    BY <1>1 DEF Less

LEMMA LeastKey ==
    ASSUME NEW S \in SUBSET Keys, S # {}
    PROVE  \E k \in S : \A l \in S : k = l \/ Less(k, l)
<1>1. \A k \in S : k[1] \in Nat /\ k[2] \in Nat /\ k = <<k[1], k[2]>>
    BY DEF Keys
<1> DEFINE T == {k[1] : k \in S}
<1>2. PICK n \in T : \A m \in T : n <= m
  <2>1. T \in SUBSET Nat /\ T # {}
    BY <1>1
  <2> HIDE DEF T
  <2> QED
    BY <2>1, NatMin
<1> DEFINE U == {k[2] : k \in {l \in S : l[1] = n}}
<1>3. PICK i \in U : \A j \in U : i <= j
  <2>1. U \in SUBSET Nat /\ U # {}
    BY <1>1
  <2> HIDE DEF U
  <2> QED
    BY <2>1, NatMin
<1>4. PICK k \in S : k[1] = n /\ k[2] = i
    OBVIOUS
<1>5. \A l \in S : n <= l[1] /\ (l[1] = n => i <= l[2])
    BY <1>2, <1>3
<1>6. \A l \in S : k = l \/ Less(k, l)
    BY <1>1, <1>4, <1>5 DEF Less
<1> QED
    BY <1>6

\* The cursor of the next page is the oldest item of this one.
LEMMA NextCursorIsLeast ==
    ASSUME NEW items \in SUBSET Keys, items # {}
    PROVE  /\ NextCursor(items) \in items
           /\ \A l \in items : NextCursor(items) = l \/ Less(NextCursor(items), l)
<1>1. \E k \in items : \A l \in items : k = l \/ Less(k, l)
    BY LeastKey
<1> QED
    BY <1>1 DEF NextCursor

-----------------------------------------------------------------------------
(* What is on a page *)

\* The keys before k in descending order.
Above(k, S) == {l \in S : Less(k, l)}

\* Further on in the order more keys are above.
LEMMA MoreAbove ==
    ASSUME NEW S \in SUBSET Keys, IsFiniteSet(S), NEW k \in Keys, NEW l \in S, Less(k, l)
    PROVE  Cardinality(Above(l, S)) < Cardinality(Above(k, S))
<1>1. Above(l, S) \subseteq Above(k, S) /\ l \in Above(k, S) /\ l \notin Above(l, S)
    BY LessOrder DEF Above
<1>2. IsFiniteSet(Above(k, S)) /\ IsFiniteSet(Above(l, S))
    BY FS_Subset DEF Above
<1>3. Above(l, S) # Above(k, S)
    BY <1>1
<1>4. /\ Cardinality(Above(l, S)) <= Cardinality(Above(k, S))
      /\ Cardinality(Above(l, S)) # Cardinality(Above(k, S))
    BY <1>1, <1>2, <1>3, FS_Subset
<1>5. Cardinality(Above(k, S)) \in Nat /\ Cardinality(Above(l, S)) \in Nat
    BY <1>2, FS_CardinalityType
<1> QED
    BY <1>4, <1>5

LEMMA AboveNat ==
    ASSUME NEW S, IsFiniteSet(S), NEW k
    PROVE  /\ IsFiniteSet(Above(k, S))
           /\ Cardinality(Above(k, S)) \in Nat
           /\ Cardinality(Above(k, S)) <= Cardinality(S)
BY FS_Subset, FS_CardinalityType DEF Above

\* A set of keys that is not empty has a newest one.
LEMMA NewestKey ==
    ASSUME NEW S \in SUBSET Keys, IsFiniteSet(S), NEW T \in SUBSET S, T # {}
    PROVE  \E k \in T : \A l \in T : ~Less(k, l)
<1> DEFINE N == {Cardinality(Above(k, S)) : k \in T}
<1>1. N \in SUBSET Nat /\ N # {}
    BY AboveNat
<1>2. PICK n \in N : \A m \in N : n <= m
    BY <1>1, NatMin
<1>3. PICK k \in T : n = Cardinality(Above(k, S))
    OBVIOUS
<1>4. ASSUME NEW l \in T, Less(k, l) PROVE FALSE
  <2>1. Cardinality(Above(l, S)) < n
    BY <1>3, <1>4, MoreAbove
  <2>2. n <= Cardinality(Above(l, S)) /\ n \in Nat /\ Cardinality(Above(l, S)) \in Nat
    BY <1>1, <1>2
  <2> QED
    BY <2>1, <2>2
<1> QED
    BY <1>4

\* What is left out is older than all that is on the page.
LEMMA RestIsOlder ==
    ASSUME NEW S \in SUBSET Keys, IsFiniteSet(S), NEW n \in Nat,
           NEW k \in S \ First(S, n), NEW j \in First(S, n)
    PROVE  Less(k, j)
<1>1. /\ j \in S /\ k \in Keys /\ j \in Keys /\ k # j
      /\ Cardinality(Above(j, S)) < n /\ ~(Cardinality(Above(k, S)) < n)
    BY DEF First, Above
<1>2. Less(j, k) => Cardinality(Above(k, S)) < Cardinality(Above(j, S))
    BY <1>1, MoreAbove
<1>3. Cardinality(Above(j, S)) \in Nat /\ Cardinality(Above(k, S)) \in Nat
    BY AboveNat
<1>4. ~Less(j, k)
    BY <1>1, <1>2, <1>3
<1> QED
    BY <1>1, <1>4, LessOrder

LEMMA FirstNonempty ==
    ASSUME NEW S \in SUBSET Keys, IsFiniteSet(S), S # {}, NEW n \in Nat, n >= 1
    PROVE  First(S, n) # {}
<1>1. PICK k \in S : \A l \in S : ~Less(k, l)
    BY NewestKey
<1>2. {l \in S : Less(k, l)} = {}
    BY <1>1
<1>3. Cardinality({l \in S : Less(k, l)}) = 0
    BY <1>2, FS_EmptySet
<1> QED
    BY <1>3 DEF First

\* A set that is no larger than a page is on it.
LEMMA FirstAll ==
    ASSUME NEW S \in SUBSET Keys, IsFiniteSet(S), NEW n \in Nat, Cardinality(S) <= n
    PROVE  First(S, n) = S
<1>1. ASSUME NEW k \in S PROVE Cardinality(Above(k, S)) < n
  <2>1. Above(k, S) \subseteq S /\ Above(k, S) # S
    BY LessOrder DEF Above
  <2>2. Cardinality(Above(k, S)) <= Cardinality(S) /\ Cardinality(Above(k, S)) # Cardinality(S)
    BY <2>1, FS_Subset
  <2>3. Cardinality(Above(k, S)) \in Nat /\ Cardinality(S) \in Nat
    BY AboveNat, FS_CardinalityType
  <2> QED
    BY <2>2, <2>3
<1> QED
    BY <1>1 DEF First, Above

\* One row more than the page holds is read: when that one is missing, nothing else
\* is.
LEMMA FirstOneMore ==
    ASSUME NEW S \in SUBSET Keys, IsFiniteSet(S), NEW n \in Nat,
           Cardinality(First(S, n + 1)) <= n
    PROVE  First(S, n + 1) = S
<1> DEFINE R == First(S, n + 1)
<1>1. R \subseteq S /\ IsFiniteSet(R)
    BY FS_Subset DEF First
<1> SUFFICES ASSUME S \ R # {} PROVE FALSE
    BY <1>1
<1>2. PICK k \in S \ R : \A l \in S \ R : ~Less(k, l)
    BY NewestKey
<1>3. Above(k, S) \subseteq R
    BY <1>2 DEF Above
<1>4. ~(Cardinality(Above(k, S)) < n + 1)
    BY <1>2 DEF First, Above
<1>5. Cardinality(Above(k, S)) <= Cardinality(R)
    BY <1>1, <1>3, FS_Subset
<1>6. Cardinality(Above(k, S)) \in Nat /\ Cardinality(R) \in Nat
    BY <1>1, AboveNat, FS_CardinalityType
<1> QED
    BY <1>4, <1>5, <1>6

\* What a page of the keys S is: its newest ones, all when there is no other page.
IsPage(S, items, more) ==
    /\ items \subseteq S
    /\ \A k \in S \ items, j \in items : Less(k, j)
    /\ IF more THEN items # {} ELSE items = S

\* FindByUser sorts what it has and cuts the page out of it.
LEMMA CutPage ==
    ASSUME NEW S \in SUBSET Keys, IsFiniteSet(S), NEW n \in Nat, n >= 1
    PROVE  IsPage(S, First(S, n), HasMore(S, n))
<1>1. First(S, n) \subseteq S
    BY DEF First
<1>2. \A k \in S \ First(S, n), j \in First(S, n) : Less(k, j)
    BY RestIsOlder
<1>3. Cardinality(S) \in Nat
    BY FS_CardinalityType
<1>4. CASE Cardinality(S) > n
  <2>1. S # {}
    BY <1>4, FS_EmptySet
  <2> QED
    BY <1>1, <1>2, <1>4, <2>1, FirstNonempty DEF IsPage, HasMore
<1>5. CASE ~(Cardinality(S) > n)
  <2>1. First(S, n) = S
    BY <1>3, <1>5, FirstAll
  <2> QED
    BY <1>1, <1>2, <1>5, <2>1 DEF IsPage, HasMore
<1> QED
    BY <1>4, <1>5

\* FindByConversation reads one row more than the page holds.
LEMMA ReadPage ==
    ASSUME NEW S \in SUBSET Keys, IsFiniteSet(S), NEW n \in Nat, n >= 1
    PROVE  IsPage(S, First(First(S, n + 1), n), HasMore(First(S, n + 1), n))
<1> DEFINE R == First(S, n + 1)
<1>1. R \subseteq S /\ IsFiniteSet(R)
    BY FS_Subset DEF First
<1>2. IsPage(R, First(R, n), HasMore(R, n))
    BY <1>1, CutPage
<1>3. \A k \in S \ R, j \in R : Less(k, j)
    BY RestIsOlder
<1>4. ~HasMore(R, n) => R = S
  <2>1. Cardinality(R) \in Nat
    BY <1>1, FS_CardinalityType
  <2> QED
    BY <2>1, FirstOneMore DEF HasMore
<1> HIDE DEF R
<1>5. IsPage(S, First(R, n), HasMore(R, n))
    BY <1>1, <1>2, <1>3, <1>4 DEF IsPage
<1> QED
    BY <1>5 DEF R

-----------------------------------------------------------------------------
(* The inductive invariant *)

Ids == Msgs \cup {Earlier[c] : c \in Convs}

Key(c) == <<updated[c], c>>

Given(k) == \E i \in DOMAIN pages : k \in pages[i]

\* Sets of keys are finite, rows bear ids of messages, and who has something to write
\* knows where.
DataInv ==
    /\ \A c \in Convs : IsFiniteSet(messages[c]) /\ \A k \in messages[c] : k[2] \in Ids
    /\ IsFiniteSet(got)
    /\ \A m \in Msgs : sending[m].call \in {"insert", "last"} => sending[m].conv \in Convs

\* Which list the reader pages through.
ListInv ==
    /\ kind = "none" <=> pc = "idle"
    /\ kind = "messages" => room \in Convs /\ pc \notin {"index", "fetch"}
    /\ kind = "conversations" => pc \notin {"check", "query"}

\* What was given before the next page is not older than the cursor.
CursorInv ==
    pc # "done" =>
        /\ cursor = None <=> pages = <<>>
        /\ \A i \in DOMAIN pages : \A k \in pages[i] : k = cursor \/ Less(cursor, k)

\* The key is on a page, or it is beyond the cursor.
Kept(k) == Given(k) \/ (pc # "done" /\ Beyond(k, cursor))

\* What was there at the first page is on a page or still to come; while the
\* conversations are fetched it is among those that have been fetched or will be.
BeforeInv ==
    /\ kind = "none" => before = {}
    /\ kind = "messages" =>
          \A i \in before : \E k \in messages[room] : k[2] = i /\ Kept(k)
    /\ kind = "conversations" =>
          \A c \in before :
             /\ c \in index /\ Kept(Key(c))
             /\ pc = "fetch" /\ ~Given(Key(c)) => c \in todo \/ Key(c) \in got

Ind ==
    /\ TypeOK
    /\ DataInv
    /\ ListInv
    /\ CursorInv
    /\ NewestFirst
    /\ BeforeInv


-----------------------------------------------------------------------------
(* What a step leaves as it was *)

LEMMA Numbers ==
    /\ MaxPageSize \in Nat /\ DefaultPageSize \in Nat /\ Milli \in Nat
    /\ 1 <= DefaultPageSize /\ DefaultPageSize <= MaxPageSize
    /\ None \notin Nat /\ None \notin Keys /\ Convs \subseteq Nat /\ Msgs \subseteq Nat
    /\ \A c \in Convs : Earlier[c] \in Nat
BY ListsAssumption DEF Keys

LEMMA StoredIsNat == \A t \in Nat : Stored(t) \in Nat
<1> SUFFICES ASSUME NEW t \in Nat PROVE Stored(t) \in Nat
    OBVIOUS
<1>1. Milli \in Nat /\ Milli > 0
    BY ListsAssumption
<1>2. t = Milli * (t \div Milli) + (t % Milli) /\ t % Milli \in Nat /\ t \div Milli \in Nat
    BY <1>1
<1>3. \A a, b \in Nat : a * b \in Nat
    OBVIOUS
<1> QED
    BY <1>1, <1>2, <1>3 DEF Stored

LEMMA InitInd == Init => Ind
<1> SUFFICES ASSUME Init PROVE Ind
    OBVIOUS
<1>1. TypeOK
  <2>1. messages \in [Convs -> SUBSET Keys]
    BY Numbers DEF Init, Keys
  <2>2. 1 \in 1..MaxPageSize /\ 0 \in 0..MaxChanges
    BY Numbers, ListsAssumption
  <2>3. pages \in Seq(SUBSET Keys)
    BY DEF Init
  <2> QED
    BY <2>1, <2>2, <2>3 DEF Init, TypeOK
<1>2. DataInv
  <2>1. ASSUME NEW c \in Convs
        PROVE  IsFiniteSet(messages[c]) /\ \A k \in messages[c] : k[2] \in Ids
    <3> DEFINE e == <<0, Earlier[c]>>
    <3>1. messages[c] = {e}
      BY DEF Init
    <3>2. e[2] \in Ids
      BY DEF Ids
    <3> HIDE DEF e
    <3>3. IsFiniteSet({e})
      BY FS_Singleton
    <3> QED
      BY <3>1, <3>2, <3>3
  <2> QED
    BY <2>1, FS_EmptySet DEF Init, DataInv
<1>3. ListInv /\ CursorInv /\ NewestFirst /\ BeforeInv
    BY DEF Init, ListInv, CursorInv, NewestFirst, BeforeInv
<1> QED
    BY <1>1, <1>2, <1>3 DEF Ind

\* Steps of the writers, as far as the reader's pages go.
LEMMA PagesStay ==
    ASSUME Ind, UNCHANGED <<pc, kind, room, cursor, pages>>
    PROVE  ListInv' /\ CursorInv' /\ NewestFirst'
BY DEF Ind, ListInv, CursorInv, NewestFirst

LEMMA KeptStays ==
    ASSUME UNCHANGED <<pc, cursor, pages>>, NEW k
    PROVE  (Kept(k)' <=> Kept(k)) /\ (Given(k)' <=> Given(k))
BY DEF Kept, Given

LEMMA KeyStays ==
    ASSUME UNCHANGED <<pc, cursor, pages>>, NEW c, updated'[c] = updated[c]
    PROVE  /\ Key(c)' = Key(c)
           /\ Kept(Key(c))' <=> Kept(Key(c))
           /\ Given(Key(c))' <=> Given(Key(c))
<1>1. PICK k : k = Key(c)
    OBVIOUS
<1>2. Key(c)' = k
    BY <1>1 DEF Key
<1> QED
    BY <1>1, <1>2 DEF Kept, Given, Beyond

\* Rows are added to the table of messages, never taken away.
LEMMA BeforeStays ==
    ASSUME Ind, UNCHANGED <<unread, updated, index, before>>,
           \A c \in Convs : messages[c] \subseteq messages'[c]
    PROVE  BeforeInv'
<1>1. ASSUME kind = "messages", NEW i \in before
      PROVE  \E k \in messages'[room] : k[2] = i /\ Kept(k)'
  <2>1. PICK k \in messages[room] : k[2] = i /\ Kept(k)
    BY <1>1 DEF Ind, BeforeInv
  <2> QED
    BY <1>1, <2>1, KeptStays DEF Ind, ListInv, unread, asked
<1>2. ASSUME kind = "conversations", NEW c \in before
      PROVE  /\ c \in index /\ Kept(Key(c))'
             /\ pc = "fetch" /\ ~Given(Key(c))' => c \in todo \/ Key(c)' \in got
  <2>1. /\ c \in index /\ Kept(Key(c))
        /\ pc = "fetch" /\ ~Given(Key(c)) => c \in todo \/ Key(c) \in got
    BY <1>2 DEF Ind, BeforeInv
  <2> QED
    BY <2>1, KeyStays DEF unread, asked
<1> QED
    BY <1>1, <1>2 DEF Ind, BeforeInv, unread, asked

\* Who writes to a conversation takes it out of what the reader is owed.
LEMMA Touched ==
    ASSUME Ind, NEW c \in Convs, Touch(c), UNCHANGED <<unread, messages>>,
           \A d \in Convs \ {c} : updated'[d] = updated[d] /\ (d \in index => d \in index')
    PROVE  BeforeInv'
<1>1. CASE kind = "conversations"
  <2>1. SUFFICES ASSUME NEW d \in before'
                 PROVE  /\ d \in index' /\ Kept(Key(d))'
                        /\ pc = "fetch" /\ ~Given(Key(d))' => d \in todo \/ Key(d)' \in got
    BY <1>1 DEF BeforeInv, unread, asked
  <2>2. d \in before /\ d # c
    BY <1>1, <2>1 DEF Touch
  <2>3. d \in index /\ d \in Convs
    BY <1>1, <2>2 DEF Ind, BeforeInv, TypeOK
  <2>4. d \in index' /\ updated'[d] = updated[d]
    BY <2>2, <2>3
  <2>5. /\ Kept(Key(d))
        /\ pc = "fetch" /\ ~Given(Key(d)) => d \in todo \/ Key(d) \in got
    BY <1>1, <2>2 DEF Ind, BeforeInv
  <2> QED
    BY <2>4, <2>5, KeyStays DEF unread, asked
<1>2. CASE kind # "conversations"
  <2>1. ASSUME kind = "messages", NEW i \in before
        PROVE  \E k \in messages[room] : k[2] = i /\ Kept(k)'
    <3>1. PICK k \in messages[room] : k[2] = i /\ Kept(k)
      BY <2>1 DEF Ind, BeforeInv
    <3> QED
      BY <3>1, KeptStays DEF unread, asked
  <2>2. before' = before
    BY <1>2 DEF Touch
  <2> QED
    BY <1>2, <2>1, <2>2 DEF Ind, BeforeInv, unread, asked
<1> QED
    BY <1>1, <1>2

\* The limit of the request is between one and the maximum, whatever was asked for.
LEMMA LimitInRange ==
    ASSUME NEW n \in Limits
    PROVE  NormalizeLimit(n) \in 1..MaxPageSize
BY Numbers, ListsAssumption DEF NormalizeLimit

-----------------------------------------------------------------------------
(* The requests that write *)

LEMMA StampKeeps == ASSUME Ind, NEW m \in Msgs, Stamp(m) PROVE Ind'
<1>1. PICK c \in Convs : sending' = [sending EXCEPT ![m] = [call |-> "insert", conv |-> c,
                                                            at |-> clock]]
    BY DEF Stamp
<1>2. UNCHANGED <<messages, updated, member, index, pending, changes, pc, kind, room,
                  cursor, limit, todo, got, pages, before>> /\ clock' = clock + 1
    BY DEF Stamp, tables, unread, asked
<1>3. sending' \in [Msgs -> [call : {"none", "insert", "last", "done"},
                             conv : Convs \cup {None}, at : Nat]]
    BY <1>1 DEF Ind, TypeOK
<1>4. TypeOK'
    BY <1>2, <1>3 DEF Ind, TypeOK
<1>5. ASSUME NEW l \in Msgs, sending'[l].call \in {"insert", "last"}
      PROVE  sending'[l].conv \in Convs
    BY <1>1, <1>5 DEF Ind, TypeOK, DataInv
<1>6. DataInv'
    BY <1>2, <1>5 DEF Ind, DataInv
<1>7. BeforeInv'
    BY <1>2, BeforeStays DEF unread, asked
<1> QED
    BY <1>2, <1>4, <1>6, <1>7, PagesStay DEF Ind

LEMMA InsertKeeps == ASSUME Ind, NEW m \in Msgs, InsertMessage(m) PROVE Ind'
<1> DEFINE c == sending[m].conv
           k == <<Stored(sending[m].at), m>>
<1>1. /\ sending[m].call = "insert"
      /\ messages' = [messages EXCEPT ![c] = @ \cup {k}]
      /\ sending' = [sending EXCEPT ![m].call = "last"]
      /\ UNCHANGED <<clock, updated, member, index, pending, changes, pc, kind, room,
                     cursor, limit, todo, got, pages, before>>
    BY DEF InsertMessage, unread, asked
<1>2. c \in Convs /\ k \in Keys /\ k[2] \in Ids
  <2>1. c \in Convs
    BY <1>1 DEF Ind, DataInv
  <2>2. sending[m].at \in Nat
    BY DEF Ind, TypeOK
  <2> QED
    BY <2>1, <2>2, StoredIsNat, Numbers DEF Keys, Ids
<1> HIDE DEF c, k
<1>3. /\ messages' \in [Convs -> SUBSET Keys]
      /\ \A d \in Convs : messages'[d] = IF d = c THEN messages[d] \cup {k} ELSE messages[d]
    BY <1>1, <1>2 DEF Ind, TypeOK
<1>4. sending' \in [Msgs -> [call : {"none", "insert", "last", "done"},
                             conv : Convs \cup {None}, at : Nat]]
    BY <1>1 DEF Ind, TypeOK
<1>5. TypeOK'
    BY <1>1, <1>3, <1>4 DEF Ind, TypeOK
<1>6. ASSUME NEW l \in Msgs, sending'[l].call \in {"insert", "last"}
      PROVE  sending'[l].conv \in Convs
    BY <1>1, <1>6 DEF Ind, TypeOK, DataInv
<1>7. ASSUME NEW d \in Convs
      PROVE  IsFiniteSet(messages'[d]) /\ \A l \in messages'[d] : l[2] \in Ids
    BY <1>2, <1>3, FS_AddElement DEF Ind, DataInv
<1>8. DataInv'
    BY <1>1, <1>6, <1>7 DEF Ind, DataInv
<1>9. BeforeInv'
    BY <1>1, <1>3, BeforeStays DEF unread, asked
<1> QED
    BY <1>1, <1>5, <1>8, <1>9, PagesStay DEF Ind

LEMMA UpdateKeeps == ASSUME Ind, NEW m \in Msgs, UpdateLastMessage(m) PROVE Ind'
<1> DEFINE c == sending[m].conv
           t == Stored(sending[m].at)
<1>1. /\ sending[m].call = "last"
      /\ updated' = [updated EXCEPT ![c] = t]
      /\ sending' = [sending EXCEPT ![m].call = "done"]
      /\ Touch(c)
      /\ UNCHANGED <<clock, messages, member, index, pending, changes, pc, kind, room,
                     cursor, limit, todo, got, pages>>
    BY DEF UpdateLastMessage, unread, asked
<1>2. c \in Convs /\ t \in Nat
  <2>1. c \in Convs
    BY <1>1 DEF Ind, DataInv
  <2>2. sending[m].at \in Nat
    BY DEF Ind, TypeOK
  <2> QED
    BY <2>1, <2>2, StoredIsNat
<1> HIDE DEF c, t
<1>3. /\ updated' \in [Convs -> Nat]
      /\ \A d \in Convs \ {c} : updated'[d] = updated[d]
    BY <1>1, <1>2 DEF Ind, TypeOK
<1>4. sending' \in [Msgs -> [call : {"none", "insert", "last", "done"},
                             conv : Convs \cup {None}, at : Nat]]
    BY <1>1 DEF Ind, TypeOK
<1>5. before' \subseteq before
    BY <1>1 DEF Touch
<1>6. TypeOK'
    BY <1>1, <1>3, <1>4, <1>5 DEF Ind, TypeOK
<1>7. ASSUME NEW l \in Msgs, sending'[l].call \in {"insert", "last"}
      PROVE  sending'[l].conv \in Convs
    BY <1>1, <1>7 DEF Ind, TypeOK, DataInv
<1>8. DataInv'
    BY <1>1, <1>7 DEF Ind, DataInv
<1>9. BeforeInv'
    BY <1>1, <1>2, <1>3, Touched DEF unread, asked
<1> QED
    BY <1>1, <1>6, <1>8, <1>9, PagesStay DEF Ind

LEMMA ChangeParticipantsKeeps == ASSUME Ind, NEW c \in Convs, ChangeParticipants(c) PROVE Ind'
<1> DEFINE t == Stored(clock)
<1>1. /\ changes < MaxChanges /\ changes' = changes + 1 /\ clock' = clock + 1
      /\ updated' = [updated EXCEPT ![c] = t]
      /\ Touch(c)
      /\ UNCHANGED <<messages, index, sending, pc, kind, room,
                     cursor, limit, todo, got, pages>>
    BY DEF ChangeParticipants, unread, asked
<1>2. member' \subseteq Convs /\ pending' \subseteq Convs
    BY DEF Ind, TypeOK, ChangeParticipants
<1>3. t \in Nat
  <2>1. clock \in Nat
    BY DEF Ind, TypeOK
  <2> QED
    BY <2>1, StoredIsNat
<1> HIDE DEF t
<1>4. /\ updated' \in [Convs -> Nat]
      /\ \A d \in Convs \ {c} : updated'[d] = updated[d]
    BY <1>1, <1>3 DEF Ind, TypeOK
<1>5. changes' \in 0..MaxChanges /\ clock' \in Nat
    BY <1>1, ListsAssumption DEF Ind, TypeOK
<1>6. before' \subseteq before
    BY <1>1 DEF Touch
<1>7. TypeOK'
    BY <1>1, <1>2, <1>4, <1>5, <1>6 DEF Ind, TypeOK
<1>8. DataInv'
    BY <1>1 DEF Ind, DataInv
<1>9. BeforeInv'
    BY <1>1, <1>4, Touched DEF unread, asked
<1> QED
    BY <1>1, <1>7, <1>8, <1>9, PagesStay DEF Ind

LEMMA ChangeIndexKeeps == ASSUME Ind, NEW c \in Convs, ChangeIndex(c) PROVE Ind'
<1>1. /\ Touch(c)
      /\ UNCHANGED <<clock, messages, updated, member, sending, changes, pc, kind, room,
                     cursor, limit, todo, got, pages>>
    BY DEF ChangeIndex, unread, asked
<1>2. /\ pending' \subseteq Convs /\ index' \subseteq Convs
      /\ \A d \in Convs \ {c} : d \in index => d \in index'
    BY DEF ChangeIndex, Ind, TypeOK
<1>3. before' \subseteq before
    BY <1>1 DEF Touch
<1>4. TypeOK'
    BY <1>1, <1>2, <1>3 DEF Ind, TypeOK
<1>5. DataInv'
    BY <1>1 DEF Ind, DataInv
<1>6. BeforeInv'
    BY <1>1, <1>2, Touched DEF unread, asked
<1> QED
    BY <1>1, <1>4, <1>5, <1>6, PagesStay DEF Ind

-----------------------------------------------------------------------------
(* The reader *)

\* A step of a request that gives no page leaves the pages in order and what is owed
\* to come.
LEMMA NoPage ==
    ASSUME Ind, UNCHANGED <<cursor, pages>>, pc # "done", pc' # "done"
    PROVE  /\ CursorInv' /\ NewestFirst'
           /\ \A k : (Kept(k)' <=> Kept(k)) /\ (Given(k)' <=> Given(k))
BY DEF Ind, CursorInv, NewestFirst, Kept, Given

LEMMA NoPageKey ==
    ASSUME UNCHANGED <<cursor, pages, updated>>, pc # "done", pc' # "done", NEW c
    PROVE  /\ Key(c)' = Key(c)
           /\ Kept(Key(c))' <=> Kept(Key(c))
           /\ Given(Key(c))' <=> Given(Key(c))
<1>1. PICK k : k = Key(c)
    OBVIOUS
<1>2. Key(c)' = k
    BY <1>1 DEF Key
<1> QED
    BY <1>1, <1>2 DEF Kept, Given, Beyond

\* A page of the keys that are beyond the cursor comes after the pages before it, and
\* none of those keys is lost: it is on the page or beyond the next cursor.
LEMMA AnswerKeeps ==
    ASSUME Ind, pc # "done", NEW S \in SUBSET Keys, NEW items, NEW more \in BOOLEAN,
           IsPage(S, items, more), \A k \in S : Beyond(k, cursor), Answer(items, more)
    PROVE  /\ pages' \in Seq(SUBSET Keys) /\ cursor' \in Keys \cup {None}
           /\ pc' \in {"ask", "done"} /\ limit' = 1 /\ todo' = {} /\ got' = {}
           /\ CursorInv' /\ NewestFirst'
           /\ \A k : Given(k) => Given(k)'
           /\ \A k \in S : Kept(k)'
<1>1. pages \in Seq(SUBSET Keys) /\ cursor \in Keys \cup {None}
    BY DEF Ind, TypeOK
<1>2. /\ pages' = Append(pages, items)
      /\ cursor' = IF more THEN NextCursor(items) ELSE cursor
      /\ pc' = IF more THEN "ask" ELSE "done"
      /\ limit' = 1 /\ todo' = {} /\ got' = {}
    BY DEF Answer, Return
<1>3. /\ items \in SUBSET Keys /\ items \subseteq S
      /\ \A k \in S \ items, j \in items : Less(k, j)
      /\ more => items # {}
      /\ ~more => items = S
    BY DEF IsPage
<1> DEFINE n == Len(pages) + 1
<1>4. /\ pages' \in Seq(SUBSET Keys) /\ pages' # <<>>
      /\ n \in DOMAIN pages' /\ pages'[n] = items
      /\ \A i \in DOMAIN pages : i \in DOMAIN pages' /\ pages'[i] = pages[i]
      /\ \A i \in DOMAIN pages' : i = n \/ (i \in DOMAIN pages /\ i < n)
      /\ \A i \in DOMAIN pages' : i \in Nat /\ i <= n
    BY <1>1, <1>2, <1>3
<1> HIDE DEF n
<1>5. more => /\ cursor' \in items /\ cursor' \in Keys
              /\ \A l \in items : cursor' = l \/ Less(cursor', l)
    BY <1>2, <1>3, NextCursorIsLeast
<1>6. None \notin Keys
    BY Numbers
<1>7. cursor' \in Keys \cup {None}
    BY <1>1, <1>2, <1>5
<1>8. ASSUME NEW i \in DOMAIN pages, NEW k \in pages[i], NEW l \in S
      PROVE  Less(l, k)
  <2>1. k \in Keys /\ pages # <<>>
    BY <1>1
  <2>2. cursor # None /\ (k = cursor \/ Less(cursor, k))
    BY <2>1 DEF Ind, CursorInv
  <2>3. Less(l, cursor) /\ cursor \in Keys
    BY <1>1, <2>2 DEF Beyond
  <2> QED
    BY <2>1, <2>2, <2>3, LessOrder
<1>9. CursorInv'
  <2>1. ASSUME more, NEW i \in DOMAIN pages', NEW k \in pages'[i]
        PROVE  k = cursor' \/ Less(cursor', k)
    <3>1. CASE i = n
      BY <1>4, <1>5, <2>1, <3>1
    <3>2. CASE i \in DOMAIN pages
      BY <1>3, <1>4, <1>5, <1>8, <2>1, <3>2
    <3> QED
      BY <1>4, <3>1, <3>2
  <2> QED
    BY <1>2, <1>4, <1>5, <1>6, <2>1 DEF CursorInv
<1>10. NewestFirst'
  <2>1. ASSUME NEW i \in DOMAIN pages', NEW j \in DOMAIN pages', i < j,
               NEW k \in pages'[i], NEW l \in pages'[j]
        PROVE  Less(l, k)
    <3>1. i \in DOMAIN pages
      BY <1>4, <2>1
    <3>2. CASE j = n
      BY <1>3, <1>4, <1>8, <3>1, <3>2
    <3>3. CASE j \in DOMAIN pages
      BY <1>4, <2>1, <3>1, <3>3 DEF Ind, NewestFirst
    <3> QED
      BY <1>4, <3>2, <3>3
  <2> QED
    BY <2>1 DEF NewestFirst
<1>11. \A k : Given(k) => Given(k)'
    BY <1>4 DEF Given
<1>12. ASSUME NEW k \in S PROVE Kept(k)'
  <2>1. CASE k \in items
    BY <1>4, <2>1 DEF Kept, Given
  <2>2. CASE k \notin items
    BY <1>2, <1>3, <1>5, <2>2 DEF Kept, Beyond
  <2> QED
    BY <2>1, <2>2
<1> QED
    BY <1>2, <1>4, <1>7, <1>9, <1>10, <1>11, <1>12

LEMMA AskKeeps ==
    ASSUME Ind, \/ \E c \in Convs, n \in Limits : AskMessages(c, n)
                \/ \E n \in Limits : AskConversations(n)
    PROVE  Ind'
<1>1. /\ UNCHANGED <<clock, messages, updated, member, index, pending, sending, changes,
                     cursor, todo, got, pages, before>>
      /\ pc = "idle"
      /\ \/ pc' = "check" /\ kind' = "messages" /\ room' \in Convs
         \/ pc' = "index" /\ kind' = "conversations" /\ room' = room
      /\ limit' \in 1..MaxPageSize
    BY LimitInRange DEF AskMessages, AskConversations, tables, writers
<1>2. before = {}
    BY <1>1 DEF Ind, ListInv, BeforeInv
<1>3. TypeOK'
    BY <1>1 DEF Ind, TypeOK
<1>4. DataInv' /\ ListInv' /\ BeforeInv'
    BY <1>1, <1>2 DEF Ind, DataInv, ListInv, BeforeInv
<1> QED
    BY <1>1, <1>3, <1>4, NoPage DEF Ind

\* A step of a request that gives no page and reads no conversation.
LEMMA SameKeeps ==
    ASSUME Ind, UNCHANGED <<clock, tables, writers, kind, room, cursor, pages, before>>,
           pc \notin {"idle", "done"},
           pc' \in {"ask", "check", "query", "index", "denied"},
           pc' \in {"check", "query"} => kind = "messages",
           pc' = "index" => kind = "conversations",
           limit' \in 1..MaxPageSize, todo' \subseteq Convs,
           got' \subseteq Keys, IsFiniteSet(got')
    PROVE  Ind'
<1>1. UNCHANGED <<clock, messages, updated, member, index, pending, sending, changes,
                  kind, room, cursor, pages, before>>
    BY DEF tables, writers
<1>2. TypeOK'
    BY <1>1 DEF Ind, TypeOK
<1>3. DataInv'
    BY <1>1 DEF Ind, DataInv
<1>4. ListInv'
    BY <1>1 DEF Ind, ListInv
<1>5. CursorInv' /\ NewestFirst' /\ \A k : Kept(k)' <=> Kept(k)
    BY <1>1, NoPage
<1>6. kind = "messages" => \A i \in before : \E k \in messages[room] : k[2] = i /\ Kept(k)'
    BY <1>5 DEF Ind, BeforeInv
<1>7. kind = "conversations" => \A c \in before : c \in index /\ Kept(Key(c))'
    BY <1>1, NoPageKey DEF Ind, BeforeInv
<1>8. BeforeInv'
    BY <1>1, <1>6, <1>7 DEF Ind, BeforeInv
<1> QED
    BY <1>2, <1>3, <1>4, <1>5, <1>8 DEF Ind

LEMMA AskAgainKeeps == ASSUME Ind, NEW n \in Limits, AskAgain(n) PROVE Ind'
<1>1. kind \in {"messages", "conversations"}
    BY DEF AskAgain, Ind, TypeOK, ListInv
<1> QED
    BY <1>1, SameKeeps, LimitInRange DEF AskAgain, Ind, TypeOK, DataInv

LEMMA CheckMemberKeeps == ASSUME Ind, CheckMember PROVE Ind'
<1>1. kind = "messages"
    BY DEF CheckMember, Ind, TypeOK, ListInv
<1>2. 1 \in 1..MaxPageSize
    BY Numbers
<1> QED
    BY <1>1, <1>2, SameKeeps, FS_EmptySet DEF CheckMember, Return, Ind, TypeOK, DataInv

LEMMA PageFailsKeeps == ASSUME Ind, PageFails PROVE Ind'
<1>1. 1 \in 1..MaxPageSize
    BY Numbers
<1> QED
    BY <1>1, SameKeeps, FS_EmptySet DEF PageFails, Return

\* The rest of the state when a page is given.
LEMMA PageGiven ==
    ASSUME Ind, UNCHANGED <<clock, tables, writers, kind, room>>,
           pc \in {"query", "index", "fetch"},
           pages' \in Seq(SUBSET Keys), cursor' \in Keys \cup {None},
           pc' \in {"ask", "done"}, limit' = 1, todo' = {}, got' = {},
           before' \subseteq Ids \cup Convs
    PROVE  TypeOK' /\ DataInv' /\ ListInv'
<1>1. UNCHANGED <<clock, messages, updated, member, index, pending, sending, changes,
                  kind, room>>
    BY DEF tables, writers
<1>2. 1 \in 1..MaxPageSize
    BY Numbers
<1>3. TypeOK'
    BY <1>1, <1>2 DEF Ind, TypeOK, Ids
<1>4. DataInv'
    BY <1>1, FS_EmptySet DEF Ind, DataInv
<1>5. ListInv'
    BY <1>1 DEF Ind, ListInv
<1> QED
    BY <1>3, <1>4, <1>5

LEMMA FindByConversationKeeps == ASSUME Ind, FindByConversation PROVE Ind'
<1> DEFINE S == {k \in messages[room] : Beyond(k, cursor)}
           rows == First(S, limit + 1)
           items == First(rows, limit)
           more == HasMore(rows, limit)
<1>1. /\ pc = "query" /\ Answer(items, more)
      /\ before' = IF pages = <<>> THEN {k[2] : k \in messages[room]} ELSE before
      /\ UNCHANGED <<clock, tables, writers, kind, room>>
    BY DEF FindByConversation
<1>2. kind = "messages" /\ room \in Convs
    BY <1>1 DEF Ind, TypeOK, ListInv
<1>3. /\ messages[room] \in SUBSET Keys /\ IsFiniteSet(messages[room])
      /\ \A k \in messages[room] : k[2] \in Ids
    BY <1>2 DEF Ind, TypeOK, DataInv
<1>4. S \in SUBSET Keys /\ IsFiniteSet(S) /\ \A k \in S : Beyond(k, cursor)
    BY <1>3, FS_Subset
<1>5. limit \in Nat /\ limit >= 1
    BY Numbers DEF Ind, TypeOK
<1>6. IsPage(S, items, more) /\ more \in BOOLEAN
  <2> HIDE DEF S
  <2>1. IsPage(S, items, more)
    BY <1>4, <1>5, ReadPage
  <2> QED
    BY <2>1 DEF HasMore
<1>7. \A k \in messages[room] : k \in S <=> Beyond(k, cursor)
    OBVIOUS
<1> HIDE DEF S, rows, items, more
<1>8. /\ pages' \in Seq(SUBSET Keys) /\ cursor' \in Keys \cup {None}
      /\ pc' \in {"ask", "done"} /\ limit' = 1 /\ todo' = {} /\ got' = {}
      /\ CursorInv' /\ NewestFirst'
      /\ \A k : Given(k) => Given(k)'
      /\ \A k \in S : Kept(k)'
    BY <1>1, <1>4, <1>6, AnswerKeeps
<1>9. before' \subseteq Ids \cup Convs
    BY <1>1, <1>3 DEF Ind, TypeOK, Ids
<1>10. TypeOK' /\ DataInv' /\ ListInv'
    BY <1>1, <1>8, <1>9, PageGiven
<1>11. \A k \in messages[room] : Kept(k) => Kept(k)'
    BY <1>7, <1>8 DEF Kept
<1>12. ASSUME NEW i \in before'
       PROVE  \E k \in messages[room] : k[2] = i /\ Kept(k)'
  <2>1. CASE pages = <<>>
    <3>1. PICK k \in messages[room] : k[2] = i
      BY <1>1, <1>12, <2>1
    <3>2. cursor = None
      BY <1>1, <2>1 DEF Ind, CursorInv
    <3>3. k \in S
      BY <1>7, <3>2 DEF Beyond
    <3> QED
      BY <1>8, <3>1, <3>3
  <2>2. CASE pages # <<>>
    <3>1. PICK k \in messages[room] : k[2] = i /\ Kept(k)
      BY <1>1, <1>2, <1>12, <2>2 DEF Ind, BeforeInv
    <3> QED
      BY <1>11, <3>1
  <2> QED
    BY <2>1, <2>2
<1>13. BeforeInv'
    BY <1>1, <1>2, <1>12 DEF BeforeInv, tables
<1> QED
    BY <1>8, <1>10, <1>13 DEF Ind

LEMMA ReadIndexKeeps == ASSUME Ind, ReadIndex PROVE Ind'
<1>1. /\ pc = "index"
      /\ IF index = {}
           THEN Answer({}, FALSE)
           ELSE pc' = "fetch" /\ todo' = index /\ UNCHANGED <<limit, got, pages, cursor>>
      /\ before' = IF pages = <<>> THEN index ELSE before
      /\ UNCHANGED <<clock, tables, writers, kind, room>>
    BY DEF ReadIndex
<1>2. kind = "conversations" /\ \A c \in before : c \in index
    BY <1>1 DEF Ind, TypeOK, ListInv, BeforeInv
<1>3. before' \subseteq index /\ index \subseteq Convs
    BY <1>1, <1>2 DEF Ind, TypeOK
<1>4. CASE index = {}
  <2>1. IsPage({}, {}, FALSE)
    BY DEF IsPage
  <2>2. /\ pages' \in Seq(SUBSET Keys) /\ cursor' \in Keys \cup {None}
        /\ pc' \in {"ask", "done"} /\ limit' = 1 /\ todo' = {} /\ got' = {}
        /\ CursorInv' /\ NewestFirst'
    BY <1>1, <1>4, <2>1, AnswerKeeps
  <2>3. TypeOK' /\ DataInv' /\ ListInv'
    BY <1>1, <1>3, <2>2, PageGiven
  <2>4. BeforeInv'
    BY <1>1, <1>2, <1>3, <1>4 DEF BeforeInv
  <2> QED
    BY <2>2, <2>3, <2>4 DEF Ind
<1>5. CASE index # {}
  <2>1. /\ pc' = "fetch" /\ todo' = index
        /\ UNCHANGED <<clock, messages, updated, member, index, pending, sending, changes,
                       kind, room, limit, got, pages, cursor>>
    BY <1>1, <1>5 DEF tables, writers
  <2>2. TypeOK'
    BY <1>3, <2>1 DEF Ind, TypeOK
  <2>3. DataInv' /\ ListInv'
    BY <1>2, <2>1 DEF Ind, DataInv, ListInv
  <2>4. CursorInv' /\ NewestFirst'
    BY <1>1, <2>1, NoPage
  <2>5. ASSUME NEW c \in before'
        PROVE  c \in index' /\ Kept(Key(c))' /\ c \in todo'
    <3>1. Kept(Key(c))
      <4>1. CASE pages = <<>>
        <5>1. cursor = None
          BY <1>1, <4>1 DEF Ind, CursorInv
        <5> QED
          BY <1>1, <5>1 DEF Kept, Beyond
      <4>2. CASE pages # <<>>
        BY <1>1, <1>2, <2>5, <4>2 DEF Ind, BeforeInv
      <4> QED
        BY <4>1, <4>2
    <3>2. Kept(Key(c))'
      BY <1>1, <2>1, <3>1, NoPageKey
    <3> QED
      BY <1>3, <2>1, <2>5, <3>2
  <2>6. BeforeInv'
    BY <1>2, <2>1, <2>5 DEF BeforeInv
  <2> QED
    BY <2>2, <2>3, <2>4, <2>6 DEF Ind
<1> QED
    BY <1>4, <1>5

LEMMA FetchConversationKeeps == ASSUME Ind, FetchConversation PROVE Ind'
<1>1. PICK c \in todo :
         IF todo = {c}
           THEN Answer(First({k \in got \cup {Key(c)} : Beyond(k, cursor)}, limit),
                       HasMore({k \in got \cup {Key(c)} : Beyond(k, cursor)}, limit))
           ELSE /\ todo' = todo \ {c}
                /\ got' = got \cup {Key(c)}
                /\ UNCHANGED <<pc, limit, pages, cursor>>
    BY DEF FetchConversation, Key
<1> DEFINE convs == got \cup {Key(c)}
           rest == {k \in convs : Beyond(k, cursor)}
<1>2. /\ pc = "fetch" /\ UNCHANGED <<clock, tables, writers, kind, room, before>>
      /\ UNCHANGED <<messages, updated, member, index, pending, sending, changes>>
    BY DEF FetchConversation, tables, writers
<1>3. kind = "conversations"
    BY <1>2 DEF Ind, TypeOK, ListInv
<1>4. c \in Convs /\ Key(c) \in Keys
    BY Numbers DEF Ind, TypeOK, Key, Keys
<1>5. convs \in SUBSET Keys /\ IsFiniteSet(convs)
    BY <1>4, FS_AddElement DEF Ind, TypeOK, DataInv
<1>6. ASSUME NEW d \in before
      PROVE  /\ d \in index /\ Kept(Key(d))
             /\ ~Given(Key(d)) => d \in todo \ {c} \/ Key(d) \in convs
    BY <1>2, <1>3, <1>6 DEF Ind, BeforeInv
<1>7. CASE todo = {c}
  <2>1. Answer(First(rest, limit), HasMore(rest, limit))
    BY <1>1, <1>7
  <2>2. rest \in SUBSET Keys /\ IsFiniteSet(rest) /\ \A k \in rest : Beyond(k, cursor)
    BY <1>5, FS_Subset
  <2>3. \A k \in convs : Beyond(k, cursor) => k \in rest
    OBVIOUS
  <2> HIDE DEF rest, convs
  <2>4. limit \in Nat /\ limit >= 1
    BY Numbers DEF Ind, TypeOK
  <2>5. IsPage(rest, First(rest, limit), HasMore(rest, limit))
    BY <2>2, <2>4, CutPage
  <2>6. HasMore(rest, limit) \in BOOLEAN
    BY DEF HasMore
  <2>7. /\ pages' \in Seq(SUBSET Keys) /\ cursor' \in Keys \cup {None}
        /\ pc' \in {"ask", "done"} /\ limit' = 1 /\ todo' = {} /\ got' = {}
        /\ CursorInv' /\ NewestFirst'
        /\ \A k : Given(k) => Given(k)'
        /\ \A k \in rest : Kept(k)'
    BY <1>2, <2>1, <2>2, <2>5, <2>6, AnswerKeeps
  <2>8. before' \subseteq Ids \cup Convs
    BY <1>2 DEF Ind, TypeOK, Ids
  <2>9. TypeOK' /\ DataInv' /\ ListInv'
    BY <1>2, <2>7, <2>8, PageGiven
  <2>10. ASSUME NEW d \in before PROVE Kept(Key(d))'
    <3>1. PICK k : k = Key(d)
      OBVIOUS
    <3>2. Key(d)' = k
      BY <1>2, <3>1 DEF Key
    <3>3. Kept(k)'
      <4>1. CASE Given(k)
        BY <2>7, <4>1 DEF Kept
      <4>2. CASE ~Given(k)
        <5>1. k \in convs /\ Beyond(k, cursor)
          BY <1>6, <1>7, <2>10, <3>1, <4>2 DEF Kept
        <5> QED
          BY <2>3, <2>7, <5>1
      <4> QED
        BY <4>1, <4>2
    <3> QED
      BY <3>2, <3>3 DEF Kept, Given, Beyond
  <2>11. BeforeInv'
    BY <1>2, <1>3, <1>6, <2>7, <2>10 DEF BeforeInv
  <2> QED
    BY <2>7, <2>9, <2>11 DEF Ind
<1>8. CASE todo # {c}
  <2>1. todo' = todo \ {c} /\ got' = convs /\ UNCHANGED <<pc, limit, pages, cursor>>
    BY <1>1, <1>8
  <2> HIDE DEF convs
  <2>2. TypeOK'
    BY <1>2, <1>5, <2>1 DEF Ind, TypeOK
  <2>3. DataInv' /\ ListInv'
    BY <1>2, <1>5, <2>1 DEF Ind, DataInv, ListInv
  <2>4. CursorInv' /\ NewestFirst'
    BY <1>2, <2>1, NoPage
  <2>5. ASSUME NEW d \in before
        PROVE  /\ d \in index' /\ Kept(Key(d))'
               /\ ~Given(Key(d))' => d \in todo' \/ Key(d)' \in got'
    <3>1. /\ Key(d)' = Key(d)
          /\ Kept(Key(d))' <=> Kept(Key(d))
          /\ Given(Key(d))' <=> Given(Key(d))
      BY <1>2, <2>1, NoPageKey
    <3> QED
      BY <1>2, <1>6, <2>1, <2>5, <3>1
  <2>6. BeforeInv'
    BY <1>2, <1>3, <2>5 DEF BeforeInv
  <2> QED
    BY <2>2, <2>3, <2>4, <2>6 DEF Ind
<1> QED
    BY <1>7, <1>8

-----------------------------------------------------------------------------
(* The theorems *)

LEMMA NextInd == Ind /\ [Next]_vars => Ind'
<1> SUFFICES ASSUME Ind, [Next]_vars PROVE Ind'
    OBVIOUS
<1>1. CASE \E m \in Msgs : Stamp(m) \/ InsertMessage(m) \/ UpdateLastMessage(m)
    BY <1>1, StampKeeps, InsertKeeps, UpdateKeeps
<1>2. CASE \E c \in Convs : ChangeParticipants(c) \/ ChangeIndex(c)
    BY <1>2, ChangeParticipantsKeeps, ChangeIndexKeeps
<1>3. CASE \E n \in Limits : AskConversations(n) \/ AskAgain(n)
    BY <1>3, AskKeeps, AskAgainKeeps
<1>4. CASE \E c \in Convs, n \in Limits : AskMessages(c, n)
    BY <1>4, AskKeeps
<1>5. CASE CheckMember
    BY <1>5, CheckMemberKeeps
<1>6. CASE FindByConversation
    BY <1>6, FindByConversationKeeps
<1>7. CASE ReadIndex
    BY <1>7, ReadIndexKeeps
<1>8. CASE FetchConversation
    BY <1>8, FetchConversationKeeps
<1>9. CASE PageFails
    BY <1>9, PageFailsKeeps
<1>10. CASE UNCHANGED vars
  <2>1. UNCHANGED <<clock, messages, updated, member, index, pending, sending, changes,
                    pc, kind, room, cursor, limit, todo, got, pages, before>>
    BY <1>10 DEF vars, tables, writers, asked
  <2>2. TypeOK' /\ DataInv'
    BY <2>1 DEF Ind, TypeOK, DataInv
  <2>3. BeforeInv'
    BY <2>1, BeforeStays DEF unread, asked
  <2> QED
    BY <2>1, <2>2, <2>3, PagesStay DEF Ind
<1> QED
    BY <1>1, <1>2, <1>3, <1>4, <1>5, <1>6, <1>7, <1>8, <1>9, <1>10 DEF Next

\* The inductive invariant holds of every reachable state.
THEOREM Invariance == Spec => []Ind
<1> QED
    BY InitInd, NextInd, PTL DEF Spec

\* Every variable stays in its domain, and no statement is sent with a limit above
\* the maximum.
THEOREM TypeCorrect == Spec => []TypeOK
<1>1. Ind => TypeOK
    BY DEF Ind
<1> QED
    BY <1>1, Invariance, PTL

\* Whatever is sent and changed between two requests, a later page is strictly older
\* than all pages before it, so nothing is given twice.
THEOREM NewestComesFirst == Spec => []NewestFirst
<1>1. Ind => NewestFirst
    BY DEF Ind
<1> QED
    BY <1>1, Invariance, PTL

\* A reader who follows the cursors to the end was given every message that was there
\* at its first page, and every conversation of its index that was left alone.
THEOREM ReaderGetsAll == Spec => []NothingMissed
<1>1. ASSUME Ind, pc = "done", NEW i \in before
      PROVE  \E p \in DOMAIN pages : \E k \in pages[p] : k[2] = i
  <2>1. kind = "messages" \/ kind = "conversations"
    BY <1>1 DEF Ind, TypeOK, ListInv
  <2>2. CASE kind = "messages"
    <3>1. PICK k \in messages[room] : k[2] = i /\ Kept(k)
      BY <1>1, <2>2 DEF Ind, BeforeInv
    <3> QED
      BY <1>1, <3>1 DEF Kept, Given
  <2>3. CASE kind = "conversations"
    <3>1. Kept(Key(i)) /\ Key(i)[2] = i
      BY <1>1, <2>3 DEF Ind, BeforeInv, Key
    <3> QED
      BY <1>1, <3>1 DEF Kept, Given
  <2> QED
    BY <2>1, <2>2, <2>3
<1>2. Ind => NothingMissed
  <2> SUFFICES ASSUME Ind, pc = "done", NEW i \in before
               PROVE  i \in {k[2] : k \in UNION {pages[p] : p \in DOMAIN pages}}
    BY DEF NothingMissed
  <2>1. PICK p \in DOMAIN pages : \E k \in pages[p] : k[2] = i
    BY <1>1
  <2> QED
    BY <2>1
<1> QED
    BY <1>2, Invariance, PTL

=============================================================================
