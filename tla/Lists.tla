------------------------------- MODULE Lists -------------------------------
(***************************************************************************)
(* The paged lists: ChatService.GetMessages over                           *)
(* MessageRepo.FindByConversation, and ChatService.GetConversations over   *)
(* ConversationRepo.FindByUser, for one reader, while other requests send  *)
(* messages and change the participants.                                   *)
(*                                                                         *)
(* A page of messages is one statement.  A page of conversations is one    *)
(* statement for the reader's index and one more for each conversation,    *)
(* sorted and cut in memory, and its sort key, updated_at, changes all the *)
(* time: SendMessage sets it to the time the message was stamped, which may*)
(* be earlier than what it replaces.                                       *)
(*                                                                         *)
(* Ids are numbers, in the order of the strings they stand for.  A cursor  *)
(* travels as text that keeps the time to the nanosecond and is split at   *)
(* its last bar, which no id contains, so it comes back as it was; one that*)
(* does not parse counts as none and starts the list again.                *)
(***************************************************************************)
EXTENDS Naturals, FiniteSets, Sequences

CONSTANTS
    Msgs,               \* ids of messages that are sent
    Convs,              \* ids of conversations
    Earlier,            \* the message each of them already has
    Limits,             \* the limits clients ask for
    DefaultPageSize,    \* 50 in the code
    MaxPageSize,        \* 100 in the code
    Milli,              \* readings of the clock in a millisecond
    MaxChanges,         \* bound on the changes of participants
    None

ASSUME ListsAssumption ==
    /\ Msgs \subseteq Nat /\ IsFiniteSet(Msgs)
    /\ Convs \subseteq Nat /\ IsFiniteSet(Convs)
    /\ Earlier \in [Convs -> Nat \ Msgs]
    /\ Limits \subseteq Nat
    /\ DefaultPageSize \in 1..MaxPageSize
    /\ MaxPageSize \in Nat
    /\ Milli \in Nat \ {0}
    /\ MaxChanges \in Nat
    /\ None \notin Nat \cup Nat \X Nat

VARIABLES
    clock,          \* time.Now(), advanced by every reading
    messages,       \* table messages: the keys of its rows, by conversation
    updated,        \* column updated_at of table conversations
    member,         \* the conversations whose participants include the reader
    index,          \* table user_conversations: the entries of the reader
    pending,        \* conversations whose index entry is yet to be changed
    sending,        \* the SendMessage requests: the next call, where and when
    changes,        \* how often participants were changed
    pc,             \* the statement the reader's request is about to send
    kind, room,     \* the list the reader pages through, and of which room
    cursor, limit,  \* the parameters of its request
    todo, got,      \* FindByUser: the ids to fetch, and the keys it has
    pages,          \* the pages the reader was given
    before          \* what was there at the first page and is as it was

tables == <<messages, updated, member, index>>
writers == <<pending, sending, changes>>
asked == <<kind, room, cursor, limit>>
vars == <<clock, tables, writers, pc, asked, todo, got, pages, before>>

-----------------------------------------------------------------------------
(* Keys, cursors and pages *)

\* (created_at, id) or (updated_at, id)
Keys == Nat \X Nat

Less(k, l) == k[1] < l[1] \/ (k[1] = l[1] /\ k[2] < l[2])

\* A CQL timestamp has milliseconds: what is stored is the time cut off.
Stored(t) == t - (t % Milli)

Beyond_Again(k, c) == c = None \/ k = c \/ Less(k, c)    \* mutant: <= for <

\* (created_at, id) < (?, ?), and the search for the start of the page.
Beyond(k, c) == c = None \/ Less(k, c)

\* The first n keys of a set in descending order: clustering order DESC with
\* LIMIT, and the sorted slice of FindByUser.
First(S, n) == {k \in S : Cardinality({l \in S : Less(k, l)}) < n}

\* The cursor of the next page is the last item of this one.
NextCursor(items) == CHOOSE k \in items : \A l \in items : k = l \/ Less(k, l)

HasMore_Late(S, n) == Cardinality(S) > n + 1             \* mutant: off by one

HasMore(S, n) == Cardinality(S) > n

NormalizeLimit_NoCap(n) == IF n = 0 THEN DefaultPageSize ELSE n      \* mutant

NormalizeLimit(n) ==
    IF n = 0 THEN DefaultPageSize
    ELSE IF n > MaxPageSize THEN MaxPageSize
    ELSE n

-----------------------------------------------------------------------------
Init ==
    /\ clock = 0
    /\ messages = [c \in Convs |-> {<<0, Earlier[c]>>}]
    /\ updated = [c \in Convs |-> 0]
    /\ member \in SUBSET Convs
    /\ index = member
    /\ pending = {}
    /\ sending = [m \in Msgs |-> [call |-> "none", conv |-> None, at |-> 0]]
    /\ changes = 0
    /\ pc = "idle"
    /\ kind = "none"
    /\ room = None
    /\ cursor = None
    /\ limit = 1
    /\ todo = {}
    /\ got = {}
    /\ pages = <<>>
    /\ before = {}

-----------------------------------------------------------------------------
(* The requests that write *)

\* A write to conversation c, or to the reader's index entry of it.
Touch(c) == before' = IF kind = "conversations" THEN before \ {c} ELSE before

unread == <<pc, asked, todo, got, pages>>   \* what writers leave alone

\* SendMessage up to the stamp of MessageRepo.Create.
Stamp(m) ==
    /\ sending[m].call = "none"
    /\ \E c \in Convs :
          sending' = [sending EXCEPT ![m] = [call |-> "insert", conv |-> c,
                                             at |-> clock]]
    /\ clock' = clock + 1
    /\ UNCHANGED <<tables, pending, changes, unread, before>>

\* MessageRepo.Create
InsertMessage(m) ==
    LET c == sending[m].conv
    IN  /\ sending[m].call = "insert"
        /\ messages' = [messages EXCEPT ![c] = @ \cup {<<Stored(sending[m].at), m>>}]
        /\ sending' = [sending EXCEPT ![m].call = "last"]
        /\ UNCHANGED <<clock, updated, member, index, pending, changes, unread, before>>

\* ConversationRepo.UpdateLastMessage sets updated_at to the stamp.
UpdateLastMessage(m) ==
    LET c == sending[m].conv
    IN  /\ sending[m].call = "last"
        /\ updated' = [updated EXCEPT ![c] = Stored(sending[m].at)]
        /\ sending' = [sending EXCEPT ![m].call = "done"]
        /\ Touch(c)
        /\ UNCHANGED <<clock, messages, member, index, pending, changes, unread>>

\* ConversationRepo.AddParticipant and RemoveParticipant, first write: of
\* somebody else, or of the reader, whose index entry follows.
ChangeParticipants(c) ==
    /\ changes < MaxChanges
    /\ changes' = changes + 1
    /\ updated' = [updated EXCEPT ![c] = Stored(clock)]
    /\ clock' = clock + 1
    /\ \/ UNCHANGED <<member, pending>>
       \/ /\ c \notin pending
          /\ member' = IF c \in member THEN member \ {c} ELSE member \cup {c}
          /\ pending' = pending \cup {c}
    /\ Touch(c)
    /\ UNCHANGED <<messages, index, sending, unread>>

\* insertParticipantIndexes and deleteParticipantIndexes
ChangeIndex(c) ==
    /\ c \in pending
    /\ pending' = pending \ {c}
    /\ index' = IF c \in member THEN index \cup {c} ELSE index \ {c}
    /\ Touch(c)
    /\ UNCHANGED <<clock, messages, updated, member, sending, changes, unread>>

-----------------------------------------------------------------------------
(* The reader *)

AskMessages(c, n) ==
    /\ pc = "idle"
    /\ pc' = "check"
    /\ kind' = "messages"
    /\ room' = c
    /\ limit' = NormalizeLimit(n)
    /\ UNCHANGED <<clock, tables, writers, cursor, todo, got, pages, before>>

AskConversations(n) ==
    /\ pc = "idle"
    /\ pc' = "index"
    /\ kind' = "conversations"
    /\ limit' = NormalizeLimit(n)
    /\ UNCHANGED <<clock, tables, writers, room, cursor, todo, got, pages, before>>

\* The next page, or again the one that failed.
AskAgain(n) ==
    /\ pc = "ask"
    /\ pc' = IF kind = "messages" THEN "check" ELSE "index"
    /\ limit' = NormalizeLimit(n)
    /\ UNCHANGED <<clock, tables, writers, kind, room, cursor, todo, got, pages, before>>

\* The request ends, and what it held in memory is gone.
Return(next) ==
    /\ pc' = next
    /\ limit' = 1
    /\ todo' = {}
    /\ got' = {}

\* The response: items, NextCursor and HasMore.
Answer(items, more) ==
    /\ pages' = Append(pages, items)
    /\ cursor' = IF more THEN NextCursor(items) ELSE cursor
    /\ Return(IF more THEN "ask" ELSE "done")

\* GetMessages: the caller must be in the conversation.
CheckMember ==
    /\ pc = "check"
    /\ IF room \in member
         THEN pc' = "query" /\ UNCHANGED <<limit, todo, got>>
         ELSE Return("denied")
    /\ UNCHANGED <<clock, tables, writers, kind, room, cursor, pages, before>>

\* One row more than the page is read, to know whether there is another page.
FindByConversation ==
    /\ pc = "query"
    /\ LET rows == First({k \in messages[room] : Beyond(k, cursor)}, limit + 1)
       IN  Answer(First(rows, limit), HasMore(rows, limit))
    /\ before' = IF pages = <<>> THEN {k[2] : k \in messages[room]} ELSE before
    /\ UNCHANGED <<clock, tables, writers, kind, room>>

\* FindByUser, first statement.  No conversations: an empty page.
ReadIndex ==
    /\ pc = "index"
    /\ IF index = {}
         THEN Answer({}, FALSE)
         ELSE pc' = "fetch" /\ todo' = index /\ UNCHANGED <<limit, got, pages, cursor>>
    /\ before' = IF pages = <<>> THEN index ELSE before
    /\ UNCHANGED <<clock, tables, writers, kind, room>>

\* FindByUser: the next conversation of the index, in clustering order; after
\* the last one the copies are sorted and the page is cut out of them.
FetchConversation ==
    /\ pc = "fetch"
    /\ \E c \in todo :
          LET convs == got \cup {<<updated[c], c>>}
              rest == {k \in convs : Beyond(k, cursor)}
          IN  /\ \A d \in todo : c <= d
              /\ IF todo = {c}
                   THEN Answer(First(rest, limit), HasMore(rest, limit))
                   ELSE /\ todo' = todo \ {c}
                        /\ got' = convs
                        /\ UNCHANGED <<pc, limit, pages, cursor>>
    /\ UNCHANGED <<clock, tables, writers, kind, room, before>>

\* A statement fails and the request ends in an error; the reader may ask again.
PageFails ==
    /\ pc \in {"check", "query", "index", "fetch"}
    /\ Return("ask")
    /\ UNCHANGED <<clock, tables, writers, kind, room, cursor, pages, before>>

Next ==
    \/ \E m \in Msgs : Stamp(m) \/ InsertMessage(m) \/ UpdateLastMessage(m)
    \/ \E c \in Convs : ChangeParticipants(c) \/ ChangeIndex(c)
    \/ \E n \in Limits : AskConversations(n) \/ AskAgain(n)
    \/ \E c \in Convs, n \in Limits : AskMessages(c, n)
    \/ CheckMember \/ FindByConversation
    \/ ReadIndex \/ FetchConversation \/ PageFails

Spec == Init /\ [][Next]_vars

-----------------------------------------------------------------------------
(* Properties *)

\* Every variable stays in its domain; a page is never asked for with a limit
\* above the maximum, whatever the client sends.
TypeOK ==
    /\ clock \in Nat
    /\ messages \in [Convs -> SUBSET Keys]
    /\ updated \in [Convs -> Nat]
    /\ member \subseteq Convs
    /\ index \subseteq Convs
    /\ pending \subseteq Convs
    /\ sending \in [Msgs -> [call : {"none", "insert", "last", "done"},
                             conv : Convs \cup {None}, at : Nat]]
    /\ changes \in 0..MaxChanges
    /\ pc \in {"idle", "ask", "check", "query", "index", "fetch", "done", "denied"}
    /\ kind \in {"none", "messages", "conversations"}
    /\ room \in Convs \cup {None}
    /\ cursor \in Keys \cup {None}
    /\ limit \in 1..MaxPageSize
    /\ todo \subseteq Convs
    /\ got \subseteq Keys
    /\ pages \in Seq(SUBSET Keys)
    /\ before \subseteq Msgs \cup Convs \cup {Earlier[c] : c \in Convs}

\* "Returns messages ordered newest-first", "ordered by most-recently updated":
\* everything on a later page is strictly older than everything on the pages
\* before it, so a message is never given twice, although messages arrive with
\* stamps taken earlier, ties in the millisecond are common, and conversations
\* move about while they are paged through.
NewestFirst ==
    \A i, j \in DOMAIN pages : i < j =>
        \A k \in pages[i], l \in pages[j] : Less(l, k)

\* "Use the returned cursor for pagination": a reader who follows the cursors to
\* the end was given every message that was stored when it began, or every
\* conversation of its index that nobody wrote to meanwhile, whatever limits it
\* used and whichever of its requests failed.
NothingMissed ==
    pc = "done" =>
        before \subseteq {k[2] : k \in UNION {pages[i] : i \in DOMAIN pages}}

=============================================================================
