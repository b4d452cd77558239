------------------------------ MODULE Messages ------------------------------
(***************************************************************************)
(* The message half of the chat service: ChatService.SendMessage,          *)
(* EditMessage, DeleteMessage, AddReaction, RemoveReaction and the unread  *)
(* side of MarkAsRead, over the tables of MessageRepo, the last_message    *)
(* column, the unread counters in Redis, Kafka and the Centrifugo room.    *)
(*                                                                         *)
(* As in Conversations, a request is a goroutine, one action is one call   *)
(* to a store or a broker with the code up to the next one, and a fresh id *)
(* is named by the request that made it: a message id is a member of Reqs. *)
(* A text is named by the request that wrote it.  How people enter and     *)
(* leave a conversation is in Conversations; Realtime lets it happen, and  *)
(* here the participants stay.  No operation of the service ever sets      *)
(* OnlyAdminsCanSend, so that check of SendMessage is left out.            *)
(***************************************************************************)
EXTENDS Naturals, FiniteSets

CONSTANTS
    Users, Convs, Emojis,
    Reqs,           \* requests; the one that sends a message names it
    Members,        \* how often each user is in each conversation at first
    Types,          \* the types of message that are sent
    Media,          \* what is sent with it: no media, or with or without an URL
    MaxEmojis,      \* MaxReactionsPerMessage (20 in the code)
    MaxPerEmoji,    \* MaxUsersPerReaction (50 in the code)
    Ops,            \* the kinds of call each request may be
    Faults,         \* may calls fail, or the process stop?
    None            \* absent: no row, no text, no argument

AllOps == {"send", "edit", "delete", "react", "unreact", "read"}

ASSUME MembersAssumption == Members \in [Convs -> [Users -> Nat]]
ASSUME TypesAssumption == Types \subseteq {"text", "image", "system"}
ASSUME MediaAssumption == Media \subseteq {"none", "nourl", "url"}
ASSUME LimitsAssumption == MaxEmojis \in Nat /\ MaxPerEmoji \in Nat \ {0}
ASSUME MessageOpsAssumption == Ops \in [Reqs -> SUBSET AllOps]
ASSUME MessageFaultsAssumption == Faults \in BOOLEAN
ASSUME NoneAssumption == None \notin Users \cup Convs \cup Emojis \cup Reqs

VARIABLES
    members,        \* the participants' list: how many entries are each user's
    messages,       \* table messages
    byId,           \* table messages_by_id: the ids that resolve
    last,           \* column last_message of each conversation
    unread,         \* Redis hash unread:<user>, field <conversation>
    emitted,        \* Kafka: the events that were published
    shown,          \* what a client in the room shows of each message
    clock,          \* time.Now(), advanced by every reading
    pc, call, res,  \* where each request is, its arguments, its answer
    view,           \* the *domain.Message it holds in memory
    todo            \* entries of each user that SendMessage has yet to count

stores == <<messages, byId, last, unread>>
brokers == <<emitted, shown>>
vars == <<members, messages, byId, last, unread, emitted, shown, clock,
          pc, call, res, view, todo>>

-----------------------------------------------------------------------------
(* Data *)

Texts == Reqs \cup {None}

\* Mentions, replies and forwards ride along unchanged and are left out.  The
\* list of reactions has one element per emoji somebody uses.
Message == [conv : Convs, sender : Users, type : Types,
            text : Texts, media : BOOLEAN, at : Nat,
            edited : BOOLEAN, deleted : BOOLEAN,
            reactions : [Emojis -> SUBSET Users]]

ASSUME NoMessageAssumption == None \notin Message

LastMessage == [msg : Reqs, preview : Texts, at : Nat]

ASSUME NoLastMessageAssumption == None \notin LastMessage

Call == [op : AllOps \cup {"none"}, by : Users \cup {None},
         conv : Convs \cup {None}, msg : Reqs \cup {None},
         emoji : Emojis \cup {None}, text : Texts]

Answers == {"none", "ok", "refused", "error"}

PCs == {"idle", "insert", "lookup", "last", "update", "reread",
        "reactions", "clear", "emit", "push", "unread", "done"}

\* No entry of anybody.
NoOne == [u \in Users |-> 0]

\* What a client can show of a message: nothing yet, a tombstone, or a text.
Hidden == "hidden"
Unseen == "unseen"

ASSUME ShownAssumption == {Hidden, Unseen} \cap Texts = {}

-----------------------------------------------------------------------------
(* domain.Message *)

\* A text message needs text, any other but a system message needs a media
\* object, and no text is too long.
Validate(type, hasText, long, hasMedia) ==
    /\ type = "text" => hasText
    /\ ~long
    /\ type \notin {"text", "system"} => hasMedia

Used(reactions) == {e \in Emojis : reactions[e] # {}}

ReactVerdict_NoLimit(reactions, e, u) ==   \* mutant: the limits forgotten
    IF u \in reactions[e] THEN "already" ELSE "ok"

\* domain.Message.AddReaction
ReactVerdict(reactions, e, u) ==
    IF u \in reactions[e] THEN "already"
    ELSE IF reactions[e] # {}
           THEN IF Cardinality(reactions[e]) >= MaxPerEmoji THEN "full" ELSE "ok"
    ELSE IF Cardinality(Used(reactions)) >= MaxEmojis THEN "full" ELSE "ok"

\* domain.Message.RemoveReaction; an emoji nobody uses any more is dropped.
WithoutReaction(reactions, e, u) == [reactions EXCEPT ![e] = @ \ {u}]

\* A media object without an URL is stored, and later read, as no media.
HasMedia(media) == media = "url"

-----------------------------------------------------------------------------
NoCall == [op |-> "none", by |-> None, conv |-> None, msg |-> None,
           emoji |-> None, text |-> None]

Init ==
    /\ members = Members
    /\ messages = [m \in Reqs |-> None]
    /\ byId = {}
    /\ last = [c \in Convs |-> None]
    /\ unread = [u \in Users |-> [c \in Convs |-> 0]]
    /\ emitted = {}
    /\ shown = [m \in Reqs |-> Unseen]
    /\ clock = 0
    /\ pc = [r \in Reqs |-> "idle"]
    /\ call = [r \in Reqs |-> NoCall]
    /\ res = [r \in Reqs |-> "none"]
    /\ view = [r \in Reqs |-> None]
    /\ todo = [r \in Reqs |-> NoOne]

Finish(r, answer) ==
    /\ pc' = [pc EXCEPT ![r] = "done"]
    /\ res' = [res EXCEPT ![r] = answer]
    /\ view' = [view EXCEPT ![r] = None]
    /\ todo' = [todo EXCEPT ![r] = NoOne]

\* A request that a verdict refuses is forgotten.
Refuse(r) ==
    /\ Finish(r, "refused")
    /\ call' = [call EXCEPT ![r] = NoCall]

Goto(r, next) ==
    /\ pc' = [pc EXCEPT ![r] = next]
    /\ UNCHANGED <<res, view, todo>>

\* On to the next call with message m in memory.
GotoWith(r, next, m) ==
    /\ pc' = [pc EXCEPT ![r] = next]
    /\ view' = [view EXCEPT ![r] = m]
    /\ UNCHANGED <<res, todo>>

-----------------------------------------------------------------------------
(* SendMessage *)

\* domain.Conversation.HasMember
HasMember(c, u) == members[c][u] > 0

SendVerdict(u, c, allowed, valid) ==
    IF ~allowed THEN "limited"
    ELSE IF c = None THEN "notfound"
    ELSE IF ~HasMember(c, u) THEN "notmember"
    ELSE IF ~valid THEN "invalid"
    ELSE "ok"

\* The message as MessageRepo.Create stamps and stores it.
NewMessage(u, c, type, text, media) ==
    [conv |-> c, sender |-> u, type |-> type, text |-> text,
     media |-> HasMedia(media), at |-> clock, edited |-> FALSE,
     deleted |-> FALSE, reactions |-> [e \in Emojis |-> {}]]

\* The rate limiter, the read of the conversation and the checks.
SendMessage(r) ==
    /\ pc[r] = "idle"
    /\ "send" \in Ops[r]
    /\ \E u \in Users, c \in Convs \cup {None}, allowed \in BOOLEAN,
          type \in Types, text \in {r, None},
          long \in BOOLEAN, media \in Media :
          LET valid == Validate(type, text # None, long, media # "none")
              verdict == SendVerdict(u, c, allowed, valid)
          IN  /\ long => text # None
              /\ IF verdict = "ok"
                   THEN /\ call' = [call EXCEPT ![r] =
                                      [NoCall EXCEPT !.op = "send", !.by = u,
                                         !.conv = c, !.msg = r, !.text = text]]
                        /\ pc' = [pc EXCEPT ![r] = "insert"]
                        /\ view' = [view EXCEPT ![r] =
                                      NewMessage(u, c, type, text, media)]
                        /\ todo' = [todo EXCEPT ![r] = [members[c] EXCEPT ![u] = 0]]
                        /\ clock' = clock + 1
                        /\ UNCHANGED res
                   ELSE /\ Refuse(r)
                        /\ UNCHANGED clock
    /\ UNCHANGED <<stores, brokers>>

InsertMessage_Later(r) ==            \* mutant: announced before it is stored
    /\ pc[r] = "insert"
    /\ Goto(r, "last")
    /\ UNCHANGED <<stores, brokers, clock, call>>

\* MessageRepo.Create, first statement.  Ids are fresh, so the INSERT ... IF NOT
\* EXISTS always applies.
InsertMessage(r) ==
    /\ pc[r] = "insert"
    /\ messages' = [messages EXCEPT ![r] = view[r]]
    /\ Goto(r, "lookup")
    /\ UNCHANGED <<byId, last, unread, brokers, clock, call>>

IndexMessage_Skipped(r) ==           \* mutant: the lookup entry not written
    /\ pc[r] = "lookup"
    /\ Goto(r, "last")
    /\ UNCHANGED <<stores, brokers, clock, call>>

\* MessageRepo.Create, second statement.
IndexMessage(r) ==
    /\ pc[r] = "lookup"
    /\ byId' = byId \cup {r}
    /\ Goto(r, "last")
    /\ UNCHANGED <<messages, last, unread, brokers, clock, call>>

UpdateLastMessage(r) ==
    /\ pc[r] = "last"
    /\ last' = [last EXCEPT ![view[r].conv] =
                  [msg |-> r, preview |-> view[r].text, at |-> view[r].at]]
    /\ Goto(r, "emit")
    /\ UNCHANGED <<messages, byId, unread, brokers, clock, call>>

IncrementUnread_Down(r, u) ==        \* mutant: the sign swapped
    unread' = [unread EXCEPT ![u][view[r].conv] = @ - 1]

IncrementUnread_Twice(r, u) ==       \* mutant: counted on both sides
    unread' = [unread EXCEPT ![u][view[r].conv] = @ + 2]

\* CacheStore.IncrementUnread: HINCRBY unread:<u> <conversation> 1
IncrementUnread(r, u) ==
    unread' = [unread EXCEPT ![u][view[r].conv] = @ + 1]

\* One round of the loop over the list of participants that was read before the
\* message was stored.  Two racing additions leave a user in it twice
\* (ConversationRepo.AddParticipant), who is then counted twice.
CountUnread(r) ==
    /\ pc[r] = "unread"
    /\ \E u \in Users :
          LET rest == [todo[r] EXCEPT ![u] = @ - 1]
          IN  /\ todo[r][u] > 0
              /\ \/ IncrementUnread(r, u)
                 \/ Faults /\ UNCHANGED unread
              /\ IF rest = NoOne
                   THEN Finish(r, "ok")
                   ELSE /\ todo' = [todo EXCEPT ![r] = rest]
                        /\ UNCHANGED <<pc, res, view>>
    /\ UNCHANGED <<messages, byId, last, brokers, clock, call>>

-----------------------------------------------------------------------------
(* The other requests *)

\* MessageRepo.FindByID: the lookup table, then the row.  A lookup entry is
\* written after its row and neither is ever deleted, so the two reads are as
\* good as one.
FindByID(m) == IF m \in byId THEN messages[m] ELSE None

EditVerdict_AnyUser(m, by, long) ==  \* mutant: not only the sender's
    IF m = None THEN "notfound"
    ELSE IF m.deleted THEN "gone"
    ELSE IF m.type # "text" \/ long THEN "invalid"
    ELSE "ok"

EditVerdict(m, by, long) ==
    IF m = None THEN "notfound"
    ELSE IF m.sender # by THEN "forbidden"
    ELSE IF m.deleted THEN "gone"
    ELSE IF m.type # "text" \/ long THEN "invalid"
    ELSE "ok"

DeleteVerdict(m, by) ==
    IF m = None THEN "notfound"
    ELSE IF m.sender # by THEN "forbidden"
    ELSE "ok"

\* AddReaction asks for membership, RemoveReaction does not.
ReactionVerdict(m, op, by) ==
    IF m = None THEN "notfound"
    ELSE IF op = "react" /\ ~HasMember(m.conv, by) THEN "notmember"
    ELSE "ok"

ReadVerdict(m, c, by) ==
    IF ~HasMember(c, by) THEN "notmember"
    ELSE IF m = None THEN "notfound"
    ELSE IF m.conv # c THEN "notfound"
    ELSE "ok"

Edited(m, text) == [m EXCEPT !.text = text, !.edited = TRUE]

Deleted_KeepText(m) == [m EXCEPT !.deleted = TRUE]   \* mutant: only the flag

Deleted(m) == [m EXCEPT !.deleted = TRUE, !.text = None, !.media = FALSE]

\* Request r is about message m, and asked for by the user of the token.
Asks(op, u, m) == [NoCall EXCEPT !.op = op, !.by = u, !.msg = m]

EditMessage(r) ==
    /\ pc[r] = "idle"
    /\ "edit" \in Ops[r]
    /\ \E u \in Users, id \in Reqs, text \in {r, None}, long \in BOOLEAN :
          LET m == FindByID(id)
          IN  /\ long => text # None
              /\ IF EditVerdict(m, u, long) = "ok"
                   THEN /\ GotoWith(r, "update", Edited(m, text))
                        /\ call' = [call EXCEPT ![r] =
                                      [Asks("edit", u, id) EXCEPT !.text = text]]
                   ELSE Refuse(r)
    /\ UNCHANGED <<stores, brokers, clock>>

DeleteMessage(r) ==
    /\ pc[r] = "idle"
    /\ "delete" \in Ops[r]
    /\ \E u \in Users, id \in Reqs :
          LET m == FindByID(id)
          IN  IF DeleteVerdict(m, u) = "ok"
                THEN /\ GotoWith(r, "update", Deleted(m))
                     /\ call' = [call EXCEPT ![r] = Asks("delete", u, id)]
                ELSE Refuse(r)
    /\ UNCHANGED <<stores, brokers, clock>>

\* MessageRepo.Update writes every column from the copy in memory.
UpdateMessage(r) ==
    /\ pc[r] = "update"
    /\ messages' = [messages EXCEPT ![call[r].msg] = view[r]]
    /\ Goto(r, "emit")
    /\ UNCHANGED <<byId, last, unread, brokers, clock, call>>

\* AddReaction and RemoveReaction, up to the repository's own reading.
React(r, op) ==
    /\ pc[r] = "idle"
    /\ op \in Ops[r]
    /\ \E u \in Users, id \in Reqs, e \in Emojis :
          IF ReactionVerdict(FindByID(id), op, u) = "ok"
            THEN /\ Goto(r, "reread")
                 /\ call' = [call EXCEPT ![r] = [Asks(op, u, id) EXCEPT !.emoji = e]]
            ELSE Refuse(r)
    /\ UNCHANGED <<stores, brokers, clock>>

AddReaction(r) == React(r, "react")
RemoveReaction(r) == React(r, "unreact")

\* The repository reads the message again and applies the domain's AddReaction
\* or RemoveReaction.  Nothing to change: no write, but the events follow.
ReadReactions(r) ==
    /\ pc[r] = "reread"
    /\ LET m == FindByID(call[r].msg)
           e == call[r].emoji
           u == call[r].by
           verdict == IF call[r].op = "react"
                        THEN ReactVerdict(m.reactions, e, u)
                        ELSE IF u \in m.reactions[e] THEN "ok" ELSE "already"
           changed == IF call[r].op = "react"
                        THEN [m EXCEPT !.reactions[e] = @ \cup {u}]
                        ELSE [m EXCEPT !.reactions = WithoutReaction(@, e, u)]
       IN  CASE verdict = "ok"      -> GotoWith(r, "reactions", changed) /\ UNCHANGED call
             [] verdict = "already" -> Goto(r, "emit") /\ UNCHANGED call
             [] OTHER               -> Refuse(r)
    /\ UNCHANGED <<stores, brokers, clock>>

\* UPDATE messages SET reactions = ?
WriteReactions(r) ==
    /\ pc[r] = "reactions"
    /\ messages' = [messages EXCEPT ![call[r].msg].reactions = view[r].reactions]
    /\ Goto(r, "emit")
    /\ UNCHANGED <<byId, last, unread, brokers, clock, call>>

\* The checks of MarkAsRead and the read cursor, which Conversations models.
MarkAsRead(r) ==
    /\ pc[r] = "idle"
    /\ "read" \in Ops[r]
    /\ \E u \in Users, id \in Reqs, c \in Convs :
          IF ReadVerdict(FindByID(id), c, u) = "ok"
            THEN /\ Goto(r, "clear")
                 /\ call' = [call EXCEPT ![r] = [Asks("read", u, id) EXCEPT !.conv = c]]
            ELSE Refuse(r)
    /\ UNCHANGED <<stores, brokers, clock>>

ClearUnread_Sender(r) ==             \* mutant: the counter of the message's sender
    /\ pc[r] = "clear"
    /\ unread' = [unread EXCEPT ![messages[call[r].msg].sender][call[r].conv] = 0]
    /\ Goto(r, "emit")
    /\ UNCHANGED <<messages, byId, last, brokers, clock, call>>

\* CacheStore.ClearUnread: HDEL unread:<u> <conversation>
ClearUnread(r) ==
    /\ pc[r] = "clear"
    /\ unread' = [unread EXCEPT ![call[r].by][call[r].conv] = 0]
    /\ Goto(r, "emit")
    /\ UNCHANGED <<messages, byId, last, brokers, clock, call>>

-----------------------------------------------------------------------------
(* The events *)

\* PublishMessageSent and its siblings.
Emit(r) ==
    /\ pc[r] = "emit"
    /\ emitted' = emitted \cup {[kind |-> call[r].op, msg |-> call[r].msg]}
    /\ Goto(r, "push")
    /\ UNCHANGED <<stores, shown, clock, call>>

Display_KeepDeleted(r) ==            \* mutant: the room is not told of a delete
    IF call[r].op \in {"send", "edit"} THEN view[r].text ELSE shown[call[r].msg]

\* What the clients of the room show after the event of request r.
Display(r) ==
    CASE call[r].op \in {"send", "edit"} -> view[r].text
      [] call[r].op = "delete"           -> Hidden
      [] OTHER                           -> shown[call[r].msg]

\* The last call of every request but SendMessage, which goes on to count.
Leave(r) ==
    IF todo[r] # NoOne THEN Goto(r, "unread") ELSE Finish(r, "ok")

\* PublishToConversation
Push(r) ==
    /\ pc[r] = "push"
    /\ shown' = [shown EXCEPT ![call[r].msg] = Display(r)]
    /\ Leave(r)
    /\ UNCHANGED <<stores, emitted, clock, call>>

BestEffortFails_SkipsPush(r) ==      \* mutant: the room hears only what Kafka took
    /\ Faults
    /\ \/ pc[r] \in {"last", "clear"} /\ Goto(r, "emit")
       \/ pc[r] \in {"emit", "push"} /\ Leave(r)
    /\ UNCHANGED <<stores, brokers, clock, call>>

\* These calls only log their errors.
BestEffortFails(r) ==
    /\ Faults
    /\ \/ pc[r] \in {"last", "clear"} /\ Goto(r, "emit")
       \/ pc[r] = "emit" /\ Goto(r, "push")
       \/ pc[r] = "push" /\ Leave(r)
    /\ UNCHANGED <<stores, brokers, clock, call>>

\* Any other call fails, or the process stops: the request ends here.
Fault(r) ==
    /\ Faults
    /\ pc[r] \notin {"idle", "done"}
    /\ Finish(r, "error")
    /\ UNCHANGED <<stores, brokers, clock, call>>

Arrive(r) ==
    /\ \/ SendMessage(r)
       \/ EditMessage(r)
       \/ DeleteMessage(r)
       \/ AddReaction(r)
       \/ RemoveReaction(r)
       \/ MarkAsRead(r)
    /\ UNCHANGED members

Statement(r) ==
    /\ \/ InsertMessage(r)
       \/ IndexMessage(r)
       \/ UpdateLastMessage(r)
       \/ CountUnread(r)
       \/ UpdateMessage(r)
       \/ ReadReactions(r)
       \/ WriteReactions(r)
       \/ ClearUnread(r)
       \/ Emit(r)
    /\ UNCHANGED members

PushEvent(r) == Push(r) /\ UNCHANGED members

Step(r) == Statement(r) \/ PushEvent(r)

Failure(r) == (BestEffortFails(r) \/ Fault(r)) /\ UNCHANGED members

Next == \E r \in Reqs : Arrive(r) \/ Step(r) \/ Failure(r)

Spec == Init /\ [][Next]_vars

-----------------------------------------------------------------------------
(* Properties *)

\* Every variable stays in its domain.
TypeOK ==
    /\ members \in [Convs -> [Users -> Nat]]
    /\ messages \in [Reqs -> Message \cup {None}]
    /\ byId \subseteq Reqs
    /\ last \in [Convs -> LastMessage \cup {None}]
    /\ unread \in [Users -> [Convs -> Nat]]
    /\ emitted \subseteq [kind : AllOps, msg : Reqs]
    /\ shown \in [Reqs -> Texts \cup {Hidden, Unseen}]
    /\ clock \in Nat
    /\ pc \in [Reqs -> PCs]
    /\ call \in [Reqs -> Call]
    /\ res \in [Reqs -> Answers]
    /\ view \in [Reqs -> Message \cup {None}]
    /\ todo \in [Reqs -> [Users -> Nat]]

\* "Persist before broadcast (critical pattern)" (SendMessage): a message that
\* Kafka, a client or a conversation's last_message knows of is stored.
StoredBeforeAnnounced ==
    \A m \in Reqs :
        (\/ \E ev \in emitted : ev.msg = m
         \/ shown[m] # Unseen
         \/ \E c \in Convs : last[c] # None /\ last[c].msg = m)
            => messages[m] # None

\* A lookup entry is never dangling, and a message whose sending was
\* acknowledged can be found by its id, so it can be edited, deleted, reacted to
\* and marked as read.
AckedIsResolvable ==
    /\ \A m \in byId : messages[m] # None
    /\ \A r \in Reqs : (call[r].op = "send" /\ res[r] = "ok") => r \in byId

\* Although Update writes back every column of an old copy, a message never
\* changes its sender or conversation, and every text stored under it or shown
\* for it was written by its sender for this very message.
OnlyAuthorSpeaks ==
    \A m \in Reqs :
        /\ messages[m] # None =>
             /\ messages[m].sender = call[m].by
             /\ messages[m].conv = call[m].conv
             /\ messages[m].text # None =>
                  /\ call[messages[m].text].by = call[m].by
                  /\ call[messages[m].text].msg = m
        /\ shown[m] \in Reqs => call[shown[m]].by = call[m].by

\* A message is never stored half deleted: whatever old copies are written back,
\* the flag and the cleared content go together.
DeletedIsCleared ==
    \A m \in Reqs : (messages[m] # None /\ messages[m].deleted) =>
        messages[m].text = None /\ ~messages[m].media

\* "A message may have at most 20 distinct emojis and 50 users per emoji": the
\* limits are checked on a copy that others may have outdated, and hold all the
\* same.
ReactionLimits ==
    \A m \in Reqs : messages[m] # None =>
        /\ Cardinality(Used(messages[m].reactions)) <= MaxEmojis
        /\ \A e \in Emojis : Cardinality(messages[m].reactions[e]) <= MaxPerEmoji

=============================================================================
