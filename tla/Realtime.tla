------------------------------ MODULE Realtime ------------------------------
(***************************************************************************)
(* The rooms: who hears what the message half of the service publishes.    *)
(* CentrifugoProxy answers Centrifugo's questions whether a client may     *)
(* subscribe to a room or publish into it; a publication becomes a         *)
(* SendMessage, and Centrifugo passes the client's own payload on to the   *)
(* room as well, since the answer carries no other data.                   *)
(*                                                                         *)
(* Composes Messages, with all its failures, with the proxy and with       *)
(* changes of membership.  The bookkeeping of subscriptions, and the       *)
(* timeout of a question to the proxy, are Centrifugo's.                   *)
(***************************************************************************)
EXTENDS Messages

CONSTANTS
    Clients,        \* the users who are connected to Centrifugo
    Proxied,        \* the requests that may come from Centrifugo
    MaxChanges,     \* how often a list of participants is written
    MaxEntries      \* how often a user may be in such a list

ASSUME ClientsAssumption == Clients \subseteq Users
ASSUME ProxiedAssumption == Proxied \subseteq Reqs
ASSUME ChangesAssumption == MaxChanges \in Nat /\ MaxEntries \in Nat

VARIABLES
    changes,        \* how often the membership has changed
    granted,        \* <<u, c>>: the proxy has agreed, Centrifugo not yet heard it
    subs,           \* <<u, c>>: client u is in room c
    via,            \* how each request came: "http", "proxy", or given up on
    raw,            \* the requests whose payload went to the room unchanged
    \* History variables, which no action reads:
    heard,          \* <<u, m>>: u was sent something about message m
    most,           \* the most entries each user has had in each conversation
    met,            \* the requests that were in progress together with each one
    lost            \* <<r, call>>: a call of request r failed and was only logged

room == <<changes, granted, subs>>
told == <<raw, heard>>
history == <<most, met, lost>>
allVars == <<vars, room, via, told, history>>

RealtimeInit ==
    /\ Init
    /\ changes = 0
    /\ granted = {}
    /\ subs = {}
    /\ via = [r \in Reqs |-> "http"]
    /\ raw = {}
    /\ heard = {}
    /\ most = members
    /\ met = [r \in Reqs |-> {}]
    /\ lost = {}

Running == {r \in Reqs : pc[r] \notin {"idle", "done"}}

\* Request r arrives among those that are running.
Meets(r) ==
    met' = [s \in Reqs |-> IF s = r THEN Running
                           ELSE IF s \in Running THEN met[s] \cup {r} ELSE met[s]]

\* Everybody in the room of message m.
Audience(m, c) == {<<u, m>> : u \in {v \in Clients : <<v, c>> \in subs}}

-----------------------------------------------------------------------------
(* CentrifugoProxy *)

HandleSubscribe_Open(u, c) ==        \* mutant: the answer of GetConversation ignored
    /\ <<u, c>> \notin granted \cup subs
    /\ granted' = granted \cup {<<u, c>>}
    /\ UNCHANGED <<vars, changes, subs, via, told, history>>

\* The client asks for a room; GetConversation reads who is in it.  A refusal, or
\* a channel that is no room, changes nothing.
HandleSubscribe(u, c) ==
    /\ <<u, c>> \notin granted \cup subs
    /\ HasMember(c, u)
    /\ granted' = granted \cup {<<u, c>>}
    /\ UNCHANGED <<vars, changes, subs, via, told, history>>

\* Centrifugo has the answer, or has waited too long for it.
Subscribe(u, c) ==
    /\ <<u, c>> \in granted
    /\ granted' = granted \ {<<u, c>>}
    /\ subs' \in {subs, subs \cup {<<u, c>>}}
    /\ UNCHANGED <<vars, changes, via, told, history>>

\* The client leaves the room or loses its connection.
Unsubscribe(u, c) ==
    /\ <<u, c>> \in subs
    /\ subs' = subs \ {<<u, c>>}
    /\ UNCHANGED <<vars, changes, granted, via, told, history>>

\* HandlePublish: a message without media, in the room the client named.
HandlePublish(r) ==
    /\ r \in Proxied
    /\ SendMessage(r)
    /\ view'[r] # None => call'[r].by \in Clients /\ ~view'[r].media
    /\ via' = [via EXCEPT ![r] = "proxy"]
    /\ Meets(r)
    /\ UNCHANGED <<members, room, told, most, lost>>

FanOut_Always(r) ==                  \* mutant: the error of SendMessage ignored
    /\ via[r] = "proxy" /\ pc[r] = "done"
    /\ r \notin raw
    /\ raw' = raw \cup {r}
    /\ heard' = heard \cup Audience(r, call[r].conv)
    /\ UNCHANGED <<vars, room, via, history>>

\* An answer without an error lets the client's payload into the room.
FanOut(r) ==
    /\ via[r] = "proxy" /\ pc[r] = "done" /\ res[r] = "ok"
    /\ r \notin raw
    /\ raw' = raw \cup {r}
    /\ heard' = heard \cup Audience(r, call[r].conv)
    /\ UNCHANGED <<vars, room, via, history>>

\* Centrifugo waits no longer for the answer to a publication, and the client is
\* told of an error.  The request runs on with its context cancelled: what it
\* still calls may fail (CutOff, Logged) or have got through before.  A client
\* that publishes once more makes another request.
ProxyTimeout(r) ==
    /\ via[r] = "proxy" /\ r \notin raw
    /\ via' = [via EXCEPT ![r] = "given up"]
    /\ UNCHANGED <<vars, room, told, history>>

-----------------------------------------------------------------------------
(* The rest of the service *)

HandleHTTP(r) ==
    /\ Arrive(r)
    /\ Meets(r)
    /\ UNCHANGED <<room, via, told, most, lost>>

Silently(r) ==
    /\ Statement(r)
    /\ UNCHANGED <<room, via, told, history>>

\* PublishToConversation reaches whoever is in the room at this moment.
Publish(r) ==
    /\ PushEvent(r)
    /\ heard' = heard \cup Audience(call[r].msg, messages[call[r].msg].conv)
    /\ UNCHANGED <<room, via, raw, history>>

\* A call whose error is only logged: UpdateLastMessage, ClearUnread, a Kafka
\* publish or a push.
Logged(r) ==
    /\ BestEffortFails(r)
    /\ lost' = lost \cup {<<r, pc[r]>>}
    /\ UNCHANGED <<members, room, via, told, most, met>>

CutOff(r) ==
    /\ Fault(r)
    /\ UNCHANGED <<members, room, via, told, history>>

\* Any step of Conversations that writes the participants column: somebody is
\* added or removed, or an older list is put back.
ChangeMembers ==
    /\ changes < MaxChanges
    /\ changes' = changes + 1
    /\ \E c \in Convs, list \in [Users -> 0..MaxEntries] :
          /\ members' = [members EXCEPT ![c] = list]
          /\ most' = [most EXCEPT ![c] =
                        [u \in Users |-> IF list[u] > @[u] THEN list[u] ELSE @[u]]]
    /\ UNCHANGED <<stores, brokers, clock, pc, call, res, view, todo>>
    /\ UNCHANGED <<granted, subs, via, told, met, lost>>

Rooms ==
    \E u \in Clients, c \in Convs :
        HandleSubscribe(u, c) \/ Subscribe(u, c) \/ Unsubscribe(u, c)

RealtimeNext ==
    \/ \E r \in Reqs : HandleHTTP(r) \/ HandlePublish(r)
                         \/ Silently(r) \/ Publish(r)
                         \/ Logged(r) \/ CutOff(r)
                         \/ FanOut(r) \/ ProxyTimeout(r)
    \/ Rooms
    \/ ChangeMembers

RealtimeSpec == RealtimeInit /\ [][RealtimeNext]_allVars

-----------------------------------------------------------------------------
(* Properties *)

EverMember(c, u) == most[c][u] > 0

AllDone == \A r \in Reqs : pc[r] \in {"idle", "done"}

Acked(r, op) == call[r].op = op /\ res[r] = "ok"

\* "user must be a member of the conversation" (HandleSubscribe): whoever hears of
\* a message has been a member of its conversation, whatever happened to the
\* membership between the answer, the subscription and the message.
HeardByMembers == \A h \in heard : EverMember(call[h[2]].conv, h[1])

\* "persists and broadcasts the message" (HandlePublish): the client's own payload
\* enters the room only after the message was stored, can be found, and was
\* announced by the service, unless that announcement failed and was logged; and
\* only for a sender who has been a member.
RawIsStored ==
    \A r \in raw : /\ r \in byId /\ messages[r] # None
                   /\ shown[r] # Unseen \/ <<r, "push">> \in lost
                   /\ EverMember(messages[r].conv, messages[r].sender)

\* A counter never exceeds the number of messages others have stored in the
\* conversation, each counted once for every entry its user has had in the list.
UnreadBounded ==
    \A u \in Users, c \in Convs :
        unread[u][c] <= most[c][u] *
            Cardinality({m \in Reqs : /\ messages[m] # None
                                      /\ messages[m].conv = c
                                      /\ messages[m].sender # u})

\* The requests that changed message m, or were cut off trying to.
Writers(m) ==
    {r \in Reqs : /\ call[r].op \in {"send", "edit", "delete"} /\ call[r].msg = m
                  /\ res[r] \in {"ok", "error"}}

\* When the requests that wrote a message did so one after the other and all were
\* acknowledged, a deleted message stays deleted, and the clients show what is
\* stored unless a push failed and was logged.  Two edits that overlap may be
\* stored in one order and pushed in the other, and an edit may undo a delete it
\* overlaps.
RoomAgrees ==
    AllDone => \A m \in Reqs :
        (/\ messages[m] # None
         /\ \A r \in Writers(m) : res[r] = "ok" /\ met[r] \cap Writers(m) = {})
            => /\ \A r \in Writers(m) : call[r].op = "delete" => messages[m].deleted
               /\ \/ shown[m] = IF messages[m].deleted THEN Hidden ELSE messages[m].text
                  \/ \E r \in Writers(m) : <<r, "push">> \in lost

\* A user who has marked the newest message of a conversation as read has no
\* unread messages in it, unless clearing the counter failed and was logged, or a
\* message was being sent meanwhile: the counters are raised after the message
\* was pushed.
ReadClears ==
    AllDone => \A r \in Reqs :
        (/\ Acked(r, "read") /\ <<r, "clear">> \notin lost
         /\ \A m \in Reqs :
               (messages[m] # None /\ messages[m].conv = call[r].conv) =>
                  messages[m].at <= messages[call[r].msg].at /\ m \notin met[r])
            => unread[call[r].by][call[r].conv] = 0

\* last_message of c is m, something newer, or something sent at the same time.
LastCovers(c, m) ==
    /\ last[c] # None
    /\ last[c].msg = m \/ last[c].at > messages[m].at \/ last[c].msg \in met[m]

\* Once nobody is at work, a stored message whose request was not cut off can be
\* found, has reached Kafka and the room, and last_message is no older unless the
\* two were sent at the same time: one of these calls may have failed and been
\* logged, which stops none of the others.
StoredIsDelivered ==
    AllDone => \A m \in Reqs :
        (messages[m] # None /\ res[m] # "error") =>
            /\ m \in byId
            /\ <<m, "last">> \in lost \/ LastCovers(messages[m].conv, m)
            /\ <<m, "emit">> \in lost \/ [kind |-> "send", msg |-> m] \in emitted
            /\ <<m, "push">> \in lost \/ shown[m] # Unseen

=============================================================================
