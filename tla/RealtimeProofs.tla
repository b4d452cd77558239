--------------------------- MODULE RealtimeProofs ---------------------------
(***************************************************************************)
(* Proofs about Realtime, for any users, conversations and requests, while *)
(* people enter and leave conversations and rooms, calls fail and are only *)
(* logged, and requests are cut off.  The message half keeps the invariant *)
(* of MessagesProofs; here it is joined with what the proxy, Centrifugo    *)
(* and the counters know.                                                  *)
(***************************************************************************)
EXTENDS Realtime, MessagesProofs

-----------------------------------------------------------------------------
(* The inductive invariant *)

\* Whoever is in a room, or about to be, has been a member, and has heard only of
\* messages that were sent into a conversation of theirs.
RoomsInv ==
    /\ most \in [Convs -> [Users -> Nat]]
    /\ \A c \in Convs, u \in Users : members[c][u] <= most[c][u]
    /\ \A p \in granted \cup subs : p \in Users \X Convs /\ EverMember(p[2], p[1])
    /\ \A h \in heard : /\ h \in Users \X Reqs /\ call[h[2]].op = "send"
                        /\ EverMember(call[h[2]].conv, h[1])

\* How request r came, and that its payload was passed on after it was answered.
ViaInv(r) ==
    /\ pc[r] = "idle" => via[r] = "http"
    /\ via[r] # "http" => call[r].op = "send" \/ res[r] = "refused"
    /\ pc[r] = "done" => res[r] # "none"
    /\ res[r] = "refused" => call[r].op = "none"
    /\ r \in raw => via[r] = "proxy" /\ call[r].op = "send" /\ res[r] = "ok"

\* How far the sending of message r has come: a call is behind it, or has failed
\* and was logged.  Nobody is counted more often than they are in the list.
SentInv(r) ==
    call[r].op = "send" =>
        /\ pc[r] \in {"push", "unread"} \/ res[r] = "ok" =>
              [kind |-> "send", msg |-> r] \in emitted \/ <<r, "emit">> \in lost
        /\ pc[r] = "unread" \/ res[r] = "ok" =>
              shown[r] # Unseen \/ <<r, "push">> \in lost
        /\ EverMember(call[r].conv, call[r].by)
        /\ todo[r][call[r].by] = 0
        /\ \A u \in Users : todo[r][u] <= most[call[r].conv][u]

\* The messages of others in c.
Others(u, c) ==
    {m \in Reqs : /\ messages[m] # None
                  /\ messages[m].conv = c
                  /\ messages[m].sender # u}

\* The times these may have been counted for u: once for every entry of the list
\* that is not to be counted any more.
Counted(u, c) ==
    {t \in Others(u, c) \X (1..most[c][u]) : todo[t[1]][u] < t[2]}

StoredIds == {m \in Reqs : messages[m] # None}

\* A message is counted once for each entry of a user, whatever fails.
UnreadInv ==
    /\ IsFiniteSet(StoredIds)
    /\ \A u \in Users, c \in Convs : unread[u][c] <= Cardinality(Counted(u, c))

\* What the invariants of each request do not say of the proxy's variables.
ViaType ==
    /\ via \in [Reqs -> {"http", "proxy", "given up"}]
    /\ raw \subseteq Reqs

RoomInd ==
    /\ Ind
    /\ ViaType
    /\ RoomsInv
    /\ \A r \in Reqs : ViaInv(r) /\ SentInv(r)
    /\ UnreadInv

-----------------------------------------------------------------------------
(* The frame of a request's steps *)

\* Request r was turned away, or is on its way.
Received(r) ==
    \/ pc'[r] = "done" /\ res'[r] = "refused" /\ call'[r] = NoCall
    \/ /\ pc'[r] \in {"insert", "update", "reread", "clear"} /\ res'[r] = "none"
       /\ call'[r].op = "send" =>
             /\ call'[r].by \in Users /\ call'[r].conv \in Convs
             /\ HasMember(call'[r].conv, call'[r].by)
             /\ todo'[r] = [members[call'[r].conv] EXCEPT ![call'[r].by] = 0]

\* Request r has no more to count than before.
Fewer(r) == \A u \in Users : todo'[r][u] <= todo[r][u]

LEMMA FewerLeft ==
    ASSUME TypeOK, NEW r \in Reqs, todo'[r] = todo[r] \/ todo'[r] = NoOne
    PROVE  Fewer(r)
<1>1. ASSUME NEW u \in Users
      PROVE  todo'[r][u] <= todo[r][u]
  <2>1. todo[r][u] \in Nat /\ NoOne[u] = 0
    BY DEF TypeOK, NoOne
  <2> QED
    BY <2>1
<1> QED
  BY <1>1 DEF Fewer

\* A refusal by a request that has nothing to count yet.
LEMMA RefuseFrame ==
    ASSUME TypeOK, NEW r \in Reqs, Refuse(r)
    PROVE  Apart(r) /\ Received(r)
  BY DEF TypeOK, Refuse, Finish, Apart, Received

LEMMA SendMessageFrame ==
    ASSUME Ind, NEW r \in Reqs, SendMessage(r)
    PROVE  /\ Apart(r) /\ Received(r)
           /\ call'[r].op = "send" \/ res'[r] = "refused"
<1> TypeOK /\ CallInv(r) /\ pc[r] = "idle"
  BY DEF Ind, SendMessage
<1>1. CASE Refuse(r)
  BY <1>1, RefuseFrame DEF TypeOK, Refuse, Finish
<1>2. CASE ~Refuse(r)
  <2>1. PICK u, c, k, m :
           /\ u \in Users /\ c \in Convs \cup {None} /\ k \in Call
           /\ k.op = "send" /\ k.by = u /\ k.conv = c /\ c # None
           /\ HasMember(c, u)
           /\ call' = [call EXCEPT ![r] = k]
           /\ pc' = [pc EXCEPT ![r] = "insert"]
           /\ view' = [view EXCEPT ![r] = m]
           /\ todo' = [todo EXCEPT ![r] = [members[c] EXCEPT ![u] = 0]]
           /\ UNCHANGED res
    <3>1. PICK u \in Users, c \in Convs \cup {None}, allowed \in BOOLEAN,
               type \in Types, text \in {r, None}, long \in BOOLEAN, media \in Media :
            SendMessage(r)!3!(u, c, allowed, type, text, long, media)
      BY DEF SendMessage
    <3> DEFINE k == [NoCall EXCEPT !.op = "send", !.by = u,
                       !.conv = c, !.msg = r, !.text = text]
    <3>2. k \in Call /\ k.op = "send" /\ k.by = u /\ k.conv = c
      BY DEF NoCall, Call, AllOps, Texts
    <3>3. SendVerdict(u, c, allowed,
             Validate(type, text # None, long, media # "none")) = "ok"
      BY <1>2, <3>1
    <3>4. c # None /\ HasMember(c, u)
      BY <3>3 DEF SendVerdict
    <3>5. /\ call' = [call EXCEPT ![r] = k]
          /\ pc' = [pc EXCEPT ![r] = "insert"]
          /\ view' = [view EXCEPT ![r] = NewMessage(u, c, type, text, media)]
          /\ todo' = [todo EXCEPT ![r] = [members[c] EXCEPT ![u] = 0]]
          /\ UNCHANGED res
      BY <3>1, <3>3
    <3> HIDE DEF k
    <3> QED
      BY <3>2, <3>4, <3>5
  <2>2. /\ call'[r] = k /\ pc'[r] = "insert" /\ res'[r] = "none" /\ Apart(r)
        /\ todo'[r] = [members[c] EXCEPT ![u] = 0]
    BY <2>1 DEF CallInv, TypeOK, Apart
  <2>3. Received(r)
    BY <2>1, <2>2 DEF Received
  <2> QED
    BY <2>1, <2>2, <2>3
<1> QED
  BY <1>1, <1>2

LEMMA OtherArrivalFrame ==
    ASSUME Ind, NEW r \in Reqs,
           \/ EditMessage(r) \/ DeleteMessage(r) \/ MarkAsRead(r)
           \/ AddReaction(r) \/ RemoveReaction(r)
    PROVE  Apart(r) /\ Received(r)
<1> TypeOK /\ CallInv(r) /\ pc[r] = "idle"
  BY DEF Ind, EditMessage, DeleteMessage, MarkAsRead, AddReaction, RemoveReaction, React
<1>1. CASE Refuse(r)
  BY <1>1, RefuseFrame
<1>2. CASE ~Refuse(r)
  <2>1. ASSUME NEW k, k.op # "send", call' = [call EXCEPT ![r] = k],
               NEW next \in {"update", "reread", "clear"},
               pc' = [pc EXCEPT ![r] = next],
               \A q \in Reqs \ {r} : view'[q] = view[q],
               todo' = todo, res' = res
        PROVE  Apart(r) /\ Received(r)
    BY <2>1 DEF TypeOK, CallInv, Apart, Received
  <2>2. CASE EditMessage(r)
    <3>1. PICK u \in Users, id \in Reqs, text \in {r, None} :
             /\ GotoWith(r, "update", Edited(FindByID(id), text))
             /\ call' = [call EXCEPT ![r] = [Asks("edit", u, id) EXCEPT !.text = text]]
      BY <1>2, <2>2 DEF EditMessage
    <3> DEFINE k == [Asks("edit", u, id) EXCEPT !.text = text]
    <3>2. k.op # "send"
      BY DEF Asks, NoCall
    <3>3. call' = [call EXCEPT ![r] = k]
      BY <3>1
    <3> HIDE DEF k
    <3>4. /\ \A q \in Reqs \ {r} : view'[q] = view[q]
          /\ todo' = todo /\ res' = res
      BY <3>1 DEF GotoWith, TypeOK
    <3> QED
      BY <3>1, <3>2, <3>3, <3>4, <2>1 DEF GotoWith
  <2>3. CASE DeleteMessage(r)
    <3>1. PICK u \in Users, id \in Reqs :
             /\ GotoWith(r, "update", Deleted(FindByID(id)))
             /\ call' = [call EXCEPT ![r] = Asks("delete", u, id)]
      BY <1>2, <2>3 DEF DeleteMessage
    <3> DEFINE k == Asks("delete", u, id)
    <3>2. k.op # "send"
      BY DEF Asks, NoCall
    <3>3. call' = [call EXCEPT ![r] = k]
      BY <3>1
    <3> HIDE DEF k
    <3>4. /\ \A q \in Reqs \ {r} : view'[q] = view[q]
          /\ todo' = todo /\ res' = res
      BY <3>1 DEF GotoWith, TypeOK
    <3> QED
      BY <3>1, <3>2, <3>3, <3>4, <2>1 DEF GotoWith
  <2>4. ASSUME NEW op \in {"react", "unreact"}, React(r, op)
        PROVE  Apart(r) /\ Received(r)
    <3>1. PICK u \in Users, id \in Reqs, e \in Emojis :
             /\ Goto(r, "reread")
             /\ call' = [call EXCEPT ![r] = [Asks(op, u, id) EXCEPT !.emoji = e]]
      BY <1>2, <2>4 DEF React
    <3> DEFINE k == [Asks(op, u, id) EXCEPT !.emoji = e]
    <3>2. k.op # "send"
      BY <2>4 DEF Asks, NoCall
    <3>3. call' = [call EXCEPT ![r] = k]
      BY <3>1
    <3> HIDE DEF k
    <3>4. /\ \A q \in Reqs \ {r} : view'[q] = view[q]
          /\ todo' = todo /\ res' = res
      BY <3>1 DEF Goto, TypeOK
    <3> QED
      BY <3>1, <3>2, <3>3, <3>4, <2>1 DEF Goto
  <2>5. CASE MarkAsRead(r)
    <3>1. PICK u \in Users, id \in Reqs, c \in Convs :
             /\ Goto(r, "clear")
             /\ call' = [call EXCEPT ![r] = [Asks("read", u, id) EXCEPT !.conv = c]]
      BY <1>2, <2>5 DEF MarkAsRead
    <3> DEFINE k == [Asks("read", u, id) EXCEPT !.conv = c]
    <3>2. k.op # "send"
      BY DEF Asks, NoCall
    <3>3. call' = [call EXCEPT ![r] = k]
      BY <3>1
    <3> HIDE DEF k
    <3>4. /\ \A q \in Reqs \ {r} : view'[q] = view[q]
          /\ todo' = todo /\ res' = res
      BY <3>1 DEF Goto, TypeOK
    <3> QED
      BY <3>1, <3>2, <3>3, <3>4, <2>1 DEF Goto
  <2> QED
    BY <2>2, <2>3, <2>4, <2>5 DEF AddReaction, RemoveReaction
<1> QED
  BY <1>1, <1>2

\* A request that arrives writes nothing.
LEMMA ArriveFrame ==
    ASSUME Ind, NEW r \in Reqs, Arrive(r)
    PROVE  /\ pc[r] = "idle" /\ call[r].op = "none" /\ messages[r] = None
           /\ UNCHANGED <<members, stores, brokers>>
           /\ Apart(r) /\ Grows /\ Received(r)
<1>1. Apart(r) /\ Received(r)
  BY SendMessageFrame, OtherArrivalFrame DEF Arrive
<1>2. pc[r] = "idle" /\ UNCHANGED <<members, stores, brokers>>
  BY DEF Arrive, SendMessage, EditMessage, DeleteMessage, MarkAsRead,
         AddReaction, RemoveReaction, React
<1>3. call[r].op = "none" /\ messages[r] = None
  BY <1>2 DEF Ind, CallInv, RowInv
<1>4. Grows
  BY <1>1, <1>2, <1>3 DEF Grows, Apart, stores
<1> QED
  BY <1>1, <1>2, <1>3, <1>4

\* A request at work has one copy in memory, to which its rows agree.
LEMMA AtWork ==
    ASSUME Ind, NEW r \in Reqs, pc[r] \in {"insert", "lookup", "last", "unread"}
    PROVE  /\ call[r].op = "send" /\ call[r].msg = r
           /\ view[r] \in Message /\ view[r] # None
           /\ view[r].conv = call[r].conv /\ view[r].sender = call[r].by
           /\ call[r].conv \in Convs
  BY DEF Ind, TypeOK, CallInv, FlowInv, GoodCopy

\* A statement of a request: what it adds stays, what it knows grows, and whether
\* Kafka knows of its message.
Advanced(r) ==
    /\ pc[r] \notin {"idle", "done"}
    /\ UNCHANGED <<members, shown>>
    /\ emitted \subseteq emitted'
    /\ \A m \in Reqs \ {r} : messages[m] = None => messages'[m] = None
    /\ Fewer(r)
    /\ \/ pc'[r] # "done" /\ res'[r] = "none" /\ call'[r] = call[r]
       \/ pc'[r] = "done" /\ res'[r] = "refused" /\ call'[r] = NoCall
       \/ pc[r] = "unread" /\ pc'[r] = "done" /\ res'[r] = "ok" /\ call'[r] = call[r]
    /\ call[r].op = "send" /\ pc'[r] \in {"push", "unread"} =>
          \/ /\ pc[r] = "emit" /\ pc'[r] = "push"
             /\ [kind |-> "send", msg |-> r] \in emitted'
          \/ pc[r] = "unread"

LEMMA WriteAdvances ==
    ASSUME Ind, NEW r \in Reqs, Statement(r),
           InsertMessage(r) \/ UpdateMessage(r) \/ WriteReactions(r)
    PROVE  Apart(r) /\ Grows /\ Advanced(r)
<1>1. TypeOK /\ CallInv(r) /\ FlowInv(r) /\ UNCHANGED members
  BY DEF Ind, Statement
<1>2. PICK next \in {"lookup", "emit"} :
         /\ Goto(r, next) /\ call' = call
         /\ next = "emit" => call[r].op # "send"
         /\ UNCHANGED <<byId, last, unread, brokers>>
         /\ pc[r] \in {"insert", "update", "reactions"}
  BY <1>1 DEF InsertMessage, UpdateMessage, WriteReactions, CallInv
<1>3. Apart(r) /\ pc'[r] = next /\ UNCHANGED <<res, view, todo>>
  BY <1>2, Moves DEF PCs
<1>4. PICK m, copy :
         /\ m \in Reqs
         /\ messages' = [messages EXCEPT ![m] = copy]
         /\ copy # None /\ (m = r \/ messages[m] # None)
  <2>1. CASE InsertMessage(r)
    <3>1. view[r] # None /\ messages' = [messages EXCEPT ![r] = view[r]]
      BY <1>1, <2>1 DEF InsertMessage, FlowInv
    <3> QED
      BY <3>1
  <2>2. CASE UpdateMessage(r)
    <3>1. /\ view[r] # None /\ messages' = [messages EXCEPT ![call[r].msg] = view[r]]
          /\ call[r].msg \in Reqs /\ messages[call[r].msg] # None
      BY <1>1, <2>2 DEF UpdateMessage, FlowInv, CallInv
    <3> QED
      BY <3>1
  <2>3. CASE WriteReactions(r)
    <3> DEFINE copy == [messages[call[r].msg] EXCEPT !.reactions = view[r].reactions]
    <3>1. /\ call[r].msg \in Reqs /\ messages[call[r].msg] # None
          /\ view[r] \in Message
          /\ messages' = [messages EXCEPT ![call[r].msg] = copy]
      BY <1>1, <2>3 DEF WriteReactions, FlowInv, CallInv, TypeOK
    <3>2. copy \in Message
      BY <1>1, <3>1 DEF TypeOK, Message
    <3> QED
      BY <3>1, <3>2, NoMessageAssumption
  <2> QED
    BY <2>1, <2>2, <2>3
<1>5. Grows
  BY <1>1, <1>2, <1>4 DEF Grows, TypeOK
<1>6. Advanced(r)
  BY <1>1, <1>2, <1>3, <1>4, FewerLeft DEF Advanced, TypeOK, brokers, CallInv
<1> QED
  BY <1>3, <1>5, <1>6

LEMMA MoveAdvances ==
    ASSUME Ind, NEW r \in Reqs, Statement(r),
           IndexMessage(r) \/ ClearUnread(r) \/ UpdateLastMessage(r)
    PROVE  Apart(r) /\ Grows /\ Advanced(r)
<1>1. TypeOK /\ CallInv(r) /\ UNCHANGED members
  BY DEF Ind, Statement
<1>2. PICK next \in {"last", "emit"} :
         /\ Goto(r, next) /\ call' = call
         /\ UNCHANGED <<messages, brokers>> /\ byId \subseteq byId'
         /\ pc[r] \in {"lookup", "clear", "last"}
  BY <1>1 DEF IndexMessage, ClearUnread, UpdateLastMessage
<1>3. Apart(r) /\ pc'[r] = next /\ UNCHANGED <<res, view, todo>>
  BY <1>2, Moves DEF PCs
<1>4. Grows
  BY <1>2 DEF Grows
<1>5. Advanced(r)
  BY <1>1, <1>2, <1>3, FewerLeft DEF Advanced, brokers, CallInv
<1> QED
  BY <1>3, <1>4, <1>5

LEMMA EmitAdvances ==
    ASSUME Ind, NEW r \in Reqs, Statement(r), Emit(r)
    PROVE  Apart(r) /\ Grows /\ Advanced(r)
<1>1. TypeOK /\ CallInv(r) /\ UNCHANGED members
  BY DEF Ind, Statement
<1>2. /\ pc[r] = "emit" /\ Goto(r, "push") /\ call' = call
      /\ emitted' = emitted \cup {[kind |-> call[r].op, msg |-> call[r].msg]}
      /\ UNCHANGED <<messages, byId, last, shown>>
  BY DEF Emit, stores
<1>3. Apart(r) /\ pc'[r] = "push" /\ UNCHANGED <<res, view, todo>>
  BY <1>2, Moves DEF PCs
<1>4. call[r].op = "send" => [kind |-> "send", msg |-> r] \in emitted'
  BY <1>1, <1>2 DEF CallInv
<1>5. Grows
  BY <1>2 DEF Grows
<1>6. Advanced(r)
  BY <1>1, <1>2, <1>3, <1>4, FewerLeft DEF Advanced, CallInv
<1> QED
  BY <1>3, <1>5, <1>6

LEMMA CountAdvances ==
    ASSUME Ind, NEW r \in Reqs, Statement(r), CountUnread(r)
    PROVE  Apart(r) /\ Grows /\ Advanced(r)
<1>1. TypeOK /\ CallInv(r) /\ UNCHANGED members
  BY DEF Ind, Statement
<1>2. /\ pc[r] = "unread" /\ call' = call
      /\ UNCHANGED <<messages, byId, last, brokers>>
  BY DEF CountUnread
<1>3. PICK u \in Users :
         LET rest == [todo[r] EXCEPT ![u] = @ - 1]
         IN  /\ todo[r][u] > 0
             /\ \/ Finish(r, "ok")
                \/ todo' = [todo EXCEPT ![r] = rest] /\ UNCHANGED <<pc, res, view>>
  BY DEF CountUnread
<1> DEFINE rest == [todo[r] EXCEPT ![u] = @ - 1]
<1>4. \/ Finish(r, "ok")
      \/ todo' = [todo EXCEPT ![r] = rest] /\ UNCHANGED <<pc, res, view>>
  BY <1>3
<1>5. \A v \in Users : rest[v] <= todo[r][v]
  <2>1. todo[r] \in [Users -> Nat]
    BY <1>1 DEF TypeOK
  <2> QED
    BY <2>1
<1> HIDE DEF rest
<1>6. Apart(r)
  BY <1>1, <1>2, <1>4 DEF Apart, Finish, TypeOK
<1>7. Grows
  BY <1>2 DEF Grows
<1>8. Advanced(r)
  <2>1. CASE Finish(r, "ok")
    <3>1. pc'[r] = "done" /\ res'[r] = "ok" /\ todo'[r] = NoOne
      BY <1>1, <2>1 DEF Finish, TypeOK
    <3> QED
      BY <1>1, <1>2, <3>1, FewerLeft DEF Advanced, brokers
  <2>2. CASE todo' = [todo EXCEPT ![r] = rest] /\ UNCHANGED <<pc, res, view>>
    <3>1. Fewer(r) /\ pc'[r] = "unread" /\ res'[r] = "none"
      BY <1>1, <1>2, <1>5, <2>2 DEF TypeOK, CallInv, Fewer
    <3> QED
      BY <1>1, <1>2, <3>1 DEF Advanced, brokers
  <2> QED
    BY <1>4, <2>1, <2>2
<1> QED
  BY <1>6, <1>7, <1>8

LEMMA ReadAdvances ==
    ASSUME Ind, NEW r \in Reqs, Statement(r), ReadReactions(r)
    PROVE  Apart(r) /\ Grows /\ Advanced(r)
<1>1. /\ TypeOK /\ CallInv(r) /\ UNCHANGED members
      /\ pc[r] = "reread" /\ UNCHANGED <<stores, brokers>>
      /\ call[r].op \notin {"send", "edit"}
  BY DEF Ind, Statement, ReadReactions, CallInv
<1>2. CASE Refuse(r)
  <2>1. Apart(r)
    BY <1>1, <1>2, RefuseFrame
  <2>2. /\ pc'[r] = "done" /\ res'[r] = "refused" /\ call'[r] = NoCall /\ todo'[r] = NoOne
    BY <1>1, <1>2 DEF Refuse, Finish, TypeOK
  <2>3. Grows
    BY <1>1, <2>1 DEF Grows, Apart, stores
  <2>4. Advanced(r)
    BY <1>1, <2>2, FewerLeft DEF Advanced, stores, brokers
  <2> QED
    BY <2>1, <2>3, <2>4
<1>3. CASE ~Refuse(r)
  <2>1. /\ call' = call
        /\ \/ Goto(r, "emit")
           \/ \E m : GotoWith(r, "reactions", m)
    BY <1>3 DEF ReadReactions
  <2>2. /\ Apart(r) /\ pc'[r] \in {"emit", "reactions"} /\ res' = res /\ todo' = todo
    BY <1>1, <2>1 DEF Goto, GotoWith, Apart, TypeOK
  <2>3. Grows
    BY <1>1, <2>1 DEF Grows, stores
  <2>4. Advanced(r)
    BY <1>1, <2>1, <2>2, FewerLeft DEF Advanced, stores, brokers, CallInv
  <2> QED
    BY <2>2, <2>3, <2>4
<1> QED
  BY <1>2, <1>3

LEMMA StatementFrame ==
    ASSUME Ind, NEW r \in Reqs, Statement(r)
    PROVE  Apart(r) /\ Grows /\ Advanced(r)
  BY WriteAdvances, MoveAdvances, EmitAdvances, CountAdvances, ReadAdvances DEF Statement

\* The last call of a request is behind it: it ends, or goes on to count.
Ended(r) ==
    \/ pc'[r] = "done" /\ res'[r] = "ok"
    \/ pc'[r] = "unread" /\ res'[r] = "none"

LEMMA LeaveFrame ==
    ASSUME Ind, NEW r \in Reqs, pc[r] = "push", Leave(r)
    PROVE  Fewer(r) /\ Ended(r)
<1>1. TypeOK /\ CallInv(r)
  BY DEF Ind
<1>2. CASE Goto(r, "unread")
  BY <1>1, <1>2, FewerLeft DEF Goto, TypeOK, CallInv, Ended
<1>3. CASE Finish(r, "ok")
  BY <1>1, <1>3, FewerLeft DEF Finish, TypeOK, Ended
<1> QED
  BY <1>2, <1>3 DEF Leave

\* A push shows something.
LEMMA PushFrame ==
    ASSUME Ind, NEW r \in Reqs, PushEvent(r)
    PROVE  /\ Apart(r) /\ Grows /\ pc[r] = "push" /\ call[r].msg \in Reqs
           /\ UNCHANGED <<members, stores, emitted, call>>
           /\ Fewer(r) /\ Ended(r)
           /\ \A m \in Reqs : shown[m] # Unseen => shown'[m] # Unseen
           /\ call[r].op = "send" => shown'[r] # Unseen
<1>1. TypeOK /\ CallInv(r) /\ FlowInv(r)
  BY DEF Ind
<1>2. /\ pc[r] = "push" /\ Leave(r)
      /\ shown' = [shown EXCEPT ![call[r].msg] = Display(r)]
      /\ UNCHANGED <<members, stores, emitted, call>>
  BY DEF PushEvent, Push
<1>3. Apart(r) /\ Grows /\ call[r].msg \in Reqs
  BY <1>1, <1>2, Leaves DEF stores, Grows, CallInv
<1>4. Fewer(r) /\ Ended(r)
  BY <1>2, LeaveFrame
<1>5. /\ call[r].op \in {"send", "edit"} => Display(r) # Unseen
      /\ shown[call[r].msg] # Unseen => Display(r) # Unseen
  <2>1. CASE call[r].op \in {"send", "edit"}
    <3>1. view[r] \in Message
      BY <1>1, <1>2, <2>1 DEF FlowInv, TypeOK
    <3> QED
      BY <2>1, <3>1, ShownAssumption DEF Display, Message
  <2>2. CASE call[r].op = "delete"
    BY <2>2 DEF Display, Hidden, Unseen
  <2>3. CASE call[r].op \notin {"send", "edit", "delete"}
    BY <2>3 DEF Display
  <2> QED
    BY <2>1, <2>2, <2>3
<1>6. /\ \A m \in Reqs : shown[m] # Unseen => shown'[m] # Unseen
      /\ call[r].op = "send" => shown'[r] # Unseen
  BY <1>1, <1>2, <1>3, <1>5 DEF TypeOK, CallInv
<1> QED
  BY <1>2, <1>3, <1>4, <1>6

\* A call that fails and is logged changes nothing, and the next one follows.
LEMMA FailsFrame ==
    ASSUME Ind, NEW r \in Reqs, BestEffortFails(r), UNCHANGED members
    PROVE  /\ Apart(r) /\ Grows /\ Fewer(r) /\ UNCHANGED <<stores, brokers, clock, call>>
           /\ \/ /\ pc[r] \in {"last", "clear", "emit"} /\ res'[r] = "none"
                 /\ pc'[r] = IF pc[r] = "emit" THEN "push" ELSE "emit"
                 /\ view'[r] = view[r]
              \/ /\ pc[r] = "push" /\ Ended(r)
                 /\ pc'[r] = "done" => view'[r] = None
                 /\ pc'[r] = "unread" => call[r].op = "send" /\ view'[r] = view[r]
<1>1. /\ TypeOK /\ CallInv(r)
      /\ UNCHANGED <<stores, brokers, clock, call>>
  BY DEF Ind, BestEffortFails
<1>2. Grows
  BY <1>1 DEF Grows, stores
<1>3. ASSUME NEW next \in {"emit", "push"}, Goto(r, next),
             pc[r] \in {"last", "clear", "emit"}
      PROVE  /\ Apart(r) /\ Fewer(r) /\ res'[r] = "none"
             /\ pc'[r] = next /\ view'[r] = view[r]
  <2>1. Apart(r) /\ pc'[r] = next /\ UNCHANGED <<res, view, todo>>
    BY <1>1, <1>3, Moves DEF PCs
  <2>2. res[r] = "none"
    BY <1>1, <1>3 DEF CallInv
  <2> QED
    BY <1>1, <2>1, <2>2, FewerLeft
<1>4. CASE pc[r] = "push" /\ Leave(r)
  <2>1. Apart(r)
    BY <1>1, <1>4, Leaves DEF stores
  <2>2. /\ pc'[r] = "done" => view'[r] = None
        /\ pc'[r] = "unread" => call[r].op = "send" /\ view'[r] = view[r]
    BY <1>1, <1>4 DEF Leave, Goto, Finish, TypeOK, CallInv
  <2> QED
    BY <1>1, <1>2, <1>4, <2>1, <2>2, LeaveFrame
<1>5. CASE pc[r] \in {"last", "clear"} /\ Goto(r, "emit")
  BY <1>1, <1>2, <1>3, <1>5
<1>6. CASE pc[r] = "emit" /\ Goto(r, "push")
  BY <1>1, <1>2, <1>3, <1>6
<1> QED
  BY <1>4, <1>5, <1>6 DEF BestEffortFails

\* A request that is cut off changes nothing and has nothing more to count.
LEMMA AbandonFrame ==
    ASSUME Ind, NEW r \in Reqs, Abandon(r), UNCHANGED members
    PROVE  /\ Apart(r) /\ Grows /\ Fewer(r) /\ UNCHANGED <<stores, brokers, clock, call>>
           /\ pc[r] \notin {"idle", "done"} /\ pc'[r] = "done" /\ res'[r] = "error"
           /\ view'[r] = None
<1>1. TypeOK /\ pc[r] \notin {"idle", "done"} /\ UNCHANGED <<stores, brokers, clock, call>>
  BY DEF Ind, Abandon
<1>2. /\ Apart(r) /\ todo'[r] = NoOne /\ view'[r] = None
      /\ pc'[r] = "done" /\ res'[r] = "error"
  BY <1>1 DEF Abandon, Finish, Apart, TypeOK
<1>3. Grows
  BY <1>1 DEF Grows, stores
<1> QED
  BY <1>1, <1>2, <1>3, FewerLeft

-----------------------------------------------------------------------------
(* What the steps keep *)

\* What Kafka and the room know they go on knowing, what was lost stays lost, and
\* whoever has been a member has been one.
KnownGrows ==
    /\ emitted \subseteq emitted'
    /\ \A m \in Reqs : shown[m] # Unseen => shown'[m] # Unseen
    /\ lost \subseteq lost'
    /\ most' \in [Convs -> [Users -> Nat]]
    /\ \A c \in Convs, u \in Users : most[c][u] <= most'[c][u]

LEMMA MostStays ==
    ASSUME RoomsInv, UNCHANGED most
    PROVE  /\ most' \in [Convs -> [Users -> Nat]]
           /\ \A c \in Convs, u \in Users : most[c][u] <= most'[c][u]
<1>1. most \in [Convs -> [Users -> Nat]]
  BY DEF RoomsInv
<1>2. ASSUME NEW c \in Convs, NEW u \in Users
      PROVE  most[c][u] <= most'[c][u]
  <2>1. most[c][u] \in Nat
    BY <1>1
  <2> QED
    BY <2>1
<1> QED
  BY <1>1, <1>2

LEMMA EverStays ==
    ASSUME RoomsInv, KnownGrows, NEW c \in Convs, NEW u \in Users, EverMember(c, u)
    PROVE  EverMember(c, u)'
<1>1. most[c][u] \in Nat /\ most'[c][u] \in Nat /\ most[c][u] <= most'[c][u]
  BY DEF RoomsInv, KnownGrows
<1> QED
  BY <1>1 DEF EverMember

\* A member now has been one.
LEMMA MembersEver ==
    ASSUME TypeOK, RoomsInv, NEW c \in Convs, NEW u \in Users, HasMember(c, u)
    PROVE  EverMember(c, u)
<1>1. members[c][u] \in Nat /\ most[c][u] \in Nat /\ members[c][u] <= most[c][u]
  BY DEF TypeOK, RoomsInv
<1> QED
  BY <1>1 DEF HasMember, EverMember

\* How often the users may still be counted keeps within their entries.
LEMMA TodoBounded ==
    ASSUME Ind, Ind', RoomsInv, KnownGrows, NEW q \in Reqs, call'[q] = call[q],
           call[q].op = "send", SentInv(q), Fewer(q)
    PROVE  /\ EverMember(call[q].conv, call[q].by)'
           /\ todo'[q][call[q].by] = 0
           /\ \A u \in Users : todo'[q][u] <= most'[call[q].conv][u]
<1>1. call[q].conv \in Convs /\ call[q].by \in Users
  BY DEF Ind, CallInv
<1>2. ASSUME NEW u \in Users
      PROVE  /\ todo'[q][u] \in Nat
             /\ todo'[q][u] <= most'[call[q].conv][u]
             /\ todo[q][u] = 0 => todo'[q][u] = 0
  <2>1. todo[q][u] \in Nat /\ todo'[q][u] \in Nat
    BY DEF Ind, TypeOK
  <2>2. most[call[q].conv][u] \in Nat /\ most'[call[q].conv][u] \in Nat
    BY <1>1 DEF RoomsInv, KnownGrows
  <2>3. /\ todo'[q][u] <= todo[q][u] /\ todo[q][u] <= most[call[q].conv][u]
        /\ most[call[q].conv][u] <= most'[call[q].conv][u]
    BY <1>1 DEF Fewer, SentInv, KnownGrows
  <2> QED
    BY <2>1, <2>2, <2>3
<1>3. EverMember(call[q].conv, call[q].by)'
  BY <1>1, EverStays DEF SentInv
<1> QED
  BY <1>1, <1>2, <1>3 DEF SentInv

\* The other requests have as much to count as before.
LEMMA OthersFewer ==
    ASSUME TypeOK, NEW r \in Reqs, Apart(r)
    PROVE  \A q \in Reqs \ {r} : Fewer(q)
  BY FewerLeft DEF Apart

LEMMA OtherSent ==
    ASSUME Ind, Ind', RoomsInv, NEW r \in Reqs, Apart(r), KnownGrows,
           NEW q \in Reqs \ {r}, SentInv(q)
    PROVE  SentInv(q)'
<1>1. Fewer(q) /\ pc'[q] = pc[q] /\ res'[q] = res[q] /\ call'[q] = call[q]
  BY OthersFewer DEF Ind, Apart
<1>2. CASE call[q].op = "send"
  <2>1. /\ EverMember(call[q].conv, call[q].by)'
        /\ todo'[q][call[q].by] = 0
        /\ \A u \in Users : todo'[q][u] <= most'[call[q].conv][u]
    BY <1>1, <1>2, TodoBounded
  <2> QED
    BY <1>1, <1>2, <2>1 DEF KnownGrows, SentInv, EverMember
<1> QED
  BY <1>1, <1>2 DEF SentInv

LEMMA OtherVia ==
    ASSUME NEW r \in Reqs, Apart(r), NEW q \in Reqs \ {r}, ViaInv(q),
           via'[q] = via[q], q \in raw' => q \in raw
    PROVE  ViaInv(q)'
  BY DEF Apart, ViaInv

\* A stored message keeps its conversation and its sender.
LEMMA OriginStays ==
    ASSUME Ind, Ind', Grows, NEW m \in Reqs, messages[m] # None
    PROVE  /\ messages'[m] # None
           /\ messages'[m].conv = messages[m].conv
           /\ messages'[m].sender = messages[m].sender
<1>1. call'[m] = call[m] /\ messages'[m] # None
  BY DEF Ind, RowInv, Grows
<1>2. messages[m].conv = call[m].conv /\ messages[m].sender = call[m].by
  BY DEF Ind, RowInv, GoodCopy
<1>3. messages'[m].conv = call'[m].conv /\ messages'[m].sender = call'[m].by
  <2>1. RowInv(m)'
    BY DEF Ind
  <2> QED
    BY <1>1, <2>1 DEF RowInv, GoodCopy
<1> QED
  BY <1>1, <1>2, <1>3

LEMMA EntriesFinite ==
    ASSUME NEW n \in Nat
    PROVE  IsFiniteSet(1..n) /\ Cardinality(1..n) = n
<1>1. 1 \in Int /\ n \in Int
  OBVIOUS
<1>2. /\ IsFiniteSet(1..n)
      /\ Cardinality(1..n) = IF 1 > n THEN 0 ELSE n - 1 + 1
  BY <1>1, FS_Interval
<1> QED
  BY <1>2

\* There are only so many times to count.
LEMMA CountedFinite ==
    ASSUME IsFiniteSet(StoredIds), NEW u, NEW c, most[c][u] \in Nat
    PROVE  /\ IsFiniteSet(Others(u, c)) /\ IsFiniteSet(Counted(u, c))
           /\ Cardinality(Counted(u, c)) \in Nat /\ Cardinality(Others(u, c)) \in Nat
           /\ Cardinality(Counted(u, c)) <= Cardinality(Others(u, c)) * most[c][u]
<1>1. IsFiniteSet(Others(u, c)) /\ Cardinality(Others(u, c)) \in Nat
  <2>1. Others(u, c) \subseteq StoredIds
    BY DEF Others, StoredIds
  <2> QED
    BY <2>1, FS_Subset, FS_CardinalityType
<1> DEFINE entries == 1..most[c][u]
<1>2. IsFiniteSet(entries) /\ Cardinality(entries) = most[c][u]
  BY EntriesFinite
<1>3. Counted(u, c) \subseteq Others(u, c) \X entries
  BY DEF Counted
<1> HIDE DEF entries
<1>4. /\ IsFiniteSet(Others(u, c) \X entries)
      /\ Cardinality(Others(u, c) \X entries) = Cardinality(Others(u, c)) * most[c][u]
  BY <1>1, <1>2, FS_Product
<1>5. /\ IsFiniteSet(Counted(u, c)) /\ Cardinality(Counted(u, c)) \in Nat
      /\ Cardinality(Counted(u, c)) <= Cardinality(Others(u, c) \X entries)
  BY <1>3, <1>4, FS_Subset, FS_CardinalityType
<1> QED
  BY <1>1, <1>4, <1>5

\* What has been counted stays counted.
LEMMA CountedGrows ==
    ASSUME Ind, Ind', Grows, KnownGrows, RoomsInv, UnreadInv, NEW r \in Reqs,
           \A m \in Reqs \ {r} : messages[m] = None => messages'[m] = None,
           \A m \in Reqs : messages[m] # None => Fewer(m)
    PROVE  /\ IsFiniteSet(StoredIds')
           /\ \A u \in Users, c \in Convs :
                 /\ Counted(u, c) \subseteq Counted(u, c)'
                 /\ IsFiniteSet(Counted(u, c)) /\ IsFiniteSet(Counted(u, c)')
                 /\ Cardinality(Counted(u, c)) \in Nat
                 /\ Cardinality(Counted(u, c)') \in Nat
                 /\ unread[u][c] <= Cardinality(Counted(u, c)')
<1>1. IsFiniteSet(StoredIds')
  <2>1. StoredIds' \subseteq StoredIds \cup {r}
    BY DEF StoredIds
  <2>2. IsFiniteSet(StoredIds \cup {r})
    BY FS_AddElement DEF UnreadInv
  <2> QED
    BY <2>1, <2>2, FS_Subset
<1>2. ASSUME NEW u \in Users, NEW c \in Convs
      PROVE  /\ Counted(u, c) \subseteq Counted(u, c)'
             /\ IsFiniteSet(Counted(u, c)) /\ IsFiniteSet(Counted(u, c)')
             /\ Cardinality(Counted(u, c)) \in Nat
             /\ Cardinality(Counted(u, c)') \in Nat
             /\ unread[u][c] <= Cardinality(Counted(u, c)')
  <2>1. Others(u, c) \subseteq Others(u, c)'
    <3>1. ASSUME NEW m \in Reqs, messages[m] # None
          PROVE  /\ messages'[m] # None /\ messages'[m].conv = messages[m].conv
                 /\ messages'[m].sender = messages[m].sender
      BY <3>1, OriginStays
    <3> QED
      BY <3>1 DEF Others
  <2>2. /\ most[c][u] \in Nat /\ most'[c][u] \in Nat
        /\ most[c][u] <= most'[c][u]
    BY DEF RoomsInv, KnownGrows
  <2>3. ASSUME NEW t \in Counted(u, c)
        PROVE  t \in Counted(u, c)'
    <3>1. /\ t \in Others(u, c) \X (1..most[c][u]) /\ todo[t[1]][u] < t[2]
          /\ t[1] \in Reqs /\ messages[t[1]] # None /\ t[2] \in 1..most[c][u]
      BY DEF Counted, Others
    <3>2. t[2] \in 1..most'[c][u]
      BY <2>2, <3>1
    <3>3. /\ todo[t[1]][u] \in Nat /\ todo'[t[1]][u] \in Nat
          /\ todo'[t[1]][u] <= todo[t[1]][u]
      BY <3>1 DEF Ind, TypeOK, Fewer
    <3>4. todo'[t[1]][u] < t[2]
      BY <3>1, <3>3
    <3>5. t \in Others(u, c)' \X (1..most'[c][u])
      BY <2>1, <3>1, <3>2
    <3> QED
      BY <3>4, <3>5 DEF Counted
  <2>4. IsFiniteSet(Counted(u, c)) /\ IsFiniteSet(Counted(u, c)')
    <3>1. IsFiniteSet(Counted(u, c))
      BY <2>2, CountedFinite DEF UnreadInv
    <3>2. IsFiniteSet(Counted(u, c)')
      <4> DEFINE entries == 1..most'[c][u]
      <4>1. Others(u, c)' \subseteq StoredIds'
        BY DEF Others, StoredIds
      <4>2. IsFiniteSet(Others(u, c)') /\ IsFiniteSet(entries)
        <5>1. IsFiniteSet(Others(u, c)')
          BY <1>1, <4>1, FS_Subset
        <5>2. IsFiniteSet(entries)
          BY <2>2, EntriesFinite
        <5> QED
          BY <5>1, <5>2
      <4>3. Counted(u, c)' \subseteq Others(u, c)' \X entries
        BY DEF Counted
      <4> HIDE DEF entries
      <4> QED
        BY <4>2, <4>3, FS_Product, FS_Subset
    <3> QED
      BY <3>1, <3>2
  <2>5. /\ Cardinality(Counted(u, c)) \in Nat /\ Cardinality(Counted(u, c)') \in Nat
        /\ Cardinality(Counted(u, c)) <= Cardinality(Counted(u, c)')
    BY <2>3, <2>4, FS_Subset, FS_CardinalityType
  <2>6. unread[u][c] \in Nat /\ unread[u][c] <= Cardinality(Counted(u, c))
    BY DEF Ind, TypeOK, UnreadInv
  <2> QED
    BY <2>3, <2>4, <2>5, <2>6
<1> QED
  BY <1>1, <1>2

\* A step that raises no counter.
LEMMA UnreadStays ==
    ASSUME Ind, Ind', Grows, KnownGrows, RoomsInv, UnreadInv, NEW r \in Reqs,
           \A m \in Reqs \ {r} : messages[m] = None => messages'[m] = None,
           \A m \in Reqs : messages[m] # None => Fewer(m),
           \A u \in Users, c \in Convs :
              unread'[u][c] = unread[u][c] \/ unread'[u][c] = 0
    PROVE  UnreadInv'
<1>1. ASSUME NEW u \in Users, NEW c \in Convs
      PROVE  unread'[u][c] <= Cardinality(Counted(u, c)')
  <2>1. /\ Cardinality(Counted(u, c)') \in Nat
        /\ unread[u][c] <= Cardinality(Counted(u, c)')
    BY CountedGrows
  <2> QED
    BY <2>1
<1>2. IsFiniteSet(StoredIds')
  BY CountedGrows
<1> QED
  BY <1>1, <1>2 DEF UnreadInv

\* One round of the loop counts a message for one entry of a user that it has not
\* been counted for, and never for its sender.
LEMMA CountKeepsUnread ==
    ASSUME RoomInd, Ind', KnownGrows, NEW r \in Reqs, Statement(r), CountUnread(r)
    PROVE  UnreadInv'
<1>1. /\ Ind /\ TypeOK /\ UnreadInv /\ RoomsInv /\ SentInv(r) /\ Grows /\ Apart(r)
      /\ Fewer(r) /\ UNCHANGED <<messages, call>> /\ pc[r] = "unread"
  BY StatementFrame DEF RoomInd, Ind, Advanced, CountUnread
<1>2. \A m \in Reqs : messages[m] # None => Fewer(m)
  BY <1>1, OthersFewer
<1>3. PICK w \in Users :
         /\ IncrementUnread(r, w) \/ UNCHANGED unread
         /\ todo[r][w] \in Nat /\ todo[r][w] > 0 /\ todo'[r][w] \in Nat
         /\ todo'[r][w] < todo[r][w]
  <2>1. PICK w \in Users :
           LET rest == [todo[r] EXCEPT ![w] = @ - 1]
           IN  /\ todo[r][w] > 0
               /\ IncrementUnread(r, w) \/ UNCHANGED unread
               /\ Finish(r, "ok") \/ todo' = [todo EXCEPT ![r] = rest]
    BY DEF CountUnread
  <2> DEFINE rest == [todo[r] EXCEPT ![w] = @ - 1]
  <2>2. /\ todo[r][w] > 0
        /\ IncrementUnread(r, w) \/ UNCHANGED unread
        /\ Finish(r, "ok") \/ todo' = [todo EXCEPT ![r] = rest]
    BY <2>1
  <2>3. todo[r] \in [Users -> Nat] /\ todo[r][w] \in Nat
    BY <1>1 DEF TypeOK
  <2>4. rest[w] = todo[r][w] - 1
    BY <2>3
  <2> HIDE DEF rest
  <2>5. todo'[r][w] = 0 \/ todo'[r][w] = rest[w]
    BY <1>1, <2>2 DEF Finish, TypeOK, NoOne
  <2>6. todo'[r][w] \in Nat /\ todo'[r][w] < todo[r][w]
    BY <2>2, <2>3, <2>4, <2>5
  <2> QED
    BY <2>2, <2>3, <2>6
<1>4. /\ call[r].op = "send" /\ view[r].conv = call[r].conv /\ call[r].conv \in Convs
      /\ messages[r] # None /\ call[r].by # w
      /\ messages[r].conv = call[r].conv /\ messages[r].sender = call[r].by
  <2>1. call[r].op = "send" /\ call[r].msg = r
        /\ view[r].conv = call[r].conv /\ call[r].conv \in Convs
    BY <1>1, AtWork
  <2>2. messages[r] # None
    BY <1>1, <2>1 DEF Ind, FlowInv
  <2>3. call[r].by # w
    BY <1>1, <1>3, <2>1 DEF SentInv
  <2> QED
    BY <1>1, <2>1, <2>2, <2>3 DEF Ind, RowInv, GoodCopy
<1>5. ASSUME NEW u \in Users, NEW c \in Convs
      PROVE  unread'[u][c] <= Cardinality(Counted(u, c)')
  <2>1. /\ Counted(u, c) \subseteq Counted(u, c)'
        /\ IsFiniteSet(Counted(u, c)) /\ IsFiniteSet(Counted(u, c)')
        /\ Cardinality(Counted(u, c)) \in Nat
        /\ Cardinality(Counted(u, c)') \in Nat
        /\ unread[u][c] <= Cardinality(Counted(u, c)')
    BY <1>1, <1>2, CountedGrows
  <2>2. CASE unread'[u][c] = unread[u][c]
    BY <2>1, <2>2
  <2>3. CASE unread'[u][c] # unread[u][c]
    <3>1. u = w /\ c = call[r].conv /\ unread'[u][c] = unread[u][c] + 1
      BY <1>1, <1>3, <1>4, <2>3 DEF IncrementUnread, TypeOK
    <3>2. PICK t : t = <<r, todo[r][w]>>
      OBVIOUS
    <3>3. t \notin Counted(u, c)
      BY <1>3, <3>1, <3>2 DEF Counted
    <3>4. t \in Counted(u, c)'
      <4>1. r \in Others(u, c)'
        BY <1>1, <1>4, <3>1 DEF Others
      <4>2. todo[r][w] \in 1..most'[c][u]
        <5>1. most[c][u] \in Nat /\ most'[c][u] \in Nat /\ most[c][u] <= most'[c][u]
          BY <1>1 DEF RoomsInv, KnownGrows
        <5>2. todo[r][w] <= most[c][u]
          BY <1>1, <1>4, <3>1 DEF SentInv
        <5> QED
          BY <1>3, <5>1, <5>2
      <4> QED
        BY <1>3, <3>1, <3>2, <4>1, <4>2 DEF Counted
    <3>5. /\ IsFiniteSet(Counted(u, c) \cup {t})
          /\ Cardinality(Counted(u, c) \cup {t}) = Cardinality(Counted(u, c)) + 1
      BY <2>1, <3>3, FS_AddElement
    <3>6. Cardinality(Counted(u, c) \cup {t}) <= Cardinality(Counted(u, c)')
      <4>1. Counted(u, c) \cup {t} \subseteq Counted(u, c)'
        BY <2>1, <3>4
      <4> QED
        BY <2>1, <4>1, FS_Subset
    <3>7. unread[u][c] \in Nat /\ unread[u][c] <= Cardinality(Counted(u, c))
      BY <1>1 DEF TypeOK, UnreadInv
    <3> QED
      BY <2>1, <3>1, <3>5, <3>6, <3>7
  <2> QED
    BY <2>2, <2>3
<1>6. IsFiniteSet(StoredIds')
  BY <1>1, <1>2, CountedGrows
<1> QED
  BY <1>5, <1>6 DEF UnreadInv

-----------------------------------------------------------------------------
(* The steps *)

\* Whom the room has told of which message stays true.
LEMMA RoomsStay ==
    ASSUME Ind, RoomsInv, Grows, UNCHANGED <<members, granted, subs, most>>,
           \A h \in heard' \ heard : /\ h \in Users \X Reqs /\ call[h[2]].op = "send"
                                     /\ EverMember(call[h[2]].conv, h[1])
    PROVE  RoomsInv'
<1>1. \A h \in heard' : /\ h \in Users \X Reqs /\ call[h[2]].op = "send"
                        /\ EverMember(call[h[2]].conv, h[1])
  BY DEF RoomsInv
<1>2. \A h \in heard' : call'[h[2]] = call[h[2]]
  BY <1>1 DEF Grows
<1> QED
  BY <1>1, <1>2 DEF RoomsInv, EverMember

\* Whoever hears of a message now has been in its room's conversation.
LEMMA AudienceEver ==
    ASSUME RoomsInv, NEW m \in Reqs, call[m].op = "send",
           NEW h \in Audience(m, call[m].conv)
    PROVE  /\ h \in Users \X Reqs /\ call[h[2]].op = "send"
           /\ EverMember(call[h[2]].conv, h[1])
<1>1. PICK u \in Clients : h = <<u, m>> /\ <<u, call[m].conv>> \in subs
  BY DEF Audience
<1>2. h[1] = u /\ h[2] = m /\ u \in Users
  BY <1>1, ClientsAssumption
<1>3. EverMember(<<u, call[m].conv>>[2], <<u, call[m].conv>>[1])
  BY <1>1 DEF RoomsInv
<1> QED
  BY <1>1, <1>2, <1>3

\* A request that has been accepted will count every entry but its sender's.
LEMMA ReceivedSent ==
    ASSUME RoomInd, NEW r \in Reqs, Received(r), UNCHANGED most
    PROVE  SentInv(r)'
<1>1. CASE call'[r].op # "send"
  BY <1>1 DEF SentInv
<1>2. CASE call'[r].op = "send"
  <2>1. PICK c \in Convs, u \in Users :
           /\ c = call'[r].conv /\ u = call'[r].by /\ HasMember(c, u)
           /\ todo'[r] = [members[c] EXCEPT ![u] = 0]
           /\ pc'[r] \notin {"push", "unread", "done"} /\ res'[r] = "none"
    <3>1. NoCall.op = "none"
      BY DEF NoCall
    <3>2. /\ pc'[r] \in {"insert", "update", "reread", "clear"} /\ res'[r] = "none"
          /\ call'[r].by \in Users /\ call'[r].conv \in Convs
          /\ HasMember(call'[r].conv, call'[r].by)
          /\ todo'[r] = [members[call'[r].conv] EXCEPT ![call'[r].by] = 0]
      BY <1>2, <3>1 DEF Received
    <3> QED
      BY <3>2
  <2>2. EverMember(c, u)'
    BY <2>1, MembersEver DEF RoomInd, Ind, EverMember
  <2>3. ASSUME NEW v \in Users
        PROVE  todo'[r][v] <= most'[c][v]
    <3>1. /\ members[c] \in [Users -> Nat] /\ members[c][v] \in Nat
          /\ most[c][v] \in Nat /\ members[c][v] <= most[c][v]
      BY DEF RoomInd, RoomsInv, Ind, TypeOK
    <3> QED
      BY <2>1, <3>1
  <2>4. todo'[r][u] = 0
    <3>1. members[c] \in [Users -> Nat]
      BY DEF RoomInd, Ind, TypeOK
    <3> QED
      BY <2>1, <3>1
  <2> QED
    BY <2>1, <2>2, <2>3, <2>4 DEF SentInv
<1> QED
  BY <1>1, <1>2

\* A request that arrives, by HTTP or through the proxy.
LEMMA ArrivalKeeps ==
    ASSUME RoomInd, NEW r \in Reqs, Arrive(r), UNCHANGED <<room, told, most, lost>>,
           ViaType', \A q \in Reqs \ {r} : via'[q] = via[q],
           via'[r] # "http" => call'[r].op = "send" \/ res'[r] = "refused"
    PROVE  RoomInd'
<1>1. /\ Ind /\ TypeOK /\ RoomsInv /\ UnreadInv
      /\ \A q \in Reqs : ViaInv(q) /\ SentInv(q)
  BY DEF RoomInd, Ind
<1>2. /\ pc[r] = "idle" /\ call[r].op = "none" /\ messages[r] = None
      /\ UNCHANGED <<members, stores, brokers>>
      /\ Apart(r) /\ Grows /\ Received(r)
  BY <1>1, ArriveFrame
<1>3. Ind'
  BY <1>1, ArriveKeeps
<1>4. RoomsInv'
  BY <1>1, <1>2, RoomsStay DEF room, told
<1>5. KnownGrows
  BY <1>1, <1>2, MostStays DEF KnownGrows, stores, brokers
<1>6. \A q \in Reqs : ViaInv(q)' /\ SentInv(q)'
  <2>1. ASSUME NEW q \in Reqs \ {r}
        PROVE  ViaInv(q)' /\ SentInv(q)'
    BY <1>1, <1>2, <1>3, <1>5, OtherVia, OtherSent DEF told
  <2>2. ViaInv(r)'
    <3>1. r \notin raw
      BY <1>1, <1>2 DEF ViaInv
    <3> QED
      BY <1>2, <3>1 DEF ViaInv, Received, NoCall, told
  <2>3. SentInv(r)'
    BY <1>2, ReceivedSent
  <2> QED
    BY <2>1, <2>2, <2>3
<1>7. UnreadInv'
  <2>1. \A m \in Reqs : messages[m] # None => Fewer(m)
    BY <1>1, <1>2, OthersFewer
  <2> QED
    BY <1>1, <1>2, <1>3, <1>5, <2>1, UnreadStays DEF stores
<1> QED
  BY <1>3, <1>4, <1>6, <1>7 DEF RoomInd

LEMMA HandlePublishKeeps ==
    ASSUME RoomInd, NEW r \in Reqs, HandlePublish(r)
    PROVE  RoomInd'
<1>1. Ind /\ SendMessage(r) /\ Arrive(r) /\ UNCHANGED <<room, told, most, lost>>
  BY DEF RoomInd, HandlePublish, Arrive
<1>2. call'[r].op = "send" \/ res'[r] = "refused"
  BY <1>1, SendMessageFrame
<1>3. ViaType' /\ \A q \in Reqs \ {r} : via'[q] = via[q]
  BY DEF HandlePublish, RoomInd, ViaType, told
<1> QED
  BY <1>1, <1>2, <1>3, ArrivalKeeps

LEMMA HandleHTTPKeeps ==
    ASSUME RoomInd, NEW r \in Reqs, HandleHTTP(r)
    PROVE  RoomInd'
<1>1. Ind /\ Arrive(r) /\ UNCHANGED <<room, told, most, lost, via>>
  BY DEF RoomInd, HandleHTTP
<1>2. via'[r] = "http"
  BY <1>1, ArriveFrame DEF RoomInd, ViaInv
<1>3. ViaType'
  BY <1>1 DEF RoomInd, ViaType, told
<1> QED
  BY <1>1, <1>2, <1>3, ArrivalKeeps

\* A request at work goes on, and is not back at its beginning.
LEMMA WorksOn ==
    ASSUME Ind, Ind', NEW r \in Reqs, pc[r] \notin {"idle", "done"}, call'[r] = call[r]
    PROVE  res[r] = "none" /\ pc'[r] # "idle"
<1>1. /\ pc[r] \in PCs
      /\ pc[r] # "done" => res[r] = "none"
      /\ pc[r] \in {"insert", "lookup", "last", "unread"} => call[r].op = "send"
      /\ pc[r] = "update" => call[r].op \in {"edit", "delete"}
      /\ pc[r] \in {"reread", "reactions"} => call[r].op \in {"react", "unreact"}
      /\ pc[r] = "clear" => call[r].op = "read"
      /\ pc[r] \in {"emit", "push"} => call[r].op # "none"
  BY DEF Ind, TypeOK, CallInv
<1>2. call[r].op # "none"
  BY <1>1 DEF PCs
<1>3. pc'[r] = "idle" => call'[r].op = "none"
  BY DEF Ind, CallInv
<1> QED
  BY <1>1, <1>2, <1>3

\* Request r's own part after one of its statements.
LEMMA StatementSent ==
    ASSUME RoomInd, NEW r \in Reqs, Statement(r), UNCHANGED <<via, raw, most, lost>>
    PROVE  ViaInv(r)' /\ SentInv(r)'
<1>1. /\ Ind /\ Ind' /\ RoomsInv /\ CallInv(r) /\ ViaInv(r) /\ SentInv(r)
      /\ pc[r] \in PCs
  BY StatementKeeps DEF RoomInd, Ind, TypeOK
<1>2. Advanced(r)
  BY <1>1, StatementFrame
<1>3. CASE pc'[r] = "done" /\ res'[r] = "refused" /\ call'[r] = NoCall
  <2>1. r \notin raw
    BY <1>1, <1>2 DEF ViaInv, Advanced, CallInv
  <2> QED
    BY <1>2, <1>3, <2>1 DEF ViaInv, SentInv, NoCall
<1>4. CASE /\ call'[r] = call[r]
           /\ \/ pc'[r] # "done" /\ res'[r] = "none"
              \/ pc[r] = "unread" /\ pc'[r] = "done" /\ res'[r] = "ok"
  <2>1. res[r] = "none" /\ pc'[r] # "idle" /\ shown' = shown
    <3>1. pc[r] \notin {"idle", "done"} /\ call'[r] = call[r] /\ shown' = shown
      BY <1>2, <1>4 DEF Advanced
    <3> QED
      BY <1>1, <3>1, WorksOn
  <2>2. ViaInv(r)'
    BY <1>1, <1>4, <2>1 DEF ViaInv
  <2>3. CASE call[r].op # "send"
    BY <1>4, <2>2, <2>3 DEF SentInv
  <2>4. CASE call[r].op = "send"
    <3>1. KnownGrows
      BY <1>1, <1>2, <2>1, MostStays DEF KnownGrows, Advanced
    <3>2. /\ EverMember(call[r].conv, call[r].by)'
          /\ todo'[r][call[r].by] = 0
          /\ \A u \in Users : todo'[r][u] <= most'[call[r].conv][u]
      BY <1>1, <1>2, <1>4, <2>4, <3>1, TodoBounded DEF Advanced
    <3>3. CASE pc'[r] \notin {"push", "unread", "done"}
      BY <1>4, <2>2, <3>2, <3>3 DEF SentInv, EverMember
    <3>4. CASE pc[r] = "unread"
      BY <1>1, <1>2, <1>4, <2>1, <2>2, <3>2, <3>4 DEF SentInv, Advanced, EverMember
    <3>5. CASE /\ pc[r] = "emit" /\ pc'[r] = "push"
               /\ [kind |-> "send", msg |-> r] \in emitted'
      BY <1>4, <2>2, <3>2, <3>5 DEF SentInv, EverMember
    <3> QED
      BY <1>2, <1>4, <2>4, <3>3, <3>4, <3>5 DEF Advanced
  <2> QED
    BY <2>3, <2>4
<1> QED
  BY <1>2, <1>3, <1>4 DEF Advanced

LEMMA SilentlyKeeps ==
    ASSUME RoomInd, NEW r \in Reqs, Silently(r)
    PROVE  RoomInd'
<1>1. /\ Ind /\ TypeOK /\ RoomsInv /\ UnreadInv /\ ViaType
      /\ \A q \in Reqs : ViaInv(q) /\ SentInv(q)
      /\ Statement(r) /\ UNCHANGED <<room, via, told, most, lost>>
  BY DEF RoomInd, Silently, history, Ind
<1>2. Ind' /\ Apart(r) /\ Grows /\ Advanced(r)
  BY <1>1, StatementKeeps, StatementFrame
<1>3. RoomsInv'
  BY <1>1, <1>2, RoomsStay DEF room, told, Advanced
<1>4. KnownGrows
  BY <1>1, <1>2, MostStays DEF KnownGrows, Advanced
<1>5. \A q \in Reqs : ViaInv(q)' /\ SentInv(q)'
  <2>1. ASSUME NEW q \in Reqs \ {r}
        PROVE  ViaInv(q)' /\ SentInv(q)'
    BY <1>1, <1>2, <1>4, OtherVia, OtherSent DEF told
  <2>2. ViaInv(r)' /\ SentInv(r)'
    BY <1>1, StatementSent DEF told
  <2> QED
    BY <2>1, <2>2
<1>6. UnreadInv'
  <2>1. CASE CountUnread(r)
    BY <1>1, <1>2, <1>4, <2>1, CountKeepsUnread
  <2>2. CASE ~CountUnread(r)
    <3>1. \A u \in Users, c \in Convs :
             unread'[u][c] = unread[u][c] \/ unread'[u][c] = 0
      <4>1. CASE ClearUnread(r)
        <5>1. /\ call[r].by \in Users /\ call[r].conv \in Convs
              /\ unread' = [unread EXCEPT ![call[r].by][call[r].conv] = 0]
              /\ unread \in [Users -> [Convs -> Nat]]
          BY <1>1, <4>1 DEF ClearUnread, Ind, CallInv, TypeOK
        <5> QED
          BY <5>1
      <4>2. CASE ~ClearUnread(r)
        BY <1>1, <2>2, <4>2 DEF Statement, InsertMessage, IndexMessage,
           UpdateLastMessage, UpdateMessage, ReadReactions, WriteReactions, Emit, stores
      <4> QED
        BY <4>1, <4>2
    <3>2. \A m \in Reqs : messages[m] # None => Fewer(m)
      BY <1>1, <1>2, OthersFewer DEF Advanced
    <3>3. \A m \in Reqs \ {r} : messages[m] = None => messages'[m] = None
      BY <1>2 DEF Advanced
    <3> QED
      BY <1>1, <1>2, <1>4, <3>1, <3>2, <3>3, UnreadStays
  <2> QED
    BY <2>1, <2>2
<1> QED
  BY <1>1, <1>2, <1>3, <1>5, <1>6 DEF RoomInd, ViaType, told

\* A step of request r that writes no table: a push, a call that failed, or the
\* end of a request that was cut off.
LEMMA TableRests ==
    ASSUME RoomInd, Ind', NEW r \in Reqs, Apart(r), Grows, Fewer(r), KnownGrows,
           UNCHANGED <<members, stores, room, via, raw, most>>,
           \A h \in heard' \ heard : /\ h \in Users \X Reqs /\ call[h[2]].op = "send"
                                     /\ EverMember(call[h[2]].conv, h[1]),
           ViaInv(r)', SentInv(r)'
    PROVE  RoomInd'
<1>1. /\ Ind /\ TypeOK /\ RoomsInv /\ UnreadInv /\ ViaType
      /\ \A q \in Reqs : ViaInv(q) /\ SentInv(q)
  BY DEF RoomInd, Ind
<1>2. RoomsInv'
  BY <1>1, RoomsStay DEF room
<1>3. \A q \in Reqs \ {r} : ViaInv(q)' /\ SentInv(q)'
  BY <1>1, OtherVia, OtherSent
<1>4. UnreadInv'
  <2>1. \A m \in Reqs : messages[m] # None => Fewer(m)
    BY <1>1, OthersFewer
  <2> QED
    BY <1>1, <2>1, UnreadStays DEF stores
<1> QED
  BY <1>1, <1>2, <1>3, <1>4 DEF RoomInd, ViaType

\* Request r's own part once its last call is behind it.
LEMMA EndedSent ==
    ASSUME RoomInd, Ind', NEW r \in Reqs, pc[r] = "push", Ended(r), Fewer(r), KnownGrows,
           UNCHANGED <<call, via, raw>>,
           call[r].op = "send" => shown'[r] # Unseen \/ <<r, "push">> \in lost'
    PROVE  ViaInv(r)' /\ SentInv(r)'
<1>1. /\ Ind /\ RoomsInv /\ ViaInv(r) /\ SentInv(r) /\ res[r] = "none"
  BY DEF RoomInd, Ind, CallInv
<1>2. ViaInv(r)'
  BY <1>1 DEF ViaInv, Ended
<1>3. SentInv(r)'
  <2>1. CASE call[r].op # "send"
    BY <2>1 DEF SentInv
  <2>2. CASE call[r].op = "send"
    <3>1. /\ EverMember(call[r].conv, call[r].by)'
          /\ todo'[r][call[r].by] = 0
          /\ \A u \in Users : todo'[r][u] <= most'[call[r].conv][u]
      BY <1>1, <2>2, TodoBounded
    <3> QED
      BY <1>1, <2>2, <3>1 DEF SentInv, KnownGrows, EverMember
  <2> QED
    BY <2>1, <2>2
<1> QED
  BY <1>2, <1>3

LEMMA PublishKeeps ==
    ASSUME RoomInd, NEW r \in Reqs, Publish(r)
    PROVE  RoomInd'
<1>1. /\ Ind /\ RoomsInv
      /\ PushEvent(r) /\ UNCHANGED <<room, via, raw, most, lost>>
  BY DEF RoomInd, Publish, history
<1>2. /\ Apart(r) /\ Grows /\ pc[r] = "push" /\ call[r].msg \in Reqs
      /\ UNCHANGED <<members, stores, emitted, call>>
      /\ Fewer(r) /\ Ended(r)
      /\ \A m \in Reqs : shown[m] # Unseen => shown'[m] # Unseen
      /\ call[r].op = "send" => shown'[r] # Unseen
  BY <1>1, PushFrame
<1>3. Ind'
  BY <1>1, PushEventKeeps
<1>4. \A h \in heard' \ heard : /\ h \in Users \X Reqs /\ call[h[2]].op = "send"
                                /\ EverMember(call[h[2]].conv, h[1])
  <2> DEFINE m == call[r].msg
  <2>1. messages[m] # None /\ call[m].op = "send" /\ messages[m].conv = call[m].conv
    BY <1>1, <1>2 DEF Ind, FlowInv, RowInv, GoodCopy
  <2>2. heard' = heard \cup Audience(m, call[m].conv)
    BY <2>1 DEF Publish
  <2> QED
    BY <1>1, <1>2, <2>1, <2>2, AudienceEver
<1>5. KnownGrows
  BY <1>1, <1>2, MostStays DEF KnownGrows
<1>6. ViaInv(r)' /\ SentInv(r)'
  BY <1>1, <1>2, <1>3, <1>5, EndedSent
<1> QED
  BY <1>1, <1>2, <1>3, <1>4, <1>5, <1>6, TableRests

\* What a failed call did not make known is in the log.
LEMMA LoggedKeeps ==
    ASSUME RoomInd, NEW r \in Reqs, Logged(r)
    PROVE  RoomInd'
<1>1. /\ Ind /\ TypeOK /\ RoomsInv /\ CallInv(r) /\ ViaInv(r) /\ SentInv(r)
      /\ BestEffortFails(r) /\ lost' = lost \cup {<<r, pc[r]>>}
      /\ UNCHANGED <<members, room, via, told, most>>
  BY DEF RoomInd, Logged, Ind
<1>2. /\ Apart(r) /\ Grows /\ Fewer(r) /\ UNCHANGED <<stores, brokers, call>>
      /\ \/ /\ pc[r] \in {"last", "clear", "emit"} /\ res'[r] = "none"
            /\ pc'[r] = IF pc[r] = "emit" THEN "push" ELSE "emit"
         \/ pc[r] = "push" /\ Ended(r)
  BY <1>1, FailsFrame
<1>3. Ind'
  BY <1>1, BestEffortFailsKeeps DEF TypeOK
<1>4. KnownGrows
  BY <1>1, <1>2, MostStays DEF KnownGrows, brokers
<1>5. ViaInv(r)' /\ SentInv(r)'
  <2>1. CASE pc[r] = "push" /\ Ended(r)
    BY <1>1, <1>2, <1>3, <1>4, <2>1, EndedSent DEF told
  <2>2. CASE /\ pc[r] \in {"last", "clear", "emit"} /\ res'[r] = "none"
             /\ pc'[r] = IF pc[r] = "emit" THEN "push" ELSE "emit"
    <3>1. res[r] = "none"
      BY <1>1, <2>2 DEF CallInv
    <3>2. ViaInv(r)'
      BY <1>1, <1>2, <2>2, <3>1 DEF ViaInv, told
    <3>3. CASE call[r].op # "send"
      BY <1>2, <3>2, <3>3 DEF SentInv
    <3>4. CASE call[r].op = "send"
      <4>1. /\ EverMember(call[r].conv, call[r].by)'
            /\ todo'[r][call[r].by] = 0
            /\ \A u \in Users : todo'[r][u] <= most'[call[r].conv][u]
        BY <1>1, <1>2, <1>3, <1>4, <3>4, TodoBounded
      <4>2. pc'[r] = "push" => <<r, "emit">> \in lost'
        BY <1>1, <2>2
      <4> QED
        BY <1>2, <2>2, <3>2, <4>1, <4>2 DEF SentInv, EverMember
    <3> QED
      BY <3>3, <3>4
  <2> QED
    BY <1>2, <2>1, <2>2
<1> QED
  BY <1>1, <1>2, <1>3, <1>4, <1>5, TableRests DEF told

\* A request that was cut off claims nothing.
LEMMA CutOffKeeps ==
    ASSUME RoomInd, NEW r \in Reqs, CutOff(r)
    PROVE  RoomInd'
<1>1. /\ Ind /\ TypeOK /\ RoomsInv /\ CallInv(r) /\ ViaInv(r) /\ SentInv(r)
      /\ Abandon(r) /\ UNCHANGED <<members, room, via, told, most, lost>>
  BY DEF RoomInd, CutOff, Fault, Abandon, history, Ind
<1>2. /\ Apart(r) /\ Grows /\ Fewer(r) /\ UNCHANGED <<stores, brokers, call>>
      /\ pc[r] \notin {"idle", "done"} /\ pc'[r] = "done" /\ res'[r] = "error"
  BY <1>1, AbandonFrame
<1>3. Ind'
  BY <1>1, AbandonKeeps DEF TypeOK
<1>4. KnownGrows
  BY <1>1, <1>2, MostStays DEF KnownGrows, brokers
<1>5. res[r] = "none"
  BY <1>1, <1>2 DEF CallInv
<1>6. ViaInv(r)'
  BY <1>1, <1>2, <1>5 DEF ViaInv, told
<1>7. SentInv(r)'
  <2>1. CASE call[r].op = "send"
    <3>1. /\ EverMember(call[r].conv, call[r].by)'
          /\ todo'[r][call[r].by] = 0
          /\ \A u \in Users : todo'[r][u] <= most'[call[r].conv][u]
      BY <1>1, <1>2, <1>3, <1>4, <2>1, TodoBounded
    <3> QED
      BY <1>2, <3>1 DEF SentInv, EverMember
  <2> QED
    BY <1>2, <2>1 DEF SentInv
<1> QED
  BY <1>1, <1>2, <1>3, <1>4, <1>6, <1>7, TableRests DEF told

\* A step that no request takes.
LEMMA RequestsRest ==
    ASSUME RoomInd, UNCHANGED <<stores, brokers, clock, pc, call, res, view, todo>>,
           members' \in [Convs -> [Users -> Nat]], KnownGrows
    PROVE  Ind' /\ UnreadInv' /\ Grows /\ \A q \in Reqs : SentInv(q)'
<1>1. Ind /\ TypeOK /\ RoomsInv /\ UnreadInv /\ \A q \in Reqs : SentInv(q)
  BY DEF RoomInd, Ind
<1>2. /\ UNCHANGED <<messages, byId, last, unread, emitted, shown, clock>>
      /\ UNCHANGED <<pc, call, res, view, todo>>
  BY DEF stores, brokers
<1>3. Ind'
  <2>1. TypeOK'
    BY <1>1, <1>2 DEF Ind, TypeOK
  <2>2. ASSUME NEW r \in Reqs
        PROVE  CallInv(r)' /\ FlowInv(r)' /\ RowInv(r)'
    <3>1. CallInv(r) /\ FlowInv(r) /\ RowInv(r)
      BY <1>1 DEF Ind
    <3> QED
      BY <1>2, <3>1 DEF CallInv, FlowInv, RowInv, GoodCopy
  <2>3. KnownStored'
    BY <1>1, <1>2 DEF Ind, KnownStored
  <2> QED
    BY <2>1, <2>2, <2>3 DEF Ind
<1>4. Grows
  BY <1>2 DEF Grows
<1>5. \A q \in Reqs : Fewer(q)
  BY <1>1, <1>2, FewerLeft
<1>6. UnreadInv'
  <2>1. CASE Reqs = {}
    <3>1. StoredIds' = {} /\ StoredIds = {}
      BY <2>1 DEF StoredIds
    <3>2. \A u, c : Counted(u, c) = {} /\ Counted(u, c)' = {}
      BY <2>1 DEF Counted, Others
    <3> QED
      BY <1>1, <1>2, <3>1, <3>2 DEF UnreadInv
  <2>2. CASE Reqs # {}
    BY <1>1, <1>2, <1>3, <1>4, <1>5, <2>2, UnreadStays
  <2> QED
    BY <2>1, <2>2
<1>7. ASSUME NEW q \in Reqs
      PROVE  SentInv(q)'
  <2>1. CASE call[q].op = "send"
    <3>1. /\ EverMember(call[q].conv, call[q].by)'
          /\ todo'[q][call[q].by] = 0
          /\ \A u \in Users : todo'[q][u] <= most'[call[q].conv][u]
      BY <1>1, <1>2, <1>3, <1>5, <2>1, TodoBounded
    <3> QED
      BY <1>1, <1>2, <2>1, <3>1 DEF SentInv, KnownGrows, EverMember
  <2> QED
    BY <1>2, <2>1 DEF SentInv
<1> QED
  BY <1>3, <1>4, <1>6, <1>7

\* Nobody's request, membership or log is touched.
LEMMA KnownSame ==
    ASSUME RoomInd, UNCHANGED <<vars, most, lost>>
    PROVE  /\ Ind' /\ UnreadInv' /\ Grows /\ \A q \in Reqs : SentInv(q)'
           /\ members' \in [Convs -> [Users -> Nat]] /\ KnownGrows
<1>1. members' \in [Convs -> [Users -> Nat]]
  BY DEF vars, RoomInd, Ind, TypeOK
<1>2. KnownGrows
  BY MostStays DEF KnownGrows, vars, RoomInd
<1> QED
  BY <1>1, <1>2, RequestsRest DEF vars, stores, brokers

LEMMA FanOutKeeps ==
    ASSUME RoomInd, NEW r \in Reqs, FanOut(r)
    PROVE  RoomInd'
<1>1. /\ Ind /\ RoomsInv /\ ViaType
      /\ \A q \in Reqs : ViaInv(q)
      /\ UNCHANGED <<vars, room, via, most, lost>>
      /\ via[r] = "proxy" /\ res[r] = "ok" /\ raw' = raw \cup {r}
      /\ heard' = heard \cup Audience(r, call[r].conv)
  BY DEF RoomInd, FanOut, history
<1>2. Ind' /\ UnreadInv' /\ Grows /\ \A q \in Reqs : SentInv(q)'
  BY <1>1, KnownSame
<1>3. call[r].op = "send"
  BY <1>1 DEF ViaInv
<1>4. RoomsInv'
  <2>1. \A h \in heard' \ heard : /\ h \in Users \X Reqs /\ call[h[2]].op = "send"
                                  /\ EverMember(call[h[2]].conv, h[1])
    BY <1>1, <1>3, AudienceEver
  <2> QED
    BY <1>1, <1>2, <2>1, RoomsStay DEF room, vars
<1>5. ViaType' /\ \A q \in Reqs : ViaInv(q)'
  BY <1>1, <1>3 DEF ViaInv, vars, ViaType
<1> QED
  BY <1>2, <1>4, <1>5 DEF RoomInd

\* Centrifugo gives up: the payload will not be passed on.
LEMMA ProxyTimeoutKeeps ==
    ASSUME RoomInd, NEW r \in Reqs, ProxyTimeout(r)
    PROVE  RoomInd'
<1>1. /\ Ind /\ RoomsInv /\ ViaType
      /\ \A q \in Reqs : ViaInv(q)
      /\ UNCHANGED <<vars, room, told, most, lost>>
      /\ via[r] = "proxy" /\ r \notin raw
      /\ via' = [via EXCEPT ![r] = "given up"]
  BY DEF RoomInd, ProxyTimeout, history
<1>2. Ind' /\ UnreadInv' /\ Grows /\ \A q \in Reqs : SentInv(q)'
  BY <1>1, KnownSame
<1>3. RoomsInv'
  BY <1>1, <1>2, RoomsStay DEF room, told, vars
<1>4. ViaType' /\ via'[r] = "given up" /\ \A q \in Reqs \ {r} : via'[q] = via[q]
  BY <1>1 DEF ViaType, told
<1>5. \A q \in Reqs : ViaInv(q)'
  BY <1>1, <1>4 DEF ViaInv, vars, told
<1> QED
  BY <1>2, <1>3, <1>4, <1>5 DEF RoomInd

\* Rooms and memberships change nothing that requests know.
LEMMA MembershipKeeps ==
    ASSUME RoomInd, UNCHANGED <<stores, brokers, clock, pc, call, res, view, todo>>,
           UNCHANGED <<via, told>>, members' \in [Convs -> [Users -> Nat]], KnownGrows,
           \A c \in Convs, u \in Users : members'[c][u] <= most'[c][u],
           \A p \in granted' \cup subs' :
              p \in Users \X Convs /\ EverMember(p[2], p[1])
    PROVE  RoomInd'
<1>1. /\ Ind /\ RoomsInv /\ ViaType
      /\ \A q \in Reqs : ViaInv(q)
  BY DEF RoomInd
<1>2. Ind' /\ UnreadInv' /\ \A q \in Reqs : SentInv(q)'
  BY RequestsRest
<1>3. ViaType' /\ \A q \in Reqs : ViaInv(q)'
  BY <1>1 DEF ViaType, ViaInv, told
<1>4. RoomsInv'
  <2>1. ASSUME NEW p \in Users \X Convs, EverMember(p[2], p[1])
        PROVE  EverMember(p[2], p[1])'
    BY <1>1, <2>1, EverStays
  <2>2. ASSUME NEW h \in heard'
        PROVE  /\ h \in Users \X Reqs /\ call'[h[2]].op = "send"
               /\ EverMember(call[h[2]].conv, h[1])'
    <3>1. /\ h \in Users \X Reqs /\ call[h[2]].op = "send" /\ call'[h[2]].op = "send"
          /\ EverMember(call[h[2]].conv, h[1])
      BY <1>1 DEF RoomsInv, told
    <3>2. call[h[2]].conv \in Convs /\ h[1] \in Users
      BY <1>1, <3>1 DEF Ind, CallInv
    <3> QED
      BY <1>1, <3>1, <3>2, EverStays
  <2> QED
    BY <2>1, <2>2 DEF RoomsInv, KnownGrows, EverMember
<1> QED
  BY <1>2, <1>3, <1>4 DEF RoomInd

LEMMA RoomsKeep ==
    ASSUME RoomInd, Rooms
    PROVE  RoomInd'
<1>1. TypeOK /\ RoomsInv
  BY DEF RoomInd, Ind
<1>2. PICK u \in Clients, c \in Convs :
         HandleSubscribe(u, c) \/ Subscribe(u, c) \/ Unsubscribe(u, c)
  BY DEF Rooms
<1>3. u \in Users /\ UNCHANGED <<vars, via, told, most, lost>>
  BY <1>2, ClientsAssumption DEF HandleSubscribe, Subscribe, Unsubscribe, history
<1>4. KnownGrows /\ members' \in [Convs -> [Users -> Nat]]
  BY <1>3, KnownSame
<1>5. \A x \in Convs, v \in Users : members'[x][v] <= most'[x][v]
  BY <1>1, <1>3 DEF RoomsInv, vars
<1>6. \A p \in granted' \cup subs' : p \in Users \X Convs /\ EverMember(p[2], p[1])
  <2>1. CASE HandleSubscribe(u, c)
    <3>1. granted' = granted \cup {<<u, c>>} /\ subs' = subs /\ EverMember(c, u)
      BY <1>1, <1>3, <2>1, MembersEver DEF HandleSubscribe
    <3> QED
      BY <1>1, <1>3, <3>1 DEF RoomsInv
  <2>2. CASE Subscribe(u, c) \/ Unsubscribe(u, c)
    BY <1>1, <2>2 DEF Subscribe, Unsubscribe, RoomsInv
  <2> QED
    BY <1>2, <2>1, <2>2
<1> QED
  BY <1>3, <1>4, <1>5, <1>6, MembershipKeeps DEF vars, stores, brokers

LEMMA ChangeMembersKeeps ==
    ASSUME RoomInd, ChangeMembers
    PROVE  RoomInd'
<1>1. TypeOK /\ RoomsInv
  BY DEF RoomInd, Ind
<1>2. PICK c \in Convs, list \in [Users -> 0..MaxEntries] :
         /\ members' = [members EXCEPT ![c] = list]
         /\ most' = [most EXCEPT ![c] =
                       [u \in Users |-> IF list[u] > @[u] THEN list[u] ELSE @[u]]]
         /\ UNCHANGED <<stores, brokers, clock, pc, call, res, view, todo>>
         /\ UNCHANGED <<granted, subs, via, told, lost>>
  BY DEF ChangeMembers
<1> DEFINE raised == [u \in Users |-> IF list[u] > most[c][u] THEN list[u] ELSE most[c][u]]
<1>3. /\ members \in [Convs -> [Users -> Nat]] /\ most \in [Convs -> [Users -> Nat]]
      /\ list \in [Users -> Nat]
  BY <1>1, ChangesAssumption DEF TypeOK, RoomsInv
<1>4. /\ raised \in [Users -> Nat]
      /\ \A u \in Users : list[u] <= raised[u] /\ most[c][u] <= raised[u]
  <2>1. ASSUME NEW u \in Users
        PROVE  raised[u] \in Nat /\ list[u] <= raised[u] /\ most[c][u] <= raised[u]
    <3>1. list[u] \in Nat /\ most[c][u] \in Nat
      BY <1>3
    <3> QED
      BY <3>1
  <2> QED
    BY <2>1
<1>5. members' = [members EXCEPT ![c] = list] /\ most' = [most EXCEPT ![c] = raised]
  BY <1>2
<1> HIDE DEF raised
<1>6. members' \in [Convs -> [Users -> Nat]] /\ most' \in [Convs -> [Users -> Nat]]
  BY <1>3, <1>4, <1>5
<1>7. ASSUME NEW x \in Convs, NEW u \in Users
      PROVE  members'[x][u] <= most'[x][u] /\ most[x][u] <= most'[x][u]
  <2>1. CASE x = c
    BY <1>3, <1>4, <1>5, <2>1
  <2>2. CASE x # c
    <3>1. members'[x] = members[x] /\ most'[x] = most[x]
      BY <1>3, <1>5, <2>2
    <3>2. members[x][u] <= most[x][u] /\ most[x][u] \in Nat
      BY <1>1, <1>3 DEF RoomsInv
    <3> QED
      BY <3>1, <3>2
  <2> QED
    BY <2>1, <2>2
<1>8. KnownGrows
  BY <1>2, <1>6, <1>7 DEF KnownGrows, brokers
<1>9. \A p \in granted' \cup subs' : p \in Users \X Convs /\ EverMember(p[2], p[1])
  BY <1>1, <1>2 DEF RoomsInv
<1> QED
  BY <1>2, <1>6, <1>7, <1>8, <1>9, MembershipKeeps

-----------------------------------------------------------------------------
(* The theorems *)

LEMMA InitRoomInd == RealtimeInit => RoomInd
<1> SUFFICES ASSUME RealtimeInit
             PROVE  RoomInd
  OBVIOUS
<1>1. Ind
  BY InitInd DEF RealtimeInit
<1>2. RoomsInv
  <2>1. most \in [Convs -> [Users -> Nat]] /\ most = members
    BY MembersAssumption DEF RealtimeInit, Init
  <2>2. \A c \in Convs, u \in Users : members[c][u] <= most[c][u]
    <3>1. \A c \in Convs, u \in Users : most[c][u] \in Nat
      BY <2>1
    <3> QED
      BY <2>1, <3>1
  <2> QED
    BY <2>1, <2>2 DEF RealtimeInit, RoomsInv
<1>3. ViaType
  BY DEF RealtimeInit, ViaType
<1>4. \A r \in Reqs : ViaInv(r) /\ SentInv(r)
  BY DEF RealtimeInit, Init, ViaInv, SentInv, NoCall
<1>5. UnreadInv
  <2>1. StoredIds = {} /\ \A u \in Users, c \in Convs : Counted(u, c) = {}
    BY DEF RealtimeInit, Init, StoredIds, Counted, Others
  <2>2. \A u \in Users, c \in Convs : unread[u][c] = 0
    BY DEF RealtimeInit, Init
  <2> QED
    BY <2>1, <2>2, FS_EmptySet DEF UnreadInv
<1> QED
  BY <1>1, <1>2, <1>3, <1>4, <1>5 DEF RoomInd

LEMMA NextRoomInd == RoomInd /\ [RealtimeNext]_allVars => RoomInd'
<1> SUFFICES ASSUME RoomInd, [RealtimeNext]_allVars
             PROVE  RoomInd'
  OBVIOUS
<1>1. ASSUME NEW r \in Reqs,
             \/ HandleHTTP(r) \/ HandlePublish(r) \/ Silently(r) \/ Publish(r)
             \/ Logged(r) \/ CutOff(r) \/ FanOut(r) \/ ProxyTimeout(r)
      PROVE  RoomInd'
  BY <1>1, HandleHTTPKeeps, HandlePublishKeeps, SilentlyKeeps, PublishKeeps,
     LoggedKeeps, CutOffKeeps, FanOutKeeps, ProxyTimeoutKeeps
<1>2. CASE UNCHANGED allVars
  <2>1. /\ UNCHANGED <<vars, most, lost>>
        /\ UNCHANGED <<stores, brokers, clock, pc, call, res, view, todo>>
        /\ UNCHANGED <<via, told, granted, subs>>
    BY <1>2 DEF allVars, vars, history, room, stores, brokers, told
  <2>2. members' \in [Convs -> [Users -> Nat]] /\ KnownGrows
    BY <2>1, KnownSame
  <2>3. /\ \A c \in Convs, u \in Users : members'[c][u] <= most'[c][u]
        /\ \A p \in granted' \cup subs' :
              p \in Users \X Convs /\ EverMember(p[2], p[1])
    BY <2>1 DEF RoomInd, RoomsInv, vars
  <2> QED
    BY <2>1, <2>2, <2>3, MembershipKeeps
<1> QED
  BY <1>1, <1>2, RoomsKeep, ChangeMembersKeeps DEF RealtimeNext

\* What holds of requests, rooms and counters together is true throughout, while
\* calls fail, are logged and are given up on.
THEOREM RealtimeInvariance == RealtimeSpec => []RoomInd
  BY InitRoomInd, NextRoomInd, PTL DEF RealtimeSpec

\* The proxy lets only members into a room, so that whoever hears of a message has
\* been a member of its conversation, however people come and go between the
\* answer, the subscription and the message.
THEOREM MembersHear == RealtimeSpec => []HeardByMembers
<1>1. RoomInd => HeardByMembers
  BY DEF RoomInd, RoomsInv, HeardByMembers
<1> QED
  BY <1>1, RealtimeInvariance, PTL

\* A client's own payload enters the room only after HandlePublish has stored the
\* message of somebody who has been a member; the room was told of it before, or
\* the push that would have told it is in the log.
THEOREM PayloadAfterStore == RealtimeSpec => []RawIsStored
<1>1. RoomInd => RawIsStored
  <2> SUFFICES ASSUME RoomInd, NEW r \in raw
               PROVE  /\ r \in byId /\ messages[r] # None
                      /\ shown[r] # Unseen \/ <<r, "push">> \in lost
                      /\ EverMember(messages[r].conv, messages[r].sender)
    BY DEF RawIsStored
  <2>1. r \in Reqs
    BY DEF RoomInd, ViaType
  <2>2. call[r].op = "send" /\ res[r] = "ok"
    BY <2>1 DEF RoomInd, ViaInv
  <2>3. r \in byId /\ messages[r] # None
    BY <2>1, <2>2 DEF RoomInd, Ind, FlowInv, RowInv
  <2>4. messages[r].conv = call[r].conv /\ messages[r].sender = call[r].by
    BY <2>1, <2>3 DEF RoomInd, Ind, RowInv, GoodCopy
  <2> QED
    BY <2>1, <2>2, <2>3, <2>4 DEF RoomInd, SentInv
<1> QED
  BY <1>1, RealtimeInvariance, PTL

\* However many messages are sent at once and whatever fails, a message is counted
\* for a user at most once for each entry they have had in the list, and never for
\* its sender.
THEOREM CountedOnce == RealtimeSpec => []UnreadBounded
<1>1. RoomInd => UnreadBounded
  <2> SUFFICES ASSUME RoomInd, NEW u \in Users, NEW c \in Convs
               PROVE  unread[u][c] <= most[c][u] * Cardinality(Others(u, c))
    BY DEF UnreadBounded, Others
  <2>1. most[c][u] \in Nat /\ unread[u][c] \in Nat
    BY DEF RoomInd, RoomsInv, Ind, TypeOK
  <2>2. /\ Cardinality(Counted(u, c)) \in Nat /\ Cardinality(Others(u, c)) \in Nat
        /\ Cardinality(Counted(u, c)) <= Cardinality(Others(u, c)) * most[c][u]
    BY <2>1, CountedFinite DEF RoomInd, UnreadInv
  <2>3. unread[u][c] <= Cardinality(Counted(u, c))
    BY DEF RoomInd, UnreadInv
  <2> QED
    BY <2>1, <2>2, <2>3
<1> QED
  BY <1>1, RealtimeInvariance, PTL

-----------------------------------------------------------------------------
(* What happened one after the other *)

\* When message m was, or will be, stored.
SentAt(m) == IF messages[m] = None THEN view[m].at ELSE messages[m].at

\* No copy of a message changes when it was sent, and it was sent in the past.
StampInv(r) ==
    /\ pc[r] = "insert" => messages[r] = None
    /\ pc[r] = "done" => view[r] = None
    /\ messages[r] # None => messages[r].at < clock
    /\ view[r] # None =>
          /\ view[r].at < clock
          /\ messages[call[r].msg] # None => view[r].at = messages[call[r].msg].at

\* Requests that are running know of each other.  A message that was sent without
\* request r having met its sending was sent before r began, or is newer than the
\* message that r has read or has sent itself.
OverlapInv(r, s) ==
    /\ r # s /\ {r, s} \subseteq Running => s \in met[r]
    /\ (/\ r # s /\ call[r].op \in {"read", "send"} /\ call[s].op = "send"
        /\ messages[call[r].msg] # None /\ s \notin met[r])
          => pc[s] = "done" \/ messages[call[r].msg].at < SentAt(s)

\* Nothing newer than what r has read was sent or under way in the conversation.
Alone(r) ==
    \A m \in Reqs :
        (messages[m] # None /\ messages[m].conv = call[r].conv) =>
            messages[m].at <= messages[call[r].msg].at /\ m \notin met[r]

\* A read that has cleared its counter.
HasCleared(r) == call[r].op = "read" /\ (pc[r] \in {"emit", "push"} \/ res[r] = "ok")

ReadInv(r) ==
    /\ call[r].op = "read" => messages[call[r].msg] # None
    /\ HasCleared(r) /\ <<r, "clear">> \notin lost /\ Alone(r) =>
          unread[call[r].by][call[r].conv] = 0

\* Message m has been offered to last_message.
Offered(m) ==
    call[m].op = "send" /\ (pc[m] \in {"emit", "push", "unread"} \/ res[m] = "ok")

LastInv(m) ==
    Offered(m) => <<m, "last">> \in lost \/ LastCovers(call[m].conv, m)

OrderInd ==
    /\ met \in [Reqs -> SUBSET Reqs]
    /\ \A r \in Reqs : StampInv(r) /\ ReadInv(r) /\ LastInv(r)
    /\ \A r, s \in Reqs : OverlapInv(r, s)

\* The requests that write message m, or have written it.
WritersOf(m) ==
    {r \in Reqs : call[r].op \in {"send", "edit", "delete"} /\ call[r].msg = m}

\* They do so one after the other, and none was cut off.
Serial(m) ==
    \A r \in WritersOf(m) : res[r] # "error" /\ met[r] \cap WritersOf(m) = {}

\* What the room shows of a stored message once it has heard all.
Shows(m) == IF messages[m].deleted THEN Hidden ELSE messages[m].text

\* Request r has written message m and the room has not heard of it.
Unheard(r) == pc[r] \in {"lookup", "last", "emit", "push"}

\* What a writer of message m knows of it, when there is no other at work.
WriterInv(r) ==
    /\ pc[r] \in {"insert", "update"} => (view[r].deleted <=> call[r].op = "delete")
    /\ \A m \in Reqs : r \in WritersOf(m) /\ Serial(m) =>
          /\ pc[r] = "update" /\ call[r].op = "edit" => ~messages[m].deleted
          /\ Unheard(r) /\ call[r].op # "delete" =>
                messages[m].text = view[r].text /\ ~messages[m].deleted
          /\ (Unheard(r) \/ res[r] = "ok") /\ call[r].op = "delete" =>
                messages[m] # None /\ messages[m].deleted

\* The room shows what is stored while no writer is between the table and the room,
\* if it was told of every write.
ShownInv(m) ==
    (/\ messages[m] # None /\ Serial(m)
     /\ \A r \in WritersOf(m) : ~Unheard(r) /\ <<r, "push">> \notin lost)
        => shown[m] = Shows(m)

AgreeInd == \A r \in Reqs : WriterInv(r) /\ ShownInv(r)

-----------------------------------------------------------------------------
(* What a step does to copies and their times *)

Dated == \A r \in Reqs : StampInv(r)

\* A stored message stays, with its time and conversation.
Lasting ==
    \A m \in Reqs : messages[m] # None =>
        /\ messages'[m] # None
        /\ messages'[m].at = messages[m].at
        /\ messages'[m].conv = messages[m].conv

\* What a request that arrives has in its hands.
Takes(r) ==
    /\ clock' = IF pc'[r] = "insert" THEN clock + 1 ELSE clock
    /\ \/ pc'[r] = "done" /\ call'[r].op = "none" /\ view'[r] = None /\ res'[r] = "refused"
       \/ /\ pc'[r] = "insert" /\ call'[r].op = "send" /\ call'[r].msg = r
          /\ view'[r] # None /\ view'[r].at = clock /\ ~view'[r].deleted
          /\ res'[r] = "none"
       \/ /\ pc'[r] \in {"update", "reread", "clear"} /\ call'[r].msg \in Reqs
          /\ messages[call'[r].msg] # None /\ res'[r] = "none"
          /\ \/ /\ pc'[r] = "update" /\ call'[r].op \in {"edit", "delete"}
                /\ view'[r] # None /\ view'[r].at = messages[call'[r].msg].at
                /\ view'[r].deleted <=> call'[r].op = "delete"
                /\ call'[r].op = "edit" => ~messages[call'[r].msg].deleted
             \/ /\ pc'[r] # "update" /\ call'[r].op \in {"react", "unreact", "read"}
                /\ view'[r] = None

LEMMA ArriveTakes ==
    ASSUME Ind, NEW r \in Reqs, Arrive(r)
    PROVE  Takes(r)
<1>1. TypeOK /\ CallInv(r) /\ FlowInv(r) /\ pc[r] = "idle"
  BY ArriveFrame DEF Ind
<1>2. view[r] = None /\ res[r] = "none"
  BY <1>1 DEF CallInv, FlowInv
<1>3. CASE Refuse(r) /\ clock' = clock
  BY <1>1, <1>3 DEF Refuse, Finish, TypeOK, NoCall, Takes
<1>4. CASE SendMessage(r) /\ ~(Refuse(r) /\ clock' = clock)
  <2>1. PICK u \in Users, c \in Convs \cup {None}, allowed \in BOOLEAN,
             type \in Types, text \in {r, None}, long \in BOOLEAN, media \in Media :
          SendMessage(r)!3!(u, c, allowed, type, text, long, media)
    BY <1>4 DEF SendMessage
  <2> DEFINE verdict == SendVerdict(u, c, allowed,
                          Validate(type, text # None, long, media # "none"))
             k == [NoCall EXCEPT !.op = "send", !.by = u, !.conv = c, !.msg = r,
                                 !.text = text]
             copy == NewMessage(u, c, type, text, media)
  <2>2. verdict = "ok"
    BY <1>4, <2>1
  <2>3. c \in Convs
    BY <2>2 DEF SendVerdict
  <2> HIDE DEF verdict
  <2>4. /\ call' = [call EXCEPT ![r] = k]
        /\ pc' = [pc EXCEPT ![r] = "insert"]
        /\ view' = [view EXCEPT ![r] = copy]
        /\ clock' = clock + 1 /\ res' = res
    BY <2>1, <2>2 DEF verdict
  <2>5. k.op = "send" /\ k.msg = r
    BY DEF NoCall
  <2>6. copy \in Message
    BY <1>1, <2>3 DEF NewMessage, Message, HasMedia, Texts, TypeOK
  <2>7. copy # None /\ copy.at = clock /\ ~copy.deleted
    BY <2>6, NoMessageAssumption DEF NewMessage
  <2> HIDE DEF k, copy
  <2> QED
    BY <1>1, <1>2, <2>4, <2>5, <2>7 DEF TypeOK, Takes
<1>5. CASE EditMessage(r) /\ ~Refuse(r)
  <2>1. PICK u \in Users, id \in Reqs, text \in {r, None}, long \in BOOLEAN :
           /\ EditVerdict(FindByID(id), u, long) = "ok"
           /\ GotoWith(r, "update", Edited(FindByID(id), text))
           /\ call' = [call EXCEPT ![r] = [Asks("edit", u, id) EXCEPT !.text = text]]
           /\ clock' = clock
    BY <1>5 DEF EditMessage
  <2> DEFINE k == [Asks("edit", u, id) EXCEPT !.text = text]
             copy == Edited(FindByID(id), text)
  <2>2. k.op = "edit" /\ k.msg = id
    BY DEF NoCall, Asks
  <2>3. /\ FindByID(id) = messages[id] /\ messages[id] \in Message
        /\ messages[id] # None /\ ~messages[id].deleted
    BY <2>1, Found DEF EditVerdict
  <2>4. copy \in Message /\ copy.at = messages[id].at /\ ~copy.deleted
    <3>1. text \in Texts
      BY DEF Texts
    <3> QED
      BY <2>3, <3>1 DEF Edited, Message
  <2>5. /\ call' = [call EXCEPT ![r] = k] /\ view' = [view EXCEPT ![r] = copy]
        /\ pc' = [pc EXCEPT ![r] = "update"] /\ res' = res
    BY <2>1 DEF GotoWith
  <2> HIDE DEF k, copy
  <2> QED
    BY <1>1, <1>2, <2>1, <2>2, <2>3, <2>4, <2>5, NoMessageAssumption DEF TypeOK, Takes
<1>6. CASE DeleteMessage(r) /\ ~Refuse(r)
  <2>1. PICK u \in Users, id \in Reqs :
           /\ DeleteVerdict(FindByID(id), u) = "ok"
           /\ GotoWith(r, "update", Deleted(FindByID(id)))
           /\ call' = [call EXCEPT ![r] = Asks("delete", u, id)]
           /\ clock' = clock
    BY <1>6 DEF DeleteMessage
  <2> DEFINE k == Asks("delete", u, id)
             copy == Deleted(FindByID(id))
  <2>2. k.op = "delete" /\ k.msg = id
    BY DEF NoCall, Asks
  <2>3. FindByID(id) = messages[id] /\ messages[id] \in Message /\ messages[id] # None
    BY <2>1, Found DEF DeleteVerdict
  <2>4. copy \in Message /\ copy.at = messages[id].at /\ copy.deleted
    BY <2>3 DEF Deleted, Message, Texts
  <2>5. /\ call' = [call EXCEPT ![r] = k] /\ view' = [view EXCEPT ![r] = copy]
        /\ pc' = [pc EXCEPT ![r] = "update"] /\ res' = res
    BY <2>1 DEF GotoWith
  <2> HIDE DEF k, copy
  <2> QED
    BY <1>1, <1>2, <2>1, <2>2, <2>3, <2>4, <2>5, NoMessageAssumption DEF TypeOK, Takes
<1>7. ASSUME NEW op \in {"react", "unreact"}, React(r, op), ~Refuse(r)
      PROVE  Takes(r)
  <2>1. PICK u \in Users, id \in Reqs, e \in Emojis :
           /\ ReactionVerdict(FindByID(id), op, u) = "ok"
           /\ Goto(r, "reread")
           /\ call' = [call EXCEPT ![r] = [Asks(op, u, id) EXCEPT !.emoji = e]]
           /\ clock' = clock
    BY <1>7 DEF React
  <2> DEFINE k == [Asks(op, u, id) EXCEPT !.emoji = e]
  <2>2. k.op = op /\ k.msg = id
    BY DEF NoCall, Asks
  <2>3. messages[id] # None
    BY <2>1, Found DEF ReactionVerdict
  <2>4. call' = [call EXCEPT ![r] = k]
    BY <2>1
  <2> HIDE DEF k
  <2> QED
    BY <1>1, <1>2, <1>7, <2>1, <2>2, <2>3, <2>4 DEF TypeOK, Takes, Goto
<1>8. CASE MarkAsRead(r) /\ ~Refuse(r)
  <2>1. PICK u \in Users, id \in Reqs, c \in Convs :
           /\ ReadVerdict(FindByID(id), c, u) = "ok"
           /\ Goto(r, "clear")
           /\ call' = [call EXCEPT ![r] = [Asks("read", u, id) EXCEPT !.conv = c]]
           /\ clock' = clock
    BY <1>8 DEF MarkAsRead
  <2> DEFINE k == [Asks("read", u, id) EXCEPT !.conv = c]
  <2>2. k.op = "read" /\ k.msg = id
    BY DEF NoCall, Asks
  <2>3. messages[id] # None
    BY <2>1, Found DEF ReadVerdict
  <2>4. call' = [call EXCEPT ![r] = k]
    BY <2>1
  <2> HIDE DEF k
  <2> QED
    BY <1>1, <1>2, <2>1, <2>2, <2>3, <2>4 DEF TypeOK, Takes, Goto
<1>9. ~SendMessage(r) => clock' = clock
  BY DEF Arrive, EditMessage, DeleteMessage, MarkAsRead, AddReaction, RemoveReaction, React
<1> QED
  BY <1>3, <1>4, <1>5, <1>6, <1>7, <1>8, <1>9 DEF Arrive, AddReaction, RemoveReaction

\* Of the writes to a message the first one stores it, and none changes its time.
LEMMA StepDated ==
    ASSUME Ind, Dated, NEW r \in Reqs, Apart(r), clock' \in Nat, clock <= clock',
           \A m \in Reqs : messages[m] # None =>
              messages'[m] # None /\ messages'[m].at = messages[m].at,
           \A m \in Reqs : messages[m] = None /\ messages'[m] # None =>
              m = r /\ pc[r] = "insert",
           StampInv(r)'
    PROVE  Dated'
<1>1. SUFFICES ASSUME NEW q \in Reqs \ {r} PROVE StampInv(q)'
  BY DEF Dated
<1>2. /\ TypeOK /\ StampInv(q) /\ CallInv(q) /\ FlowInv(q)
      /\ pc'[q] = pc[q] /\ call'[q] = call[q] /\ view'[q] = view[q]
  BY DEF Ind, Dated, Apart
<1>3. /\ clock \in Nat
      /\ messages[q] # None => messages[q].at \in Nat
      /\ view[q] # None => view[q].at \in Nat
  BY <1>2 DEF TypeOK, Message
<1>4. messages'[q] # None => messages[q] # None /\ messages'[q].at < clock'
  BY <1>2, <1>3 DEF StampInv
<1>5. ASSUME view[q] # None
      PROVE  /\ call[q].msg \in Reqs
             /\ messages'[call[q].msg] # None => messages[call[q].msg] # None
  <2>1. call[q].op # "none" /\ call[q].msg \in Reqs /\ pc[q] # "idle" /\ pc[q] # "done"
    BY <1>2, <1>5 DEF CallInv, FlowInv, StampInv
  <2>2. CASE pc[q] = "insert"
    BY <1>2, <2>1, <2>2 DEF CallInv
  <2>3. CASE pc[q] # "insert"
    BY <1>2, <2>1, <2>3 DEF FlowInv
  <2> QED
    BY <2>1, <2>2, <2>3
<1>6. view[q] # None =>
         /\ view[q].at < clock'
         /\ messages'[call[q].msg] # None => view[q].at = messages'[call[q].msg].at
  BY <1>2, <1>3, <1>5 DEF StampInv
<1> QED
  BY <1>2, <1>4, <1>6 DEF StampInv

Writing == {"send", "edit", "delete"}

\* What a statement does to the stored message, to the copy in memory and to the
\* counters.
Does(r) ==
    /\ clock' = clock
    /\ pc'[r] \notin {"insert", "update", "done"} \/ (pc'[r] = "done" /\ view'[r] = None)
    /\ \/ call'[r] = call[r]
       \/ call[r].op \in {"react", "unreact"} /\ call'[r].op = "none" /\ pc'[r] = "done"
    /\ \/ /\ pc[r] \in {"insert", "update"} /\ pc'[r] \in {"lookup", "emit"}
          /\ call'[r] = call[r]
          /\ messages' = [messages EXCEPT ![call[r].msg] = view[r]]
          /\ view[r] # None /\ view'[r] = view[r]
       \/ /\ pc[r] = "reactions" /\ call[r].op \in {"react", "unreact"}
          /\ view'[r] = view[r] /\ call'[r] = call[r]
          /\ messages' = [messages EXCEPT ![call[r].msg].reactions = view[r].reactions]
       \/ /\ messages' = messages /\ pc[r] \notin {"insert", "update"}
          /\ \/ call[r].op \notin Writing
             \/ Unheard(r) /\ Unheard(r)' /\ view'[r] = view[r]
             \/ pc[r] = "unread" /\ pc'[r] \in {"unread", "done"}
          /\ \/ view'[r] \in {view[r], None}
             \/ call'[r] = call[r] /\ view'[r].at = messages[call[r].msg].at
    /\ call[r].op = "read" =>
          /\ pc'[r] \in {"emit", "push"} /\ res'[r] = "none"
          /\ \/ pc[r] = "clear" /\ unread'[call[r].by][call[r].conv] = 0
             \/ pc[r] = "emit" /\ unread' = unread
    /\ \A u \in Users, c \in Convs :
          \/ unread'[u][c] \in {unread[u][c], 0}
          \/ pc[r] = "unread" /\ c = call[r].conv

LEMMA RewriteDoes ==
    ASSUME Ind, NEW r \in Reqs, InsertMessage(r) \/ UpdateMessage(r)
    PROVE  Does(r)
<1>1. TypeOK /\ CallInv(r) /\ FlowInv(r)
  BY DEF Ind
<1>2. PICK next \in {"lookup", "emit"} :
         /\ Goto(r, next) /\ call' = call /\ clock' = clock /\ unread' = unread
         /\ pc[r] \in {"insert", "update"}
         /\ messages' = [messages EXCEPT ![call[r].msg] = view[r]]
  BY <1>1 DEF InsertMessage, UpdateMessage, CallInv
<1>3. pc'[r] = next /\ UNCHANGED <<res, view, todo>>
  BY <1>2, Moves DEF PCs
<1>4. view[r] # None /\ call[r].op # "read"
  BY <1>1, <1>2 DEF CallInv, FlowInv
<1> QED
  BY <1>2, <1>3, <1>4 DEF Does

LEMMA WriteReactionsDoes ==
    ASSUME Ind, NEW r \in Reqs, WriteReactions(r)
    PROVE  Does(r)
<1>1. TypeOK /\ CallInv(r)
  BY DEF Ind
<1>2. /\ Goto(r, "emit") /\ call' = call /\ clock' = clock /\ unread' = unread
      /\ pc[r] = "reactions"
      /\ messages' = [messages EXCEPT ![call[r].msg].reactions = view[r].reactions]
  BY DEF WriteReactions
<1>3. pc'[r] = "emit" /\ UNCHANGED <<res, view, todo>>
  BY <1>2, Moves DEF PCs
<1>4. call[r].op \in {"react", "unreact"}
  BY <1>1, <1>2 DEF CallInv
<1> QED
  BY <1>2, <1>3, <1>4 DEF Does

LEMMA MoveDoes ==
    ASSUME Ind, NEW r \in Reqs, IndexMessage(r) \/ UpdateLastMessage(r) \/ Emit(r)
    PROVE  Does(r)
<1>1. TypeOK /\ CallInv(r) /\ FlowInv(r)
  BY DEF Ind
<1>2. PICK next \in {"last", "emit", "push"} :
         /\ Goto(r, next) /\ call' = call /\ clock' = clock /\ unread' = unread
         /\ pc[r] \in {"lookup", "last", "emit"} /\ messages' = messages
         /\ pc[r] # "emit" => call[r].op = "send"
  BY <1>1 DEF IndexMessage, UpdateLastMessage, Emit, stores, CallInv
<1>3. pc'[r] = next /\ UNCHANGED <<res, view, todo>>
  BY <1>2, Moves DEF PCs
<1>4. /\ Unheard(r) /\ Unheard(r)'
      /\ call[r].op = "read" => pc[r] = "emit" /\ next \in {"emit", "push"}
      /\ res[r] = "none"
  <2>1. pc[r] = "emit" => next = "push"
    BY <1>1, <1>2, <1>3 DEF IndexMessage, UpdateLastMessage, Emit, Goto, TypeOK
  <2> QED
    BY <1>1, <1>2, <1>3, <2>1 DEF Unheard, CallInv
<1> QED
  BY <1>2, <1>3, <1>4 DEF Does

LEMMA CountDoes ==
    ASSUME Ind, NEW r \in Reqs, CountUnread(r)
    PROVE  Does(r)
<1>1. /\ TypeOK /\ call[r].op = "send" /\ view[r].conv = call[r].conv
      /\ pc[r] = "unread" /\ call' = call /\ clock' = clock /\ messages' = messages
  BY AtWork DEF CountUnread, Ind
<1>2. PICK w \in Users :
         LET rest == [todo[r] EXCEPT ![w] = @ - 1]
         IN  /\ IncrementUnread(r, w) \/ UNCHANGED unread
             /\ \/ Finish(r, "ok")
                \/ todo' = [todo EXCEPT ![r] = rest] /\ UNCHANGED <<pc, res, view>>
  BY DEF CountUnread
<1>3. \/ pc'[r] = "done" /\ view'[r] = None
      \/ pc'[r] = "unread" /\ view'[r] = view[r]
  BY <1>1, <1>2 DEF Finish, TypeOK
<1>4. \A u \in Users, c \in Convs :
         unread'[u][c] = unread[u][c] \/ c = call[r].conv
  <2>1. IncrementUnread(r, w) \/ UNCHANGED unread
    BY <1>2
  <2>2. unread \in [Users -> [Convs -> Nat]]
    BY <1>1 DEF TypeOK
  <2>3. CASE IncrementUnread(r, w)
    <3>1. unread' = [unread EXCEPT ![w][call[r].conv] = @ + 1]
      BY <1>1, <2>3 DEF IncrementUnread
    <3> QED
      BY <2>2, <3>1
  <2> QED
    BY <2>1, <2>3
<1> QED
  BY <1>1, <1>3, <1>4 DEF Does

LEMMA ClearDoes ==
    ASSUME Ind, NEW r \in Reqs, ClearUnread(r)
    PROVE  Does(r)
<1>1. TypeOK /\ CallInv(r)
  BY DEF Ind
<1>2. /\ Goto(r, "emit") /\ call' = call /\ clock' = clock /\ messages' = messages
      /\ pc[r] = "clear" /\ call[r].op = "read" /\ res[r] = "none"
      /\ unread' = [unread EXCEPT ![call[r].by][call[r].conv] = 0]
  BY <1>1 DEF ClearUnread, CallInv
<1>3. pc'[r] = "emit" /\ UNCHANGED <<res, view, todo>>
  BY <1>2, Moves DEF PCs
<1>4. call[r].by \in Users /\ call[r].conv \in Convs
  BY <1>1, <1>2 DEF CallInv
<1>5. /\ unread'[call[r].by][call[r].conv] = 0
      /\ \A u \in Users, c \in Convs : unread'[u][c] \in {unread[u][c], 0}
  BY <1>1, <1>2, <1>4 DEF TypeOK
<1> QED
  BY <1>2, <1>3, <1>5 DEF Does, Writing

LEMMA ReadReactionsDoes ==
    ASSUME Ind, NEW r \in Reqs, ReadReactions(r)
    PROVE  Does(r)
<1>1. /\ TypeOK /\ CallInv(r) /\ FlowInv(r)
      /\ pc[r] = "reread" /\ clock' = clock /\ messages' = messages /\ unread' = unread
      /\ call[r].op \in {"react", "unreact"} /\ call[r].msg \in Reqs
  BY DEF Ind, ReadReactions, CallInv, stores
<1>2. messages[call[r].msg] \in Message /\ FindByID(call[r].msg) = messages[call[r].msg]
  BY <1>1 DEF FlowInv, TypeOK, FindByID
<1>3. CASE Refuse(r)
  BY <1>1, <1>3 DEF Refuse, Finish, TypeOK, NoCall, Does, Writing
<1>4. CASE Goto(r, "emit") /\ call' = call
  <2>1. pc'[r] = "emit" /\ view' = view
    BY <1>4, Moves DEF PCs
  <2> QED
    BY <1>1, <1>4, <2>1 DEF Does, Writing
<1>5. CASE \E reactions :
             /\ GotoWith(r, "reactions", [messages[call[r].msg] EXCEPT !.reactions = reactions])
             /\ call' = call
  <2>1. PICK reactions :
           GotoWith(r, "reactions", [messages[call[r].msg] EXCEPT !.reactions = reactions])
    BY <1>5
  <2> DEFINE copy == [messages[call[r].msg] EXCEPT !.reactions = reactions]
  <2>2. copy.at = messages[call[r].msg].at
    BY <1>2 DEF Message
  <2>3. view' = [view EXCEPT ![r] = copy] /\ pc' = [pc EXCEPT ![r] = "reactions"]
    BY <2>1 DEF GotoWith
  <2> HIDE DEF copy
  <2> QED
    BY <1>1, <1>5, <2>2, <2>3 DEF Does, Writing, TypeOK
<1> DEFINE m == messages[call[r].msg]
           e == call[r].emoji
           u == call[r].by
           changed == IF call[r].op = "react"
                        THEN [m EXCEPT !.reactions[e] = @ \cup {u}]
                        ELSE [m EXCEPT !.reactions = WithoutReaction(@, e, u)]
<1>6. \/ GotoWith(r, "reactions", changed) /\ call' = call
      \/ Goto(r, "emit") /\ call' = call
      \/ Refuse(r)
  BY <1>2 DEF ReadReactions
<1>7. \E reactions : changed = [m EXCEPT !.reactions = reactions]
  <2>1. [m EXCEPT !.reactions[e] = @ \cup {u}]
           = [m EXCEPT !.reactions = [m.reactions EXCEPT ![e] = @ \cup {u}]]
    BY <1>2 DEF Message
  <2>2. [m EXCEPT !.reactions = WithoutReaction(@, e, u)]
           = [m EXCEPT !.reactions = WithoutReaction(m.reactions, e, u)]
    BY <1>2 DEF Message
  <2> QED
    BY <2>1, <2>2
<1> HIDE DEF changed
<1> QED
  BY <1>3, <1>4, <1>5, <1>6, <1>7

LEMMA StatementDoes ==
    ASSUME Ind, NEW r \in Reqs, Statement(r)
    PROVE  Does(r)
BY RewriteDoes, WriteReactionsDoes, MoveDoes, CountDoes, ClearDoes, ReadReactionsDoes
   DEF Statement

\* A push ends a request or lets it count, and leaves the tables alone.
LEMMA PushDoes ==
    ASSUME Ind, NEW r \in Reqs, PushEvent(r)
    PROVE  /\ clock' = clock /\ pc[r] = "push"
           /\ shown' = [shown EXCEPT ![call[r].msg] = Display(r)]
           /\ \/ pc'[r] = "done" /\ res'[r] = "ok" /\ view'[r] = None
              \/ pc'[r] = "unread" /\ res'[r] = "none" /\ view'[r] = view[r]
                 /\ call[r].op = "send"
<1>1. TypeOK /\ CallInv(r)
  BY DEF Ind
<1> QED
  BY <1>1 DEF PushEvent, Push, Leave, Goto, Finish, TypeOK, CallInv

-----------------------------------------------------------------------------
(* The kinds of step *)

Arrives(r) == Arrive(r) /\ Meets(r) /\ UNCHANGED lost

\* A call that fails is logged, and the request goes on.
Fails(r) ==
    BestEffortFails(r) /\ lost' = lost \cup {<<r, pc[r]>>} /\ UNCHANGED members

\* What a request does that leaves its message alone: it tells the room, or fails
\* to do one thing or all the rest.
Quits(r) ==
    \/ PushEvent(r) /\ UNCHANGED lost
    \/ Fails(r)
    \/ Abandon(r) /\ UNCHANGED <<members, lost>>

Onward(r) ==
    /\ (Statement(r) /\ UNCHANGED lost) \/ Quits(r)
    /\ UNCHANGED met

Rests == UNCHANGED <<stores, brokers, clock, pc, call, res, view, todo, met, lost>>

LEMMA Kinds ==
    ASSUME RoomInd, [RealtimeNext]_allVars
    PROVE  (\E r \in Reqs : Arrives(r) \/ Onward(r)) \/ Rests
<1>1. ASSUME NEW r \in Reqs, HandleHTTP(r) \/ HandlePublish(r)
      PROVE  Arrives(r)
  BY <1>1 DEF HandleHTTP, HandlePublish, Arrive, Arrives
<1>2. ASSUME NEW r \in Reqs, Silently(r) \/ Publish(r)
      PROVE  Onward(r)
  BY <1>2 DEF Silently, Publish, Onward, Quits, history
<1>3. ASSUME NEW r \in Reqs, Logged(r) \/ CutOff(r)
      PROVE  Onward(r)
  BY <1>3 DEF Logged, CutOff, Fault, Abandon, Fails, Onward, Quits, history
<1>4. ASSUME NEW r \in Reqs, FanOut(r) \/ ProxyTimeout(r)
      PROVE  Rests
  BY <1>4 DEF FanOut, ProxyTimeout, Rests, vars, stores, brokers, history
<1>5. CASE Rooms
  BY <1>5 DEF Rooms, HandleSubscribe, Subscribe, Unsubscribe, Rests, vars, stores,
              brokers, history
<1>6. CASE ChangeMembers
  BY <1>6 DEF ChangeMembers, Rests
<1>7. CASE UNCHANGED allVars
  BY <1>7 DEF Rests, allVars, vars, stores, brokers, history
<1> QED
  BY <1>1, <1>2, <1>3, <1>4, <1>5, <1>6, <1>7 DEF RealtimeNext

\* A step of a request at work changes no stored message's time, and stores none but
\* its own.
Advances(r) ==
    /\ Apart(r) /\ pc[r] \notin {"idle", "done"} /\ met' = met /\ lost \subseteq lost'
    /\ call'[r] = call[r] \/ call'[r].op = "none"
    /\ Lasting /\ Dated'
    /\ \A m \in Reqs : messages[m] = None /\ messages'[m] # None => m = r
    /\ \A m \in Reqs : call[m].op = "send" => pc'[m] = "done" \/ SentAt(m)' = SentAt(m)

\* Whoever is at work is about a message, and unless it is about to send one, about
\* a stored one.
LEMMA About ==
    ASSUME Ind, NEW r \in Reqs, pc[r] \notin {"idle", "done"}
    PROVE  /\ call[r].op # "none" /\ call[r].msg \in Reqs
           /\ pc[r] # "insert" => messages[call[r].msg] # None
           /\ pc[r] = "insert" => call[r].msg = r
<1>1. TypeOK /\ CallInv(r) /\ FlowInv(r)
  BY DEF Ind
<1> QED
  BY <1>1 DEF TypeOK, PCs, CallInv, FlowInv

LEMMA StatementAdvances ==
    ASSUME RoomInd, Dated, NEW r \in Reqs, Statement(r), UNCHANGED <<met, lost>>
    PROVE  Advances(r)
<1>1. /\ Ind /\ TypeOK /\ CallInv(r) /\ FlowInv(r) /\ StampInv(r)
      /\ Ind' /\ Does(r) /\ Apart(r) /\ Grows /\ Advanced(r)
  BY StatementKeeps, StatementDoes, StatementFrame DEF RoomInd, Ind, Dated
<1>2. /\ pc[r] \notin {"idle", "done"} /\ call[r].msg \in Reqs
      /\ pc[r] # "insert" => messages[call[r].msg] # None
      /\ pc[r] = "insert" => call[r].msg = r
  BY <1>1, About DEF Advanced
<1>3. pc[r] = "insert" => messages[r] = None
  BY <1>1 DEF StampInv
<1>4. ASSUME NEW m \in Reqs, messages[m] # None
      PROVE  messages'[m] # None /\ messages'[m].at = messages[m].at
  <2>1. messages[m] \in Message
    BY <1>1, <1>4 DEF TypeOK
  <2>2. messages'[m] # None
    BY <1>1, <1>4 DEF Grows
  <2>3. CASE messages' = [messages EXCEPT ![call[r].msg] = view[r]] /\ view[r] # None
    BY <1>1, <1>2, <1>4, <2>3 DEF StampInv, TypeOK
  <2>4. CASE messages' = [messages EXCEPT ![call[r].msg].reactions = view[r].reactions]
    BY <1>1, <1>2, <1>4, <2>1, <2>2, <2>4 DEF TypeOK, Message
  <2>5. CASE messages' = messages
    BY <1>4, <2>5
  <2> QED
    BY <1>1, <2>2, <2>3, <2>4, <2>5 DEF Does
<1>5. ASSUME NEW m \in Reqs, messages[m] = None, messages'[m] # None
      PROVE  m = r /\ pc[r] = "insert" /\ messages'[m] = view[m]
  BY <1>1, <1>2, <1>5 DEF Does, TypeOK
<1>6. Lasting
  BY <1>1, <1>4, OriginStays DEF Lasting
<1>7. StampInv(r)'
  <2>1. /\ clock' = clock /\ clock \in Nat /\ pc'[r] # "insert"
        /\ pc'[r] = "done" => view'[r] = None
    BY <1>1 DEF Does, TypeOK
  <2>2. ASSUME NEW m \in Reqs, messages[m] # None
        PROVE  messages[m].at < clock
    BY <2>2 DEF Dated, StampInv
  <2>3. view[r] # None =>
           /\ view[r].at < clock
           /\ messages[call[r].msg] # None => view[r].at = messages[call[r].msg].at
    BY <1>1 DEF StampInv
  <2>4. messages'[r] # None => messages'[r].at < clock'
    <3>1. CASE messages[r] # None
      <4>1. messages'[r].at = messages[r].at
        BY <1>4, <3>1
      <4>2. messages[r].at < clock
        BY <2>2, <3>1
      <4> QED
        BY <2>1, <4>1, <4>2
    <3>2. CASE messages[r] = None /\ messages'[r] # None
      <4>1. messages'[r] = view[r] /\ view[r] # None
        BY <1>5, <3>2
      <4> QED
        BY <2>1, <2>3, <4>1
    <3> QED
      BY <3>1, <3>2
  <2>5. ASSUME view'[r] # None
        PROVE  /\ view'[r].at < clock'
               /\ messages'[call'[r].msg] # None =>
                     view'[r].at = messages'[call'[r].msg].at
    <3>1. call'[r] = call[r]
      BY <1>1, <2>1, <2>5 DEF Does
    <3>2. CASE view'[r] = view[r]
      <4>1. view'[r].at < clock'
        BY <2>1, <2>3, <2>5, <3>2
      <4>2. CASE messages[call[r].msg] # None
        BY <1>2, <1>4, <2>3, <2>5, <3>1, <3>2, <4>1, <4>2
      <4>3. CASE messages[call[r].msg] = None
        BY <1>2, <1>5, <3>1, <3>2, <4>1, <4>3
      <4> QED
        BY <4>2, <4>3
    <3>3. CASE messages' = messages /\ view'[r].at = messages[call[r].msg].at
               /\ pc[r] # "insert"
      <4>1. messages[call[r].msg].at < clock
        BY <1>2, <2>2, <3>3
      <4> QED
        BY <2>1, <3>1, <3>3, <4>1
    <3>4. \/ view'[r] = view[r]
          \/ messages' = messages /\ view'[r].at = messages[call[r].msg].at
             /\ pc[r] # "insert"
      BY <1>1, <2>5 DEF Does
    <3> QED
      BY <3>2, <3>3, <3>4
  <2> QED
    BY <2>1, <2>4, <2>5 DEF StampInv
<1>8. Dated'
  <2>1. clock' \in Nat /\ clock <= clock'
    BY <1>1 DEF Does, TypeOK
  <2> QED
    BY <1>1, <1>4, <1>5, <1>7, <2>1, StepDated
<1>9. ASSUME NEW m \in Reqs, call[m].op = "send"
      PROVE  pc'[m] = "done" \/ SentAt(m)' = SentAt(m)
  <2>1. CASE messages[m] # None
    BY <1>4, <2>1 DEF SentAt
  <2>2. CASE messages[m] = None /\ messages'[m] # None
    BY <1>5, <2>2 DEF SentAt
  <2>3. CASE messages[m] = None /\ messages'[m] = None
    <3>1. m # r
      <4>1. CASE pc[r] = "insert"
        BY <1>1, <1>2, <2>3, <4>1 DEF Does, FlowInv, TypeOK
      <4>2. CASE pc[r] # "insert"
        BY <1>1, <1>2, <1>9, <2>3, <4>2 DEF CallInv
      <4> QED
        BY <4>1, <4>2
    <3> QED
      BY <1>1, <2>3, <3>1 DEF SentAt, Apart
  <2> QED
    BY <2>1, <2>2, <2>3
<1>10. call'[r] = call[r] \/ call'[r].op = "none"
  BY <1>1 DEF Does
<1> QED
  BY <1>1, <1>2, <1>5, <1>6, <1>8, <1>9, <1>10 DEF Advances

\* Such a step leaves the messages alone.
LEMMA QuitsAdvances ==
    ASSUME RoomInd, Dated, NEW r \in Reqs, Quits(r), UNCHANGED met
    PROVE  Advances(r) /\ UNCHANGED <<stores, clock, call>>
<1>1. Ind /\ TypeOK /\ CallInv(r) /\ FlowInv(r) /\ StampInv(r)
  BY DEF RoomInd, Ind, Dated
<1>2. /\ pc[r] \notin {"idle", "done"} /\ Apart(r)
      /\ UNCHANGED <<stores, clock, call>> /\ lost \subseteq lost'
      /\ \/ pc'[r] = "done" /\ view'[r] = None
         \/ pc'[r] \notin {"insert", "done"} /\ view'[r] = view[r]
  <2>1. CASE PushEvent(r) /\ UNCHANGED lost
    BY <1>1, <2>1, PushFrame, PushDoes
  <2>2. CASE Fails(r)
    BY <1>1, <2>2, FailsFrame DEF Fails, Ended
  <2>3. CASE Abandon(r) /\ UNCHANGED <<members, lost>>
    BY <1>1, <2>3, AbandonFrame
  <2> QED
    BY <2>1, <2>2, <2>3 DEF Quits
<1>3. messages' = messages
  BY <1>2 DEF stores
<1>4. Lasting
  BY <1>3 DEF Lasting
<1>5. StampInv(r)'
  BY <1>1, <1>2, <1>3 DEF StampInv
<1>6. Dated'
  <2>1. clock' \in Nat /\ clock <= clock'
    BY <1>1, <1>2 DEF TypeOK
  <2> QED
    BY <1>1, <1>2, <1>3, <1>5, <2>1, StepDated
<1>7. \A m \in Reqs : pc'[m] = "done" \/ SentAt(m)' = SentAt(m)
  BY <1>2, <1>3 DEF SentAt, Apart
<1> QED
  BY <1>2, <1>3, <1>4, <1>6, <1>7 DEF Advances

-----------------------------------------------------------------------------
(* What came one after the other *)

\* A read is about a stored message.
LEMMA ReadAbout ==
    ASSUME RoomInd, OrderInd, NEW s \in Reqs, call[s].op = "read"
    PROVE  /\ call[s].msg \in Reqs /\ messages[call[s].msg] # None
           /\ call[s].by \in Users /\ call[s].conv \in Convs
  BY DEF RoomInd, Ind, CallInv, OrderInd, ReadInv

LEMMA OverlapKept ==
    ASSUME RoomInd, OrderInd, NEW r \in Reqs, Advances(r)
    PROVE  \A s, t \in Reqs : OverlapInv(s, t)'
<1> SUFFICES ASSUME NEW s \in Reqs, NEW t \in Reqs
             PROVE  OverlapInv(s, t)'
  OBVIOUS
<1>1. OverlapInv(s, t)
  BY DEF OrderInd
<1>2. s # t /\ {s, t} \subseteq Running' => t \in met'[s]
  BY <1>1 DEF Advances, Apart, Running, OverlapInv
<1>3. ASSUME s # t, call'[s].op \in {"read", "send"}, call'[t].op = "send",
             messages'[call'[s].msg] # None, t \notin met'[s]
      PROVE  pc'[t] = "done" \/ messages'[call'[s].msg].at < SentAt(t)'
  <2>1. call'[s] = call[s] /\ call'[t] = call[t] /\ met' = met
    BY <1>3 DEF Advances, Apart
  <2>2. pc[t] = "done" => pc'[t] = "done"
    BY DEF Advances, Apart
  <2>3. CallInv(s) /\ CallInv(t) /\ ReadInv(s) /\ call[s].msg \in Reqs
    BY <1>3, <2>1 DEF RoomInd, Ind, CallInv, OrderInd
  <2>4. CASE messages[call[s].msg] # None
    <3>1. messages'[call[s].msg].at = messages[call[s].msg].at
      BY <2>3, <2>4 DEF Advances, Lasting
    <3>2. pc'[t] = "done" \/ SentAt(t)' = SentAt(t)
      BY <1>3, <2>1 DEF Advances
    <3> QED
      BY <1>1, <1>3, <2>1, <2>2, <2>4, <3>1, <3>2 DEF OverlapInv
  <2>5. CASE messages[call[s].msg] = None
    <3>1. call[s].msg = r /\ s = r /\ pc[r] \notin {"idle", "done"}
      BY <1>3, <2>1, <2>3, <2>5 DEF Advances, CallInv, ReadInv
    <3>2. t \notin Running
      BY <1>1, <1>3, <2>1, <3>1 DEF OverlapInv, Running
    <3> QED
      BY <1>3, <2>1, <2>2, <2>3, <3>2 DEF Running, CallInv
  <2> QED
    BY <2>4, <2>5
<1> QED
  BY <1>2, <1>3 DEF OverlapInv

\* A read that no newer message disturbs now was not disturbed before.
LEMMA AloneBefore ==
    ASSUME RoomInd, OrderInd, NEW r \in Reqs, Advances(r),
           NEW s \in Reqs, call'[s].op = "read"
    PROVE  /\ call'[s] = call[s] /\ messages'[call[s].msg] # None
           /\ Alone(s)' => Alone(s)
<1>1. call'[s] = call[s] /\ met' = met
  BY DEF Advances, Apart
<1>2. /\ messages'[call[s].msg] # None
      /\ messages'[call[s].msg].at = messages[call[s].msg].at
  BY <1>1, ReadAbout DEF Advances, Lasting
<1> QED
  BY <1>1, <1>2 DEF Alone, Advances, Lasting

\* Whoever has been offered to last_message is stored.
LEMMA OfferedStored ==
    ASSUME RoomInd, NEW m \in Reqs, Offered(m)
    PROVE  /\ call[m].op = "send" /\ call[m].msg = m /\ call[m].conv \in Convs
           /\ messages[m] \in Message /\ messages[m] # None
<1>1. m \in byId
  BY DEF RoomInd, Ind, FlowInv, Offered
<1> QED
  BY <1>1 DEF RoomInd, Ind, TypeOK, CallInv, RowInv, Offered

\* A message that is replaced as last_message of its conversation was sent before
\* the one that replaces it, or met it.
LEMMA LastUpdated ==
    ASSUME RoomInd, OrderInd, NEW r \in Reqs, Statement(r), UNCHANGED <<met, lost>>,
           UpdateLastMessage(r), NEW m \in Reqs
    PROVE  LastInv(m)'
<1>1. /\ Ind /\ TypeOK /\ Dated /\ pc[r] = "last" /\ UNCHANGED <<messages, call>>
      /\ last' = [last EXCEPT ![view[r].conv] =
                    [msg |-> r, preview |-> view[r].text, at |-> view[r].at]]
  BY DEF RoomInd, Ind, OrderInd, Dated, UpdateLastMessage
<1>2. /\ call[r].op = "send" /\ call[r].msg = r /\ view[r] # None /\ view[r].at \in Nat
      /\ view[r].conv = call[r].conv /\ call[r].conv \in Convs
  BY <1>1, AtWork DEF Message
<1>3. messages[r] # None /\ messages[r].at = view[r].at
  BY <1>1, <1>2, About DEF Dated, StampInv
<1>4. /\ last'[call[r].conv] =
            [msg |-> r, preview |-> view[r].text, at |-> view[r].at]
      /\ \A c \in Convs : c # call[r].conv => last'[c] = last[c]
  BY <1>1, <1>2 DEF TypeOK
<1>5. last'[call[r].conv] # None /\ last'[call[r].conv].msg = r
      /\ last'[call[r].conv].at = view[r].at
  <2>1. last'[call[r].conv] \in LastMessage
    BY <1>1, <1>2, <1>4 DEF LastMessage, TypeOK, Message
  <2> QED
    BY <1>4, <2>1, NoLastMessageAssumption
<1>6. Apart(r)
  BY <1>1, StatementFrame
<1>7. CASE m = r
  BY <1>1, <1>5, <1>7 DEF LastInv, LastCovers
<1>8. CASE m # r /\ Offered(m)
  <2>1. /\ call[m].op = "send" /\ call[m].msg = m /\ call[m].conv \in Convs
        /\ messages[m] \in Message /\ messages[m] # None
    BY <1>8, OfferedStored
  <2>2. CASE call[m].conv # call[r].conv
    <3>1. LastInv(m) /\ last'[call[m].conv] = last[call[m].conv]
      BY <1>4, <2>1, <2>2 DEF OrderInd
    <3> QED
      BY <1>1, <1>8, <3>1 DEF LastInv, LastCovers
  <2>3. CASE call[m].conv = call[r].conv
    <3>1. r \in met[m] \/ messages[m].at < messages[r].at
      <4>1. OverlapInv(m, r)
        BY DEF OrderInd
      <4> QED
        BY <1>1, <1>2, <1>3, <1>8, <2>1, <4>1 DEF OverlapInv, SentAt
    <3>2. messages[m].at \in Nat
      BY <2>1 DEF Message
    <3>3. r \in met[m] \/ view[r].at > messages[m].at
      BY <1>2, <1>3, <3>1, <3>2
    <3> QED
      BY <1>1, <1>5, <2>3, <3>3 DEF LastInv, LastCovers
  <2> QED
    BY <2>2, <2>3
<1>9. CASE m # r /\ ~Offered(m)
  BY <1>1, <1>6, <1>9 DEF LastInv, Offered, Apart
<1> QED
  BY <1>7, <1>8, <1>9

\* The others leave last_message alone, and offer no message to it.
LEMMA LastStays ==
    ASSUME RoomInd, OrderInd, NEW m \in Reqs, last' = last, met[m] \subseteq met'[m],
           lost \subseteq lost', Lasting, Offered(m)' => call'[m] = call[m],
           Offered(m)' => Offered(m) \/ <<m, "last">> \in lost'
    PROVE  LastInv(m)'
<1>1. CASE Offered(m)' /\ Offered(m)
  <2>1. LastInv(m) /\ messages'[m].at = messages[m].at
    BY <1>1, OfferedStored DEF OrderInd, Lasting
  <2> QED
    BY <1>1, <2>1 DEF LastInv, LastCovers
<1> QED
  BY <1>1 DEF LastInv

LEMMA StatementLast ==
    ASSUME RoomInd, OrderInd, NEW r \in Reqs, Statement(r), UNCHANGED <<met, lost>>,
           Advances(r), NEW m \in Reqs
    PROVE  LastInv(m)'
<1>1. CASE UpdateLastMessage(r)
  BY <1>1, LastUpdated
<1>2. CASE ~UpdateLastMessage(r)
  <2>1. Ind /\ TypeOK /\ CallInv(r) /\ Apart(r) /\ Advanced(r)
    BY StatementFrame DEF RoomInd, Ind
  <2>2. last' = last
    BY <1>2 DEF Statement, InsertMessage, IndexMessage, CountUnread, UpdateMessage,
                ReadReactions, WriteReactions, ClearUnread, Emit, stores
  <2>3. call[r].op = "send" => pc'[r] # "emit"
    <3>1. CASE InsertMessage(r) \/ IndexMessage(r) \/ Emit(r)
      BY <2>1, <3>1 DEF InsertMessage, IndexMessage, Emit, Goto, TypeOK
    <3>2. CASE UpdateMessage(r) \/ ReadReactions(r) \/ WriteReactions(r) \/ ClearUnread(r)
      BY <2>1, <3>2 DEF UpdateMessage, ReadReactions, WriteReactions, ClearUnread, CallInv
    <3>3. CASE CountUnread(r)
      BY <2>1, <3>3 DEF CountUnread, Finish, TypeOK
    <3> QED
      BY <1>2, <3>1, <3>2, <3>3 DEF Statement
  <2>4. Offered(m)' => Offered(m) /\ call'[m] = call[m]
    <3>1. CASE m = r
      BY <2>1, <2>3, <3>1 DEF Offered, Advanced, NoCall
    <3>2. CASE m # r
      BY <2>1, <3>2 DEF Offered, Apart
    <3> QED
      BY <3>1, <3>2
  <2> QED
    BY <2>2, <2>4, LastStays DEF Advances
<1> QED
  BY <1>1, <1>2

\* The counter of a read that nothing disturbs stays cleared: whoever raises it
\* sends a message that is newer, or was met.
LEMMA StatementOrder ==
    ASSUME RoomInd, OrderInd, NEW r \in Reqs, Statement(r), UNCHANGED <<met, lost>>
    PROVE  OrderInd'
<1>1. Ind /\ TypeOK /\ Does(r) /\ Advances(r)
  BY StatementDoes, StatementAdvances DEF RoomInd, Ind, OrderInd, Dated
<1>2. ASSUME NEW s \in Reqs
      PROVE  ReadInv(s)'
  <2>1. SUFFICES ASSUME call'[s].op = "read"
                 PROVE  /\ messages'[call'[s].msg] # None
                        /\ HasCleared(s)' /\ <<s, "clear">> \notin lost /\ Alone(s)' =>
                              unread'[call'[s].by][call'[s].conv] = 0
    BY DEF ReadInv, HasCleared
  <2>2. /\ call'[s] = call[s] /\ messages'[call[s].msg] # None
        /\ Alone(s)' => Alone(s)
    BY <1>1, <2>1, AloneBefore
  <2>3. /\ call[s].msg \in Reqs /\ messages[call[s].msg] # None
        /\ call[s].by \in Users /\ call[s].conv \in Convs
    BY <2>1, <2>2, ReadAbout
  <2>4. ASSUME HasCleared(s)', <<s, "clear">> \notin lost, Alone(s)'
        PROVE  unread'[call[s].by][call[s].conv] = 0
    <3>1. HasCleared(s) => unread[call[s].by][call[s].conv] = 0
      BY <2>2, <2>4 DEF OrderInd, ReadInv
    <3>2. CASE s = r
      <4>1. pc[r] = "emit" => HasCleared(r)
        BY <2>1, <2>2, <3>2 DEF HasCleared
      <4> QED
        BY <1>1, <2>1, <2>2, <3>1, <3>2, <4>1 DEF Does
    <3>3. CASE s # r
      <4>1. HasCleared(s)
        BY <1>1, <2>4, <3>3 DEF HasCleared, Advances, Apart
      <4>2. ASSUME pc[r] = "unread", call[s].conv = call[r].conv
            PROVE  FALSE
        <5>1. call[r].op = "send" /\ messages[r] # None
          BY <1>1, <4>2, AtWork, About
        <5>2. messages[r].conv = call[s].conv
          BY <1>1, <4>2, <5>1 DEF Ind, RowInv, GoodCopy
        <5>3. messages[r].at <= messages[call[s].msg].at /\ r \notin met[s]
          BY <2>2, <2>4, <5>1, <5>2 DEF Alone
        <5>4. messages[call[s].msg].at < messages[r].at
          <6>1. OverlapInv(s, r)
            BY DEF OrderInd
          <6> QED
            BY <2>1, <2>2, <2>3, <3>3, <4>2, <5>1, <5>3, <6>1 DEF OverlapInv, SentAt
        <5>5. messages[r].at \in Nat /\ messages[call[s].msg].at \in Nat
          BY <1>1, <2>3, <5>1 DEF TypeOK, Message
        <5> QED
          BY <5>3, <5>4, <5>5
      <4> QED
        BY <1>1, <2>3, <3>1, <4>1, <4>2 DEF Does
    <3> QED
      BY <3>2, <3>3
  <2> QED
    BY <2>2, <2>4
<1>3. \A s, t \in Reqs : OverlapInv(s, t)'
  BY <1>1, OverlapKept
<1>4. \A m \in Reqs : LastInv(m)'
  BY <1>1, StatementLast
<1> QED
  BY <1>1, <1>2, <1>3, <1>4 DEF OrderInd, Advances, Dated

LEMMA QuitsOrder ==
    ASSUME RoomInd, OrderInd, NEW r \in Reqs, Quits(r), UNCHANGED met
    PROVE  OrderInd'
<1>1. /\ Ind /\ TypeOK /\ CallInv(r) /\ Advances(r) /\ UNCHANGED <<stores, clock, call>>
  BY QuitsAdvances DEF RoomInd, Ind, OrderInd, Dated
<1>2. /\ HasCleared(r)' => HasCleared(r) \/ <<r, "clear">> \in lost'
      /\ Offered(r)' => Offered(r) \/ <<r, "last">> \in lost'
  <2>1. CASE PushEvent(r)
    <3>1. pc[r] = "push"
      BY <1>1, <2>1, PushFrame
    <3> QED
      BY <1>1, <3>1 DEF HasCleared, Offered
  <2>2. CASE Abandon(r) /\ UNCHANGED members
    <3>1. pc'[r] = "done" /\ res'[r] = "error"
      BY <1>1, <2>2, AbandonFrame
    <3> QED
      BY <3>1 DEF HasCleared, Offered
  <2>3. CASE Fails(r)
    <3>1. /\ pc[r] \in {"last", "clear", "emit", "push"}
          /\ lost' = lost \cup {<<r, pc[r]>>}
      BY <1>1, <2>3, FailsFrame DEF Fails
    <3>2. CASE pc[r] \in {"emit", "push"}
      BY <1>1, <3>2 DEF HasCleared, Offered
    <3>3. CASE pc[r] = "last"
      BY <1>1, <3>1, <3>3 DEF CallInv, HasCleared
    <3>4. CASE pc[r] = "clear"
      BY <1>1, <3>1, <3>4 DEF CallInv, Offered
    <3> QED
      BY <3>1, <3>2, <3>3, <3>4
  <2> QED
    BY <2>1, <2>2, <2>3 DEF Quits
<1>3. ASSUME NEW s \in Reqs
      PROVE  ReadInv(s)' /\ LastInv(s)'
  <2>1. /\ HasCleared(s)' => HasCleared(s) \/ <<s, "clear">> \in lost'
        /\ Offered(s)' => Offered(s) \/ <<s, "last">> \in lost'
    BY <1>1, <1>2 DEF HasCleared, Offered, Advances, Apart
  <2>2. (Alone(s)' => Alone(s)) /\ lost \subseteq lost'
    BY <1>1 DEF Alone, Advances, stores
  <2>3. LastInv(s)'
    BY <1>1, <2>1, LastStays DEF Advances, stores
  <2> QED
    BY <1>1, <2>1, <2>2, <2>3 DEF OrderInd, ReadInv, stores
<1>4. \A s, t \in Reqs : OverlapInv(s, t)'
  BY <1>1, OverlapKept
<1> QED
  BY <1>1, <1>3, <1>4 DEF OrderInd, Advances, Dated

\* A message that is sent from now on is newer than any that has been read.
LEMMA ArriveOrder ==
    ASSUME RoomInd, OrderInd, NEW r \in Reqs, Arrives(r)
    PROVE  OrderInd'
<1>1. /\ Ind /\ TypeOK /\ Dated /\ Takes(r) /\ Apart(r)
      /\ pc[r] = "idle" /\ call[r].op = "none" /\ messages[r] = None
      /\ UNCHANGED <<stores, brokers, lost>>
  BY ArriveTakes, ArriveFrame DEF Arrives, RoomInd, Ind, OrderInd, Dated
<1>2. /\ messages' = messages /\ unread' = unread /\ clock \in Nat
      /\ clock' \in Nat /\ clock <= clock'
  BY <1>1 DEF stores, TypeOK, Takes
<1>3. /\ met' = [s \in Reqs |-> IF s = r THEN Running
                                ELSE IF s \in Running THEN met[s] \cup {r} ELSE met[s]]
      /\ met \in [Reqs -> SUBSET Reqs] /\ met' \in [Reqs -> SUBSET Reqs]
  BY DEF Arrives, Meets, OrderInd, Running
<1>4. Running' \subseteq Running \cup {r} /\ r \notin Running
  BY <1>1 DEF Apart, Running
<1>5. StampInv(r)'
  <2>1. CASE pc'[r] \in {"done", "insert"}
    BY <1>1, <1>2, <2>1 DEF Takes, StampInv
  <2>2. CASE pc'[r] \in {"update", "reread", "clear"}
    <3>1. call'[r].msg \in Reqs /\ messages[call'[r].msg] # None
      BY <1>1, <2>2 DEF Takes
    <3>2. messages[call'[r].msg].at < clock /\ clock' = clock
      BY <1>1, <2>2, <3>1 DEF Dated, StampInv, Takes
    <3> QED
      BY <1>1, <1>2, <2>2, <3>1, <3>2 DEF Takes, StampInv
  <2> QED
    BY <1>1, <2>1, <2>2 DEF Takes
<1>6. Dated'
  BY <1>1, <1>2, <1>5, StepDated
<1>7. ASSUME NEW s \in Reqs, NEW t \in Reqs
      PROVE  OverlapInv(s, t)'
  <2>1. OverlapInv(s, t)
    BY DEF OrderInd
  <2>2. s # t /\ {s, t} \subseteq Running' => t \in met'[s]
    BY <1>3, <1>4, <2>1 DEF OverlapInv
  <2>3. ASSUME s # t, call'[s].op \in {"read", "send"}, call'[t].op = "send",
               messages'[call'[s].msg] # None, t \notin met'[s]
        PROVE  pc'[t] = "done" \/ messages'[call'[s].msg].at < SentAt(t)'
    <3>1. CASE s = r
      <4>1. t # r /\ t \notin Running
        BY <1>3, <2>3, <3>1
      <4>2. call[t].op = "send" /\ pc'[t] = pc[t]
        BY <1>1, <2>3, <4>1 DEF Apart
      <4> QED
        BY <1>1, <4>1, <4>2 DEF Running, Ind, CallInv
    <3>2. CASE s # r /\ t = r
      <4>1. call'[s] = call[s]
        BY <1>1, <3>2 DEF Apart
      <4>2. messages[call[s].msg].at < clock
        <5>1. call[s].msg \in Reqs /\ messages[call[s].msg] # None
          BY <1>1, <1>2, <2>3, <4>1 DEF Ind, CallInv
        <5> QED
          BY <1>1, <5>1 DEF Dated, StampInv
      <4>3. view'[r].at = clock
        BY <1>1, <2>3, <3>2 DEF Takes
      <4> QED
        BY <1>1, <1>2, <3>2, <4>1, <4>2, <4>3 DEF SentAt
    <3>3. CASE s # r /\ t # r
      BY <1>1, <1>2, <1>3, <2>1, <2>3, <3>3 DEF OverlapInv, SentAt, Apart
    <3> QED
      BY <3>1, <3>2, <3>3
  <2> QED
    BY <2>2, <2>3 DEF OverlapInv
<1>8. ASSUME NEW s \in Reqs
      PROVE  ReadInv(s)' /\ LastInv(s)'
  <2>1. CASE s = r
    BY <1>1, <1>2, <2>1 DEF Takes, ReadInv, HasCleared, LastInv, Offered
  <2>2. CASE s # r
    <3>1. HasCleared(s)' => HasCleared(s)
      BY <1>1, <2>2 DEF HasCleared, Apart
    <3>2. Alone(s)' => Alone(s)
      BY <1>1, <1>2, <1>3, <2>2 DEF Alone, Apart
    <3>3. LastInv(s)'
      <4>1. met[s] \subseteq met'[s] /\ last' = last /\ Lasting
        BY <1>1, <1>2, <1>3, <2>2 DEF stores, Lasting
      <4>2. Offered(s)' => Offered(s) /\ call'[s] = call[s]
        BY <1>1, <2>2 DEF Offered, Apart
      <4> QED
        BY <1>1, <4>1, <4>2, LastStays
    <3> QED
      BY <1>1, <1>2, <2>2, <3>1, <3>2, <3>3 DEF OrderInd, ReadInv, Apart
  <2> QED
    BY <2>1, <2>2
<1> QED
  BY <1>3, <1>6, <1>7, <1>8 DEF OrderInd, Dated

LEMMA RestOrder ==
    ASSUME OrderInd, Rests
    PROVE  OrderInd'
  BY DEF OrderInd, Rests, stores, StampInv, ReadInv, HasCleared, Alone, OverlapInv,
         Running, SentAt, LastInv, LastCovers, Offered

LEMMA InitOrder == RealtimeInit => OrderInd
  BY DEF RealtimeInit, Init, OrderInd, StampInv, ReadInv, HasCleared, OverlapInv,
         Running, NoCall, LastInv, Offered

LEMMA NextOrder == RoomInd /\ OrderInd /\ [RealtimeNext]_allVars => OrderInd'
<1> SUFFICES ASSUME RoomInd, OrderInd, [RealtimeNext]_allVars
             PROVE  OrderInd'
  OBVIOUS
<1> QED
  BY Kinds, ArriveOrder, StatementOrder, QuitsOrder, RestOrder DEF Onward

\* What is known of the order of requests is true throughout: a read whose HDEL
\* went through and that met no newer message has left its counter at zero, and
\* last_message is not behind a message that was offered to it.
THEOREM OrderInvariance == RealtimeSpec => []OrderInd
  BY RealtimeInvariance, InitOrder, NextOrder, PTL DEF RealtimeSpec

\* A user who has marked the newest message of a conversation as read has no unread
\* messages in it, unless ClearUnread failed and was logged or MarkAsRead met the
\* sending of one: what is counted later is newer.
THEOREM ReadLeavesNothing == RealtimeSpec => []ReadClears
<1>1. RoomInd /\ OrderInd => ReadClears
  <2> SUFFICES ASSUME RoomInd, OrderInd, NEW r \in Reqs, Acked(r, "read"),
                      <<r, "clear">> \notin lost,
                      \A m \in Reqs :
                         (messages[m] # None /\ messages[m].conv = call[r].conv) =>
                            /\ messages[m].at <= messages[call[r].msg].at
                            /\ m \notin met[r]
               PROVE  unread[call[r].by][call[r].conv] = 0
    BY DEF ReadClears
  <2>1. HasCleared(r) /\ Alone(r)
    BY DEF Acked, HasCleared, Alone
  <2> QED
    BY <2>1 DEF OrderInd, ReadInv
<1> QED
  BY <1>1, RealtimeInvariance, OrderInvariance, PTL

\* Once nobody is at work, a stored message whose request was not cut off can be
\* found, and each of the other three calls, the last message, Kafka and the room,
\* has been made or is in the log as failed: one that fails stops none of the
\* others, and last_message is older only than a message sent at the same time.
THEOREM StoredThenDelivered == RealtimeSpec => []StoredIsDelivered
<1>1. RoomInd /\ OrderInd => StoredIsDelivered
  <2> SUFFICES ASSUME RoomInd, OrderInd, AllDone, NEW m \in Reqs,
                      messages[m] # None, res[m] # "error"
               PROVE  /\ m \in byId
                      /\ <<m, "last">> \in lost \/ LastCovers(messages[m].conv, m)
                      /\ \/ <<m, "emit">> \in lost
                         \/ [kind |-> "send", msg |-> m] \in emitted
                      /\ <<m, "push">> \in lost \/ shown[m] # Unseen
    BY DEF StoredIsDelivered
  <2>1. /\ call[m].op = "send" /\ messages[m].conv = call[m].conv
        /\ CallInv(m) /\ FlowInv(m) /\ ViaInv(m) /\ SentInv(m) /\ LastInv(m)
        /\ res[m] \in Answers
    BY DEF RoomInd, OrderInd, Ind, RowInv, GoodCopy, TypeOK
  <2>2. res[m] = "ok"
    BY <2>1 DEF AllDone, CallInv, ViaInv, Answers
  <2>3. Offered(m)
    BY <2>1, <2>2 DEF Offered
  <2> QED
    BY <2>1, <2>2, <2>3 DEF FlowInv, SentInv, LastInv
<1> QED
  BY <1>1, RealtimeInvariance, OrderInvariance, PTL

-----------------------------------------------------------------------------
(* What the room shows *)

\* What is said of writers one after the other was said of them before.
LEMMA SerialBefore ==
    ASSUME RoomInd, NEW r \in Reqs, Apart(r), pc[r] # "done",
           call[r].op \in Writing => call'[r] = call[r],
           \A q \in Reqs : call[q].op \in Writing => met[q] \subseteq met'[q],
           NEW m \in Reqs
    PROVE  WritersOf(m) \subseteq WritersOf(m)' /\ (Serial(m)' => Serial(m))
<1>1. \A q \in Reqs : call[q].op \in Writing => call'[q] = call[q]
  BY DEF Apart
<1>2. WritersOf(m) \subseteq WritersOf(m)'
  BY <1>1 DEF WritersOf, Writing
<1>3. res[r] = "none"
  BY DEF RoomInd, Ind, CallInv
<1>4. \A q \in Reqs : res[q] = "error" => res'[q] = "error"
  BY <1>3 DEF Apart
<1>5. \A q \in WritersOf(m) : q \in Reqs
  BY DEF WritersOf
<1> QED
  BY <1>2, <1>4, <1>5 DEF Serial, WritersOf, Writing

\* Only one of them is at work.
LEMMA OneWriter ==
    ASSUME OrderInd, NEW m \in Reqs, Serial(m),
           NEW r \in WritersOf(m), NEW q \in WritersOf(m), {r, q} \subseteq Running
    PROVE  r = q
<1>1. r \in Reqs /\ q \in Reqs
  BY DEF WritersOf
<1>2. OverlapInv(r, q)
  BY <1>1 DEF OrderInd
<1> QED
  BY <1>2 DEF OverlapInv, Serial

\* The step leaves what the room may show of m as it is.
Same(m) ==
    /\ messages'[m] = None <=> messages[m] = None
    /\ messages[m] # None => /\ messages'[m].text = messages[m].text
                             /\ messages'[m].deleted = messages[m].deleted

\* A writer that is done has nothing to say but that its delete lasts.
Settled(q, m) ==
    /\ pc[q] = "done"
    /\ call[q].op = "delete" /\ res[q] = "ok" =>
          messages'[m] # None /\ messages'[m].deleted

LEMMA OtherWriter ==
    ASSUME RoomInd, NEW r \in Reqs, Apart(r), NEW q \in Reqs \ {r}, WriterInv(q),
           \A m \in Reqs : Serial(m)' => Serial(m),
           \A m \in Reqs : q \in WritersOf(m) /\ Serial(m) => Same(m) \/ Settled(q, m)
    PROVE  WriterInv(q)'
<1>1. pc'[q] = pc[q] /\ call'[q] = call[q] /\ res'[q] = res[q] /\ view'[q] = view[q]
  BY DEF Apart
<1>2. ASSUME NEW m \in Reqs, q \in WritersOf(m)', Serial(m)'
      PROVE  /\ pc'[q] = "update" /\ call'[q].op = "edit" => ~messages'[m].deleted
             /\ Unheard(q)' /\ call'[q].op # "delete" =>
                   messages'[m].text = view'[q].text /\ ~messages'[m].deleted
             /\ (Unheard(q)' \/ res'[q] = "ok") /\ call'[q].op = "delete" =>
                   messages'[m] # None /\ messages'[m].deleted
  <2>1. q \in WritersOf(m) /\ Serial(m) /\ call[q].msg = m
    BY <1>1, <1>2 DEF WritersOf
  <2>2. Same(m) \/ Settled(q, m)
    BY <2>1
  <2>3. pc[q] = "update" \/ Unheard(q) => messages[m] # None
    BY <2>1, About DEF RoomInd, Unheard
  <2> QED
    BY <1>1, <2>1, <2>2, <2>3 DEF WriterInv, Same, Settled, Unheard
<1> QED
  BY <1>1, <1>2 DEF WriterInv

LEMMA OtherShown ==
    ASSUME NEW r \in Reqs, Apart(r), NEW m \in Reqs, ShownInv(m),
           WritersOf(m) \subseteq WritersOf(m)', Serial(m)' => Serial(m), Same(m),
           shown'[m] = shown[m], lost \subseteq lost',
           r \in WritersOf(m) /\ Unheard(r) => Unheard(r)'
    PROVE  ShownInv(m)'
<1>1. SUFFICES ASSUME messages'[m] # None, Serial(m)',
                      \A q \in WritersOf(m)' : ~Unheard(q)' /\ <<q, "push">> \notin lost'
               PROVE  shown'[m] = Shows(m)'
  BY DEF ShownInv
<1>2. messages[m] # None /\ Serial(m) /\ Shows(m)' = Shows(m)
  BY <1>1 DEF Same, Shows
<1>3. \A q \in WritersOf(m) : ~Unheard(q) /\ <<q, "push">> \notin lost
  <2>1. ASSUME NEW q \in WritersOf(m), q # r
        PROVE  Unheard(q) => Unheard(q)'
    BY <2>1 DEF WritersOf, Apart, Unheard
  <2> QED
    BY <1>1, <2>1
<1> QED
  BY <1>2, <1>3 DEF ShownInv

\* A step of a request at work: what it must do for its own message.
LEMMA StepAgrees ==
    ASSUME RoomInd, AgreeInd, NEW r \in Reqs, Apart(r), pc[r] # "done",
           call[r].op \in Writing => call'[r] = call[r], lost \subseteq lost',
           \A q \in Reqs : call[q].op \in Writing => met[q] \subseteq met'[q],
           \A q \in Reqs \ {r}, m \in Reqs :
              q \in WritersOf(m) /\ Serial(m) => Same(m) \/ Settled(q, m),
           WriterInv(r)',
           \A m \in Reqs :
              \/ ShownInv(m)'
              \/ /\ Same(m) /\ shown'[m] = shown[m]
                 /\ r \in WritersOf(m) /\ Unheard(r) => Unheard(r)'
    PROVE  AgreeInd'
<1>1. \A m \in Reqs : WritersOf(m) \subseteq WritersOf(m)' /\ (Serial(m)' => Serial(m))
  BY SerialBefore
<1>2. \A q \in Reqs : WriterInv(q)'
  <2>1. ASSUME NEW q \in Reqs \ {r}
        PROVE  WriterInv(q)'
    BY <1>1, OtherWriter DEF AgreeInd
  <2> QED
    BY <2>1
<1>3. ASSUME NEW m \in Reqs
      PROVE  ShownInv(m)'
  <2>1. /\ WritersOf(m) \subseteq WritersOf(m)' /\ (Serial(m)' => Serial(m))
        /\ ShownInv(m)
    BY <1>1 DEF AgreeInd
  <2>2. CASE /\ Same(m) /\ shown'[m] = shown[m]
             /\ r \in WritersOf(m) /\ Unheard(r) => Unheard(r)'
    BY <2>1, <2>2, OtherShown
  <2>3. CASE ShownInv(m)'
    BY <2>3
  <2> QED
    BY <2>2, <2>3
<1> QED
  BY <1>2, <1>3 DEF AgreeInd

LEMMA ArriveAgrees ==
    ASSUME RoomInd, OrderInd, AgreeInd, NEW r \in Reqs, Arrives(r)
    PROVE  AgreeInd'
<1>1. /\ Ind /\ Takes(r) /\ Apart(r) /\ pc[r] = "idle" /\ call[r].op = "none"
      /\ messages' = messages /\ shown' = shown /\ lost' = lost
  BY ArriveTakes, ArriveFrame DEF Arrives, RoomInd, stores, brokers
<1>2. \A q \in Reqs : call[q].op \in Writing => met[q] \subseteq met'[q]
  BY <1>1 DEF Arrives, Meets, Writing
<1>3. WriterInv(r)'
  <2>1. /\ ~Unheard(r)' /\ res'[r] # "ok"
        /\ pc'[r] \in {"insert", "update"} => (view'[r].deleted <=> call'[r].op = "delete")
    BY <1>1 DEF Takes, Unheard
  <2>2. ASSUME NEW m \in Reqs, r \in WritersOf(m)', pc'[r] = "update", call'[r].op = "edit"
        PROVE  ~messages'[m].deleted
    BY <1>1, <2>2 DEF Takes, WritersOf
  <2> QED
    BY <2>1, <2>2 DEF WriterInv
<1>4. \A m \in Reqs : Same(m) /\ shown'[m] = shown[m] /\ r \notin WritersOf(m)
  BY <1>1 DEF Same, WritersOf
<1> QED
  BY <1>1, <1>2, <1>3, <1>4, StepAgrees DEF Writing

LEMMA StatementAgrees ==
    ASSUME RoomInd, OrderInd, AgreeInd, NEW r \in Reqs, Statement(r),
           UNCHANGED <<met, lost>>
    PROVE  AgreeInd'
<1>1. /\ Ind /\ TypeOK /\ CallInv(r) /\ FlowInv(r) /\ StampInv(r) /\ WriterInv(r)
      /\ Does(r) /\ Apart(r) /\ Advanced(r) /\ shown' = shown
  BY StatementDoes, StatementFrame DEF RoomInd, Ind, OrderInd, AgreeInd, Advanced
<1>2. PICK k \in Reqs :
         /\ k = call[r].msg /\ pc[r] \notin {"idle", "done"}
         /\ pc[r] # "insert" => messages[k] # None
         /\ pc[r] = "insert" => k = r
  BY <1>1, About DEF Advanced
<1>3. call[r].op \in Writing => call'[r] = call[r]
  BY <1>1 DEF Does, Writing
<1>4. CASE /\ pc[r] \in {"insert", "update"} /\ pc'[r] \in {"lookup", "emit"}
           /\ messages' = [messages EXCEPT ![k] = view[r]]
           /\ view[r] # None /\ view'[r] = view[r] /\ call'[r] = call[r]
  <2>1. call[r].op \in Writing /\ r \in WritersOf(k) /\ Unheard(r)'
    BY <1>1, <1>2, <1>4 DEF CallInv, Writing, WritersOf, Unheard
  <2>2. /\ messages'[k] = view[r]
        /\ view[r].deleted <=> call[r].op = "delete"
    BY <1>1, <1>2, <1>4 DEF TypeOK, WriterInv
  <2>3. \A m \in Reqs \ {k} : Same(m) /\ r \notin WritersOf(m)
    BY <1>1, <1>2, <1>4 DEF TypeOK, Same, WritersOf
  <2>4. ASSUME NEW q \in Reqs \ {r}, q \in WritersOf(k), Serial(k)
        PROVE  Settled(q, k)
    <3>1. pc[q] = "done"
      <4>1. q \notin Running
        BY <1>2, <2>1, <2>4, OneWriter DEF Running
      <4>2. call[q].op # "none"
        BY <2>4 DEF WritersOf
      <4> QED
        BY <4>1, <4>2 DEF Running, RoomInd, Ind, CallInv
    <3>2. ASSUME call[q].op = "delete", res[q] = "ok"
          PROVE  call[r].op = "delete"
      <4>1. messages[k] # None /\ messages[k].deleted
        BY <1>2, <2>4, <3>2 DEF AgreeInd, WriterInv
      <4>2. pc[r] = "update"
        BY <1>1, <1>2, <1>4, <4>1 DEF StampInv
      <4>3. call[r].op # "edit"
        BY <1>1, <1>2, <2>1, <2>4, <4>1, <4>2 DEF WriterInv
      <4> QED
        BY <1>1, <4>2, <4>3 DEF CallInv
    <3> QED
      BY <1>4, <2>2, <3>1, <3>2 DEF Settled
  <2>5. WriterInv(r)'
    <3>1. pc'[r] \notin {"insert", "update"}
      BY <1>4
    <3>2. ASSUME NEW m \in Reqs, r \in WritersOf(m)'
          PROVE  m = k
      BY <1>2, <1>4, <3>2 DEF WritersOf
    <3> QED
      BY <1>4, <2>2, <3>1, <3>2 DEF WriterInv
  <2>6. ShownInv(k)'
    <3>1. r \in WritersOf(k)'
      BY <1>2, <1>4, <2>1 DEF WritersOf
    <3> QED
      BY <2>1, <3>1 DEF ShownInv
  <2>7. \A q \in Reqs \ {r}, m \in Reqs :
           q \in WritersOf(m) /\ Serial(m) => Same(m) \/ Settled(q, m)
    BY <2>3, <2>4
  <2>8. \A m \in Reqs : ShownInv(m)' \/ (/\ Same(m) /\ shown'[m] = shown[m]
                                         /\ r \in WritersOf(m) /\ Unheard(r) =>
                                               Unheard(r)')
    BY <1>1, <2>3, <2>6
  <2> QED
    BY <1>1, <1>2, <1>3, <2>5, <2>7, <2>8, StepAgrees
<1>5. ASSUME \A m \in Reqs : Same(m), WriterInv(r)',
             call[r].op \notin Writing \/ (Unheard(r) => Unheard(r)')
      PROVE  AgreeInd'
  <2>1. \A m \in Reqs : r \in WritersOf(m) /\ Unheard(r) => Unheard(r)'
    BY <1>5 DEF WritersOf, Writing
  <2> QED
    BY <1>1, <1>2, <1>3, <1>5, <2>1, StepAgrees
<1>6. ASSUME pc'[r] \notin {"insert", "update"}, call'[r].op \notin Writing
      PROVE  WriterInv(r)'
  BY <1>6 DEF WriterInv, WritersOf, Writing
<1>7. CASE /\ pc[r] = "reactions" /\ call[r].op \in {"react", "unreact"}
           /\ call'[r] = call[r]
           /\ messages' = [messages EXCEPT ![k].reactions = view[r].reactions]
  <2>1. ASSUME NEW m \in Reqs
        PROVE  Same(m)
    <3>1. messages[k] \in Message
      BY <1>1, <1>2, <1>7 DEF TypeOK
    <3>2. [messages[k] EXCEPT !.reactions = view[r].reactions] # None
      <4>1. messages'[k] # None
        BY <1>1, <1>2, <1>7, StatementFrame DEF Grows
      <4> QED
        BY <1>1, <1>2, <1>7, <4>1 DEF TypeOK
    <3> QED
      BY <1>1, <1>2, <1>7, <3>1, <3>2 DEF TypeOK, Message, Same
  <2>2. pc'[r] \notin {"insert", "update"}
    BY <1>1, <1>7 DEF Does
  <2> QED
    BY <1>5, <1>6, <1>7, <2>1, <2>2 DEF Writing
<1>8. CASE messages' = messages /\ pc[r] \notin {"insert", "update"}
  <2>1. \A m \in Reqs : Same(m)
    BY <1>8 DEF Same
  <2>2. pc'[r] \notin {"insert", "update"}
    BY <1>1 DEF Does
  <2>3. CASE call[r].op \notin Writing
    <3>1. call'[r].op \notin Writing
      BY <1>1, <2>3 DEF Does, Writing
    <3> QED
      BY <1>5, <1>6, <2>1, <2>2, <2>3, <3>1
  <2>4. CASE call[r].op \in Writing /\ Unheard(r) /\ Unheard(r)' /\ view'[r] = view[r]
    <3>1. \A m \in Reqs : /\ r \in WritersOf(m)' => r \in WritersOf(m)
                          /\ Serial(m)' => Serial(m)
      BY <1>1, <1>2, <1>3, <2>4, SerialBefore DEF WritersOf
    <3>2. WriterInv(r)'
      BY <1>1, <1>3, <1>8, <2>2, <2>4, <3>1 DEF WriterInv
    <3> QED
      BY <1>5, <2>1, <2>4, <3>2
  <2>5. CASE call[r].op \in Writing /\ pc[r] = "unread" /\ pc'[r] \in {"unread", "done"}
    <3>1. call'[r].op = "send"
      BY <1>1, <1>3, <2>5 DEF CallInv
    <3>2. WriterInv(r)'
      BY <2>5, <3>1 DEF WriterInv, Unheard
    <3>3. ~Unheard(r)
      BY <2>5 DEF Unheard
    <3> QED
      BY <1>5, <2>1, <3>2, <3>3
  <2> QED
    BY <1>1, <1>8, <2>3, <2>4, <2>5 DEF Does, Writing
<1> QED
  BY <1>1, <1>2, <1>4, <1>7, <1>8 DEF Does

\* The room is told what is stored.
LEMMA PushAgrees ==
    ASSUME RoomInd, OrderInd, AgreeInd, NEW r \in Reqs, PushEvent(r),
           UNCHANGED <<met, lost>>
    PROVE  AgreeInd'
<1>1. /\ Ind /\ TypeOK /\ CallInv(r) /\ WriterInv(r) /\ Apart(r)
      /\ pc[r] = "push" /\ call' = call /\ messages' = messages
      /\ pc'[r] \in {"done", "unread"}
      /\ shown' = [shown EXCEPT ![call[r].msg] = Display(r)]
  BY PushFrame, PushDoes DEF RoomInd, Ind, AgreeInd, stores
<1>2. PICK k \in Reqs : k = call[r].msg /\ messages[k] # None
  BY <1>1, About
<1>3. \A m \in Reqs : Same(m)
  BY <1>1 DEF Same
<1>4. \A m \in Reqs : Serial(m)' => Serial(m)
  BY <1>1, SerialBefore
<1>5. WriterInv(r)'
  <2>1. \A m \in Reqs : r \in WritersOf(m)' => r \in WritersOf(m)
    BY <1>1 DEF WritersOf
  <2> QED
    BY <1>1, <1>4, <2>1 DEF WriterInv, Unheard
<1>6. ASSUME NEW m \in Reqs
      PROVE  ShownInv(m)' \/ (/\ Same(m) /\ shown'[m] = shown[m]
                              /\ r \in WritersOf(m) /\ Unheard(r) => Unheard(r)')
  <2>1. CASE m # k
    BY <1>1, <1>2, <1>3, <2>1 DEF WritersOf
  <2>2. CASE m = k /\ call[r].op \notin Writing
    BY <1>1, <1>2, <1>3, <2>2 DEF Display, Writing, WritersOf, TypeOK
  <2>3. CASE m = k /\ call[r].op \in Writing
    <3>1. SUFFICES ASSUME Serial(k)
                   PROVE  shown'[k] = Shows(k)'
      BY <1>4, <2>3 DEF ShownInv
    <3>2. r \in WritersOf(k)
      BY <1>2, <2>3 DEF WritersOf, Writing
    <3>3. shown'[k] = Display(r) /\ Shows(k)' = Shows(k)
      BY <1>1, <1>2 DEF TypeOK, Shows
    <3>4. Unheard(r)
      BY <1>1 DEF Unheard
    <3> QED
      BY <1>1, <1>2, <2>3, <3>1, <3>2, <3>3, <3>4 DEF WriterInv, Display, Shows, Writing
  <2> QED
    BY <2>1, <2>2, <2>3
<1> QED
  BY <1>1, <1>3, <1>5, <1>6, StepAgrees

\* A push that failed is in the log; the other calls tell the room nothing.
LEMMA FailsAgrees ==
    ASSUME RoomInd, OrderInd, AgreeInd, NEW r \in Reqs, Fails(r), UNCHANGED met
    PROVE  AgreeInd'
<1>1. /\ Ind /\ CallInv(r) /\ WriterInv(r) /\ Apart(r)
      /\ UNCHANGED <<messages, shown, call>> /\ lost' = lost \cup {<<r, pc[r]>>}
      /\ \/ /\ pc[r] \in {"last", "clear", "emit"}
            /\ pc'[r] \in {"emit", "push"} /\ view'[r] = view[r]
            /\ res'[r] = "none"
         \/ pc[r] = "push" /\ pc'[r] \in {"done", "unread"}
  BY FailsFrame DEF Fails, RoomInd, Ind, AgreeInd, stores, brokers, Ended
<1>2. \A m \in Reqs : Same(m) /\ shown'[m] = shown[m]
  BY <1>1 DEF Same
<1>3. \A m \in Reqs : /\ r \in WritersOf(m)' <=> r \in WritersOf(m)
                      /\ Serial(m)' => Serial(m)
  BY <1>1, SerialBefore DEF WritersOf
<1>4. r \in Reqs /\ \A m \in Reqs : r \in WritersOf(m) => call[r].op \in Writing
  BY DEF WritersOf, Writing
<1>5. CASE pc[r] \in {"last", "clear", "emit"}
  <2>1. /\ pc'[r] \in {"emit", "push"} /\ view'[r] = view[r] /\ res'[r] = "none"
        /\ call[r].op \in Writing => Unheard(r) /\ Unheard(r)'
    BY <1>1, <1>5 DEF CallInv, Writing, Unheard
  <2>2. WriterInv(r)'
    BY <1>1, <1>3, <1>4, <2>1 DEF WriterInv
  <2> QED
    BY <1>1, <1>2, <1>4, <2>1, <2>2, StepAgrees
<1>6. CASE pc[r] = "push" /\ pc'[r] \in {"done", "unread"}
  <2>1. Unheard(r) /\ ~Unheard(r)' /\ pc'[r] \notin {"insert", "update"}
    BY <1>6 DEF Unheard
  <2>2. WriterInv(r)'
    BY <1>1, <1>3, <2>1 DEF WriterInv
  <2>3. \A m \in Reqs : r \in WritersOf(m) => ShownInv(m)'
    BY <1>1, <1>3, <1>6 DEF ShownInv
  <2> QED
    BY <1>1, <1>2, <1>6, <2>2, <2>3, StepAgrees
<1> QED
  BY <1>1, <1>5, <1>6

\* Of a message whose writer was cut off nothing is said.
LEMMA AbandonAgrees ==
    ASSUME RoomInd, AgreeInd, NEW r \in Reqs, Abandon(r), UNCHANGED <<met, lost, members>>
    PROVE  AgreeInd'
<1>1. /\ Apart(r) /\ pc[r] # "done" /\ pc'[r] = "done" /\ res'[r] = "error"
      /\ UNCHANGED <<messages, shown, call>>
  BY AbandonFrame DEF RoomInd, stores, brokers
<1>2. \A m \in Reqs : Same(m) /\ shown'[m] = shown[m]
  BY <1>1 DEF Same
<1>3. \A m \in Reqs : r \in WritersOf(m)' => ~Serial(m)'
  BY <1>1 DEF Serial
<1>4. \A m \in Reqs : r \in WritersOf(m) => r \in WritersOf(m)'
  BY <1>1 DEF WritersOf
<1>5. WriterInv(r)'
  BY <1>1, <1>3 DEF WriterInv
<1>6. \A m \in Reqs : r \in WritersOf(m) => ShownInv(m)'
  BY <1>3, <1>4 DEF ShownInv
<1> QED
  BY <1>1, <1>2, <1>5, <1>6, StepAgrees

LEMMA RestAgrees ==
    ASSUME AgreeInd, Rests
    PROVE  AgreeInd'
  BY DEF AgreeInd, Rests, stores, brokers, WriterInv, ShownInv, WritersOf, Serial,
         Unheard, Shows

LEMMA InitAgrees == RealtimeInit => AgreeInd
  BY DEF RealtimeInit, Init, AgreeInd, WriterInv, ShownInv, WritersOf, NoCall

LEMMA NextAgrees ==
    RoomInd /\ OrderInd /\ AgreeInd /\ [RealtimeNext]_allVars => AgreeInd'
<1> SUFFICES ASSUME RoomInd, OrderInd, AgreeInd, [RealtimeNext]_allVars
             PROVE  AgreeInd'
  OBVIOUS
<1> QED
  BY Kinds, ArriveAgrees, StatementAgrees, PushAgrees, FailsAgrees, AbandonAgrees,
     RestAgrees DEF Onward, Quits

\* What writers and the room know of a message is true throughout.
THEOREM AgreeInvariance == RealtimeSpec => []AgreeInd
  BY RealtimeInvariance, OrderInvariance, InitAgrees, NextAgrees, PTL DEF RealtimeSpec

\* When the requests that changed a message did so one after the other, a message
\* that one of them deleted is deleted, and the room shows what is stored unless one
\* of their pushes failed and was logged.
THEOREM RoomShowsStored == RealtimeSpec => []RoomAgrees
<1>1. RoomInd /\ AgreeInd => RoomAgrees
  <2> SUFFICES ASSUME RoomInd, AgreeInd, AllDone, NEW m \in Reqs, messages[m] # None,
                      \A r \in Writers(m) : res[r] = "ok" /\ met[r] \cap Writers(m) = {}
               PROVE  /\ shown[m] = Shows(m) \/ \E r \in Writers(m) : <<r, "push">> \in lost
                      /\ \A r \in Writers(m) : call[r].op = "delete" =>
                            messages[m].deleted
    BY DEF RoomAgrees, Shows
  <2>1. WritersOf(m) = Writers(m)
    <3>1. ASSUME NEW r \in WritersOf(m)
          PROVE  res[r] \in {"ok", "error"}
      <4>1. /\ r \in Reqs /\ call[r].op # "none"
            /\ CallInv(r) /\ ViaInv(r) /\ res[r] \in Answers
        BY DEF WritersOf, RoomInd, Ind, TypeOK
      <4> QED
        BY <4>1 DEF AllDone, CallInv, ViaInv, Answers
    <3> QED
      BY <3>1 DEF WritersOf, Writers
  <2>2. Serial(m)
    BY <2>1 DEF Serial
  <2>3. \A r \in WritersOf(m) : ~Unheard(r)
    BY DEF AllDone, WritersOf, Unheard
  <2>4. shown[m] = Shows(m) \/ \E r \in Writers(m) : <<r, "push">> \in lost
    BY <2>1, <2>2, <2>3 DEF AgreeInd, ShownInv
  <2>5. ASSUME NEW r \in Writers(m), call[r].op = "delete"
        PROVE  messages[m].deleted
    <3>1. r \in Reqs /\ r \in WritersOf(m) /\ res[r] = "ok"
      BY <2>1 DEF Writers
    <3> QED
      BY <2>2, <2>5, <3>1 DEF AgreeInd, WriterInv
  <2> QED
    BY <2>4, <2>5
<1> QED
  BY <1>1, RealtimeInvariance, AgreeInvariance, PTL

=============================================================================
