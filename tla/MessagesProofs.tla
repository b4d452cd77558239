--------------------------- MODULE MessagesProofs ---------------------------
(***************************************************************************)
(* Proofs about Messages, for any users, conversations, emojis, requests   *)
(* and limits, with or without failures.  The lemmas do not ask that the   *)
(* participants stay, so that RealtimeProofs can use them.                 *)
(***************************************************************************)
EXTENDS Messages, FiniteSetTheorems, TLAPS

-----------------------------------------------------------------------------
(* The inductive invariant *)

\* No more emojis than allowed, and no more users of one.
Limited(reactions) ==
    /\ IsFiniteSet(Used(reactions)) /\ Cardinality(Used(reactions)) <= MaxEmojis
    /\ \A e \in Emojis : /\ IsFiniteSet(reactions[e])
                         /\ Cardinality(reactions[e]) <= MaxPerEmoji

\* A copy of message m, stored or in the memory of a request, however old: it is
\* its sender's, as far as the arguments k of the requests tell, it is not half
\* deleted, and its reactions are within the limits.
GoodCopy(m, copy, k) ==
    /\ copy.sender = k[m].by
    /\ copy.conv = k[m].conv
    /\ copy.text # None => /\ k[copy.text].op \in {"send", "edit"}
                           /\ k[copy.text].by = k[m].by
                           /\ k[copy.text].msg = m
    /\ copy.deleted => copy.text = None /\ ~copy.media
    /\ Limited(copy.reactions)

\* What kind of request is where, and which of its arguments are set.
CallInv(r) ==
    /\ pc[r] = "idle" => call[r].op = "none"
    /\ call[r].op # "none" => call[r].by \in Users /\ call[r].msg \in Reqs
    /\ call[r].op = "send" => call[r].msg = r /\ call[r].conv \in Convs
    /\ call[r].op \in {"react", "unreact"} => call[r].emoji \in Emojis
    /\ call[r].op = "read" => call[r].conv \in Convs
    /\ pc[r] \in {"insert", "lookup", "last", "unread"} => call[r].op = "send"
    /\ pc[r] = "update" => call[r].op \in {"edit", "delete"}
    /\ pc[r] \in {"reread", "reactions"} => call[r].op \in {"react", "unreact"}
    /\ pc[r] = "clear" => call[r].op = "read"
    /\ pc[r] \in {"emit", "push"} => call[r].op # "none"
    /\ pc[r] # "done" => res[r] = "none"
    /\ todo[r] # NoOne => call[r].op = "send"

\* What a request has in its memory, and what it has made sure of.
FlowInv(r) ==
    /\ pc[r] \in {"insert", "lookup", "last", "update", "reactions", "unread"} =>
          view[r] # None
    /\ pc[r] \in {"emit", "push"} /\ call[r].op \in {"send", "edit"} =>
          view[r] # None
    /\ view[r] # None =>
          /\ call[r].op # "none"
          /\ GoodCopy(call[r].msg, view[r], call)
          /\ call[call[r].msg].op = "send"
    /\ pc[r] \notin {"idle", "insert", "done"} => messages[call[r].msg] # None
    /\ pc[r] \in {"last", "emit", "push", "unread"} /\ call[r].op = "send" =>
          r \in byId
    /\ res[r] = "ok" /\ call[r].op = "send" => r \in byId
    /\ pc[r] = "reread" => call[r].msg \in byId

\* A stored message, and what a client shows of it.
RowInv(m) ==
    /\ messages[m] # None => /\ call[m].op = "send"
                             /\ GoodCopy(m, messages[m], call)
    /\ m \in byId => messages[m] # None
    /\ shown[m] # Unseen => messages[m] # None
    /\ shown[m] \in Reqs => /\ call[shown[m]].op \in {"send", "edit"}
                            /\ call[shown[m]].by = call[m].by

\* Kafka and last_message know of stored messages only.
KnownStored ==
    /\ \A ev \in emitted : messages[ev.msg] # None
    /\ \A c \in Convs : last[c] # None => messages[last[c].msg] # None

Ind ==
    /\ TypeOK
    /\ \A r \in Reqs : CallInv(r) /\ FlowInv(r) /\ RowInv(r)
    /\ KnownStored

-----------------------------------------------------------------------------
(* Copies of messages *)

\* The arguments k of the requests that matter for a copy have stayed.
LEMMA GoodCopyKept ==
    ASSUME NEW m, NEW copy, NEW k, NEW k2, GoodCopy(m, copy, k),
           k2[m] = k[m], copy.text # None => k2[copy.text] = k[copy.text]
    PROVE  GoodCopy(m, copy, k2)
  BY DEF GoodCopy

\* Nobody has reacted to a new message.
LEMMA LimitedAtFirst ==
    Limited([e \in Emojis |-> {}])
<1> DEFINE none == [e \in Emojis |-> {}]
<1>1. Used(none) = {}
  BY DEF Used
<1>2. \A e \in Emojis : none[e] = {}
  OBVIOUS
<1> HIDE DEF none
<1>3. Limited(none)
  BY <1>1, <1>2, FS_EmptySet, LimitsAssumption DEF Limited
<1> QED
  BY <1>3 DEF none

\* The domain's AddReaction keeps the limits on the copy it is applied to.
LEMMA LimitedAfterReact ==
    ASSUME NEW old \in [Emojis -> SUBSET Users], Limited(old),
           NEW e \in Emojis, NEW u, ReactVerdict(old, e, u) = "ok"
    PROVE  Limited([old EXCEPT ![e] = @ \cup {u}])
<1> DEFINE new == [old EXCEPT ![e] = @ \cup {u}]
<1>1. /\ u \notin old[e]
      /\ old[e] # {} => ~(Cardinality(old[e]) >= MaxPerEmoji)
      /\ old[e] = {} => ~(Cardinality(Used(old)) >= MaxEmojis)
  BY DEF ReactVerdict
<1>2. /\ IsFiniteSet(old[e] \cup {u})
      /\ Cardinality(old[e] \cup {u}) <= MaxPerEmoji
  <2>1. /\ IsFiniteSet(old[e] \cup {u})
        /\ Cardinality(old[e]) \in Nat
        /\ Cardinality(old[e] \cup {u}) = Cardinality(old[e]) + 1
    BY <1>1, FS_AddElement, FS_CardinalityType DEF Limited
  <2>2. CASE old[e] # {}
    BY <1>1, <2>1, <2>2, LimitsAssumption
  <2>3. CASE old[e] = {}
    BY <2>1, <2>3, FS_EmptySet, LimitsAssumption
  <2> QED
    BY <2>1, <2>2, <2>3
<1>3. \A x \in Emojis : new[x] = IF x = e THEN old[e] \cup {u} ELSE old[x]
  OBVIOUS
<1>4. Used(new) = Used(old) \cup {e}
  BY <1>3 DEF Used
<1> HIDE DEF new
<1>5. IsFiniteSet(Used(new)) /\ Cardinality(Used(new)) <= MaxEmojis
  <2>1. CASE old[e] # {}
    <3>1. Used(new) = Used(old)
      BY <1>4, <2>1 DEF Used
    <3> QED
      BY <3>1 DEF Limited
  <2>2. CASE old[e] = {}
    <3>1. e \notin Used(old)
      BY <2>2 DEF Used
    <3>2. /\ IsFiniteSet(Used(old) \cup {e})
          /\ Cardinality(Used(old)) \in Nat
          /\ Cardinality(Used(old) \cup {e}) = Cardinality(Used(old)) + 1
      BY <3>1, FS_AddElement, FS_CardinalityType DEF Limited
    <3> QED
      BY <1>1, <1>4, <2>2, <3>2, LimitsAssumption
  <2> QED
    BY <2>1, <2>2
<1>6. Limited(new)
  BY <1>2, <1>3, <1>5 DEF Limited
<1> QED
  BY <1>6 DEF new

\* So does RemoveReaction.
LEMMA LimitedAfterUnreact ==
    ASSUME NEW old \in [Emojis -> SUBSET Users], Limited(old),
           NEW e \in Emojis, NEW u
    PROVE  Limited(WithoutReaction(old, e, u))
<1> DEFINE new == WithoutReaction(old, e, u)
<1>1. \A x \in Emojis : new[x] \subseteq old[x]
  BY DEF WithoutReaction
<1>2. Used(new) \subseteq Used(old)
  BY <1>1 DEF Used
<1> HIDE DEF new
<1>3. /\ IsFiniteSet(Used(new)) /\ Cardinality(Used(new)) \in Nat
      /\ Cardinality(Used(old)) \in Nat
      /\ Cardinality(Used(new)) <= Cardinality(Used(old))
  BY <1>2, FS_Subset, FS_CardinalityType DEF Limited
<1>4. ASSUME NEW x \in Emojis
      PROVE  IsFiniteSet(new[x]) /\ Cardinality(new[x]) <= MaxPerEmoji
  <2>1. /\ IsFiniteSet(new[x]) /\ Cardinality(new[x]) \in Nat
        /\ Cardinality(old[x]) \in Nat
        /\ Cardinality(new[x]) <= Cardinality(old[x])
    BY <1>1, FS_Subset, FS_CardinalityType DEF Limited
  <2> QED
    BY <2>1, LimitsAssumption DEF Limited
<1>5. Limited(new)
  BY <1>3, <1>4, LimitsAssumption DEF Limited
<1> QED
  BY <1>5 DEF new

\* What edit and delete make of a copy is a copy just as good.
LEMMA EditedCopy ==
    ASSUME NEW m \in Reqs, NEW copy \in Message, NEW k, GoodCopy(m, copy, k),
           NEW text \in Texts, ~copy.deleted,
           text # None => /\ k[text].op \in {"send", "edit"}
                          /\ k[text].by = k[m].by
                          /\ k[text].msg = m
    PROVE  Edited(copy, text) \in Message /\ GoodCopy(m, Edited(copy, text), k)
  BY DEF Edited, Message, GoodCopy

LEMMA DeletedCopy ==
    ASSUME NEW m \in Reqs, NEW copy \in Message, NEW k, GoodCopy(m, copy, k)
    PROVE  Deleted(copy) \in Message /\ GoodCopy(m, Deleted(copy), k)
  BY DEF Deleted, Message, GoodCopy, Texts

\* Other reactions within the limits leave it as good as it was.
LEMMA ReactedCopy ==
    ASSUME NEW m \in Reqs, NEW copy \in Message, NEW k, GoodCopy(m, copy, k),
           NEW reactions \in [Emojis -> SUBSET Users], Limited(reactions)
    PROVE  /\ [copy EXCEPT !.reactions = reactions] \in Message
           /\ GoodCopy(m, [copy EXCEPT !.reactions = reactions], k)
  BY DEF Message, GoodCopy

\* A message is sent by its own sender.
LEMMA NewCopy ==
    ASSUME TypeOK, NEW r \in Reqs, NEW u \in Users, NEW c \in Convs, NEW type \in Types,
           NEW text \in {r, None}, NEW media, NEW k,
           k[r].op = "send", k[r].by = u, k[r].msg = r, k[r].conv = c
    PROVE  /\ NewMessage(u, c, type, text, media) \in Message
           /\ GoodCopy(r, NewMessage(u, c, type, text, media), k)
<1>1. NewMessage(u, c, type, text, media) \in Message
  BY DEF TypeOK, NewMessage, HasMedia, Message, Texts
<1>2. GoodCopy(r, NewMessage(u, c, type, text, media), k)
  BY LimitedAtFirst DEF NewMessage, GoodCopy
<1> QED
  BY <1>1, <1>2

-----------------------------------------------------------------------------
(* The frame of a step *)

\* A step of request r leaves the other requests alone.
Apart(r) ==
    \A q \in Reqs \ {r} :
        /\ pc'[q] = pc[q] /\ call'[q] = call[q] /\ res'[q] = res[q]
        /\ view'[q] = view[q] /\ todo'[q] = todo[q]

\* What is written to the tables stays, and so do the arguments of whoever wrote it.
Grows ==
    /\ \A q \in Reqs : call[q].op \in {"send", "edit"} => call'[q] = call[q]
    /\ \A m \in Reqs : messages[m] # None => messages'[m] # None
    /\ byId \subseteq byId'

\* A good copy remains one.
LEMMA GoodCopyStays ==
    ASSUME TypeOK, Grows, NEW m \in Reqs, NEW copy \in Message,
           GoodCopy(m, copy, call), call[m].op = "send"
    PROVE  GoodCopy(m, copy, call')
<1>1. copy.text # None => copy.text \in Reqs
  BY DEF Message, Texts
<1>2. copy.text # None => call'[copy.text] = call[copy.text]
  BY <1>1 DEF Grows, GoodCopy
<1>3. call'[m] = call[m]
  BY DEF Grows
<1> QED
  BY <1>2, <1>3, GoodCopyKept

\* What the other requests know remains true.
LEMMA OtherRequest ==
    ASSUME Ind, NEW r \in Reqs, Apart(r), Grows, NEW q \in Reqs \ {r}
    PROVE  CallInv(q)' /\ FlowInv(q)'
<1>1. TypeOK /\ CallInv(q) /\ FlowInv(q)
  BY DEF Ind
<1>2. /\ pc'[q] = pc[q] /\ call'[q] = call[q] /\ res'[q] = res[q]
      /\ view'[q] = view[q] /\ todo'[q] = todo[q]
  BY DEF Apart
<1>3. CallInv(q)'
  BY <1>1, <1>2 DEF CallInv
<1>4. view[q] # None => /\ GoodCopy(call[q].msg, view[q], call')
                        /\ call'[call[q].msg].op = "send"
  <2> SUFFICES ASSUME view[q] # None
               PROVE  /\ GoodCopy(call[q].msg, view[q], call')
                      /\ call'[call[q].msg].op = "send"
    OBVIOUS
  <2>1. call[q].msg \in Reqs /\ view[q] \in Message
    BY <1>1 DEF TypeOK, CallInv, FlowInv
  <2>2. GoodCopy(call[q].msg, view[q], call) /\ call[call[q].msg].op = "send"
    BY <1>1 DEF FlowInv
  <2> QED
    BY <1>1, <2>1, <2>2, GoodCopyStays DEF Grows
<1>5. pc[q] \notin {"idle", "insert", "done"} =>
         call[q].msg \in Reqs /\ messages'[call[q].msg] # None
  <2> SUFFICES ASSUME pc[q] \notin {"idle", "insert", "done"}
               PROVE  call[q].msg \in Reqs /\ messages'[call[q].msg] # None
    OBVIOUS
  <2>1. pc[q] \in {"lookup", "last", "update", "reread", "reactions", "clear",
                   "emit", "push", "unread"}
    BY <1>1 DEF TypeOK, PCs
  <2>2. call[q].msg \in Reqs
    BY <1>1, <2>1 DEF CallInv
  <2> QED
    BY <1>1, <2>2 DEF FlowInv, Grows
<1>6. FlowInv(q)'
  BY <1>1, <1>2, <1>4, <1>5 DEF FlowInv, Grows
<1> QED
  BY <1>3, <1>6

\* A stored message that is not written, and whose picture stays, is as good as it
\* was.
LEMMA OtherRow ==
    ASSUME Ind, Grows, NEW m \in Reqs, messages'[m] = messages[m],
           shown'[m] = shown[m], m \in byId' => m \in byId
    PROVE  RowInv(m)'
<1>1. TypeOK /\ RowInv(m)
  BY DEF Ind
<1>2. messages[m] # None => /\ call'[m].op = "send"
                            /\ GoodCopy(m, messages[m], call')
  BY <1>1, GoodCopyStays DEF TypeOK, RowInv, Grows
<1>3. shown[m] \in Reqs => /\ call'[shown[m]].op \in {"send", "edit"}
                           /\ call'[shown[m]].by = call'[m].by
  <2>1. shown[m] \in Reqs => messages[m] # None
    BY <1>1, ShownAssumption DEF RowInv, Texts
  <2> QED
    BY <1>1, <2>1 DEF RowInv, Grows
<1> QED
  BY <1>1, <1>2, <1>3 DEF RowInv

\* What nothing new is known of stays stored.
LEMMA KnownStays ==
    ASSUME Ind, Grows, emitted' = emitted, last' = last
    PROVE  KnownStored'
<1>1. /\ \A ev \in emitted : ev.msg \in Reqs /\ messages[ev.msg] # None
      /\ \A c \in Convs : last[c] # None =>
            last[c].msg \in Reqs /\ messages[last[c].msg] # None
  BY DEF Ind, KnownStored, TypeOK, LastMessage
<1> QED
  BY <1>1 DEF KnownStored, Grows

\* A step of r keeps the invariant if it keeps r's own part and the tables'.
LEMMA StepKeeps ==
    ASSUME Ind, NEW r \in Reqs, Apart(r), Grows, TypeOK',
           CallInv(r)', FlowInv(r)', \A m \in Reqs : RowInv(m)', KnownStored'
    PROVE  Ind'
<1>1. \A q \in Reqs : CallInv(q)' /\ FlowInv(q)'
  BY OtherRequest
<1> QED
  BY <1>1 DEF Ind

\* And one that writes no table and tells nobody keeps that of the tables.
LEMMA ReadingKeeps ==
    ASSUME Ind, NEW r \in Reqs, Apart(r), TypeOK', CallInv(r)', FlowInv(r)',
           \A q \in Reqs : call[q].op \in {"send", "edit"} => call'[q] = call[q],
           UNCHANGED <<messages, byId, last, brokers>>
    PROVE  Ind'
<1>1. Grows
  BY DEF Grows
<1>2. \A m \in Reqs : RowInv(m)'
  BY <1>1, OtherRow DEF brokers
<1>3. KnownStored'
  BY <1>1, KnownStays DEF brokers
<1> QED
  BY <1>1, <1>2, <1>3, StepKeeps

-----------------------------------------------------------------------------
(* A request ends *)

LEMMA NoOneType == NoOne \in [Users -> Nat]
  BY DEF NoOne

\* An answered request knows nothing any more.
LEMMA Ends ==
    ASSUME Ind, NEW r \in Reqs, NEW answer, answer # "none", Finish(r, answer),
           call'[r] \in {call[r], NoCall},
           answer = "ok" /\ call[r].op = "send" => r \in byId'
    PROVE  CallInv(r)' /\ FlowInv(r)'
<1>1. TypeOK /\ CallInv(r)
  BY DEF Ind
<1>2. /\ pc'[r] = "done" /\ res'[r] = answer
      /\ view'[r] = None /\ todo'[r] = NoOne
  BY <1>1 DEF Finish, TypeOK
<1>3. CallInv(r)'
  BY <1>1, <1>2 DEF CallInv, NoCall
<1>4. FlowInv(r)'
  BY <1>2 DEF FlowInv, NoCall
<1> QED
  BY <1>3, <1>4

\* A refusal forgets the request.
LEMMA RefuseKeeps ==
    ASSUME Ind, NEW r \in Reqs, pc[r] \in {"idle", "reread"}, Refuse(r),
           UNCHANGED <<stores, brokers, clock>>,
           members' \in [Convs -> [Users -> Nat]]
    PROVE  Ind'
<1>1. TypeOK /\ CallInv(r)
  BY DEF Ind
<1>2. Apart(r)
  BY <1>1 DEF Refuse, Finish, Apart, TypeOK
<1>3. TypeOK'
  <2>1. NoCall \in Call
    BY DEF NoCall, Call, Texts
  <2> QED
    BY <1>1, <2>1, NoOneType DEF Refuse, Finish, TypeOK, stores, brokers, Answers, PCs
<1>4. \A q \in Reqs : call[q].op \in {"send", "edit"} => call'[q] = call[q]
  BY <1>1, <1>2 DEF CallInv, Apart
<1>5. CallInv(r)' /\ FlowInv(r)'
  BY <1>1, Ends DEF Refuse, TypeOK
<1> QED
  BY <1>2, <1>3, <1>4, <1>5, ReadingKeeps DEF stores

\* A request is given up wherever it is: a call failed, the process stopped, or
\* nobody waits any longer.
Abandon(r) ==
    /\ pc[r] \notin {"idle", "done"}
    /\ Finish(r, "error")
    /\ UNCHANGED <<stores, brokers, clock, call>>

LEMMA AbandonKeeps ==
    ASSUME Ind, NEW r \in Reqs, Abandon(r), members' \in [Convs -> [Users -> Nat]]
    PROVE  Ind'
<1>1. TypeOK
  BY DEF Ind
<1>2. Apart(r)
  BY <1>1 DEF Abandon, Finish, Apart, TypeOK
<1>3. TypeOK'
  BY <1>1, NoOneType DEF Abandon, Finish, TypeOK, stores, brokers, Answers, PCs
<1>4. CallInv(r)' /\ FlowInv(r)'
  BY <1>1, Ends DEF Abandon
<1> QED
  BY <1>2, <1>3, <1>4, ReadingKeeps DEF Abandon, stores

\* Nothing more to count: a request leaves the room with "ok", or goes on counting.
LEMMA Leaves ==
    ASSUME Ind, NEW r \in Reqs, pc[r] = "push", Leave(r), call' = call,
           messages' = messages, byId' = byId
    PROVE  /\ Apart(r) /\ CallInv(r)' /\ FlowInv(r)'
           /\ pc' \in [Reqs -> PCs] /\ res' \in [Reqs -> Answers]
           /\ view' \in [Reqs -> Message \cup {None}] /\ todo' \in [Reqs -> [Users -> Nat]]
<1>1. TypeOK /\ CallInv(r) /\ FlowInv(r)
  BY DEF Ind
<1>2. CASE todo[r] # NoOne /\ Goto(r, "unread")
  <2>1. /\ pc' = [pc EXCEPT ![r] = "unread"]
        /\ UNCHANGED <<res, view, todo>> /\ call[r].op = "send"
    BY <1>1, <1>2 DEF Goto, CallInv
  <2> QED
    BY <1>1, <2>1 DEF Apart, TypeOK, PCs, CallInv, FlowInv
<1>3. CASE todo[r] = NoOne /\ Finish(r, "ok")
  <2>1. CallInv(r)' /\ FlowInv(r)'
    BY <1>1, <1>3, Ends DEF FlowInv
  <2> QED
    BY <1>1, <1>3, <2>1 DEF Finish, Apart, TypeOK, PCs, Answers
<1> QED
  BY <1>2, <1>3 DEF Leave
-----------------------------------------------------------------------------
(* A request arrives *)

\* An accepted request starts with a copy that is good, or with none.
LEMMA AcceptKeeps ==
    ASSUME Ind, NEW r \in Reqs, pc[r] = "idle", NEW k \in Call, NEW next \in PCs,
           call' = [call EXCEPT ![r] = k], pc' = [pc EXCEPT ![r] = next],
           view' \in [Reqs -> Message \cup {None}],
           \A q \in Reqs \ {r} : view'[q] = view[q],
           todo' \in [Reqs -> [Users -> Nat]],
           \A q \in Reqs \ {r} : todo'[q] = todo[q],
           res' = res, clock' \in Nat, members' \in [Convs -> [Users -> Nat]],
           UNCHANGED <<stores, brokers>>,
           CallInv(r)', FlowInv(r)'
    PROVE  Ind'
<1>1. TypeOK /\ CallInv(r)
  BY DEF Ind
<1>2. Apart(r)
  BY <1>1 DEF Apart, TypeOK
<1>3. TypeOK'
  BY <1>1 DEF TypeOK, stores, brokers
<1>4. \A q \in Reqs : call[q].op \in {"send", "edit"} => call'[q] = call[q]
  BY <1>1, <1>2 DEF CallInv, Apart
<1> QED
  BY <1>2, <1>3, <1>4, ReadingKeeps DEF stores

\* The message that FindByID finds.
LEMMA Found ==
    ASSUME Ind, NEW id \in Reqs, FindByID(id) # None
    PROVE  /\ FindByID(id) = messages[id] /\ messages[id] \in Message
           /\ id \in byId
           /\ messages[id] # None /\ call[id].op = "send"
           /\ GoodCopy(id, messages[id], call)
  BY DEF Ind, TypeOK, RowInv, FindByID

LEMMA SendMessageKeeps ==
    ASSUME Ind, NEW r \in Reqs, SendMessage(r), members' \in [Convs -> [Users -> Nat]]
    PROVE  Ind'
<1>1. /\ TypeOK /\ CallInv(r) /\ pc[r] = "idle" /\ UNCHANGED <<stores, brokers>>
  BY DEF Ind, SendMessage
<1>2. CASE Refuse(r) /\ UNCHANGED clock
  BY <1>1, <1>2, RefuseKeeps
<1>3. PICK u \in Users, c \in Convs \cup {None}, allowed \in BOOLEAN,
           type \in Types, text \in {r, None}, long \in BOOLEAN, media \in Media :
        SendMessage(r)!3!(u, c, allowed, type, text, long, media)
  BY DEF SendMessage
<1> DEFINE verdict == SendVerdict(u, c, allowed,
                        Validate(type, text # None, long, media # "none"))
<1>4. CASE verdict = "ok"
  <2> DEFINE k == [NoCall EXCEPT !.op = "send", !.by = u,
                     !.conv = c, !.msg = r, !.text = text]
  <2>1. c \in Convs
    BY <1>4 DEF SendVerdict
  <2> HIDE DEF verdict
  <2>step. /\ call' = [call EXCEPT ![r] = k]
        /\ pc' = [pc EXCEPT ![r] = "insert"]
        /\ view' = [view EXCEPT ![r] = NewMessage(u, c, type, text, media)]
        /\ todo' = [todo EXCEPT ![r] = [members[c] EXCEPT ![u] = 0]]
        /\ clock' = clock + 1 /\ res' = res
    BY <1>3, <1>4 DEF verdict
  <2>2. k \in Call
    BY <2>1 DEF NoCall, Call, AllOps, Texts
  <2>3. /\ k.op = "send" /\ k.by = u /\ k.conv = c /\ k.msg = r
    BY DEF NoCall
  <2> HIDE DEF k
  <2>4. call' = [call EXCEPT ![r] = k] /\ call'[r] = k
    BY <1>1, <2>step DEF TypeOK
  <2>5. /\ NewMessage(u, c, type, text, media) \in Message
        /\ GoodCopy(r, NewMessage(u, c, type, text, media), call')
    BY <1>1, <2>1, <2>3, <2>4, NewCopy
  <2>6. CallInv(r)'
    BY <1>1, <2>step, <2>1, <2>3, <2>4 DEF CallInv, TypeOK
  <2>7. FlowInv(r)'
    <3>1. view'[r] = NewMessage(u, c, type, text, media) /\ pc'[r] = "insert"
      BY <1>1, <2>step DEF TypeOK
    <3>2. res'[r] # "ok" /\ view'[r] # None
      BY <1>1, <2>step, <2>5, <3>1, NoMessageAssumption DEF CallInv
    <3> QED
      BY <2>3, <2>4, <2>5, <3>1, <3>2 DEF FlowInv
  <2>8. /\ view' \in [Reqs -> Message \cup {None}]
        /\ \A q \in Reqs \ {r} : view'[q] = view[q]
        /\ todo' \in [Reqs -> [Users -> Nat]]
        /\ \A q \in Reqs \ {r} : todo'[q] = todo[q]
        /\ clock' \in Nat /\ res' = res
    BY <1>1, <2>step, <2>1, <2>5 DEF TypeOK
  <2> QED
    BY <1>1, <2>step, <2>2, <2>4, <2>6, <2>7, <2>8, AcceptKeeps DEF PCs
<1>5. CASE verdict # "ok"
  BY <1>2, <1>3, <1>5
<1> QED
  BY <1>4, <1>5

LEMMA EditMessageKeeps ==
    ASSUME Ind, NEW r \in Reqs, EditMessage(r), members' \in [Convs -> [Users -> Nat]]
    PROVE  Ind'
<1>1. /\ TypeOK /\ CallInv(r) /\ pc[r] = "idle" /\ UNCHANGED <<stores, brokers, clock>>
  BY DEF Ind, EditMessage
<1>2. CASE Refuse(r)
  BY <1>1, <1>2, RefuseKeeps
<1>3. CASE ~Refuse(r)
  <2>1. PICK u \in Users, id \in Reqs, text \in {r, None}, long \in BOOLEAN :
           /\ EditVerdict(FindByID(id), u, long) = "ok"
           /\ GotoWith(r, "update", Edited(FindByID(id), text))
           /\ call' = [call EXCEPT ![r] = [Asks("edit", u, id) EXCEPT !.text = text]]
    BY <1>3 DEF EditMessage
  <2> DEFINE k == [Asks("edit", u, id) EXCEPT !.text = text]
  <2>2. k \in Call
    BY DEF NoCall, Call, AllOps, Texts, Asks
  <2>3. k.op = "edit" /\ k.by = u /\ k.msg = id
    BY DEF NoCall, Asks
  <2>4. call' = [call EXCEPT ![r] = k] /\ call'[r] = k
    BY <1>1, <2>1 DEF TypeOK
  <2> HIDE DEF k
  <2>5. /\ FindByID(id) = messages[id] /\ messages[id] \in Message
        /\ call[id].op = "send" /\ GoodCopy(id, messages[id], call)
        /\ messages[id] # None /\ messages[id].sender = u /\ ~messages[id].deleted
    BY <2>1, Found DEF EditVerdict
  <2>6. GoodCopy(id, messages[id], call') /\ call'[id] = call[id]
    <3>1. id # r
      BY <1>1, <2>5 DEF CallInv
    <3>2. messages[id].text # None => call'[messages[id].text] = call[messages[id].text]
      BY <1>1, <2>4, <2>5 DEF GoodCopy, CallInv, TypeOK
    <3> QED
      BY <1>1, <2>4, <2>5, <3>1, <3>2, GoodCopyKept DEF TypeOK
  <2>7. Edited(messages[id], text) \in Message /\ GoodCopy(id, Edited(messages[id], text), call')
    <3>1. text \in Texts
      BY DEF Texts
    <3>2. call'[id].by = u
      BY <2>5, <2>6 DEF GoodCopy
    <3>3. text # None => /\ call'[text].op \in {"send", "edit"}
                         /\ call'[text].by = call'[id].by
                         /\ call'[text].msg = id
      BY <2>3, <2>4, <3>2
    <3> QED
      BY <2>5, <2>6, <3>1, <3>3, EditedCopy
  <2>8. /\ view' = [view EXCEPT ![r] = Edited(messages[id], text)]
        /\ pc' = [pc EXCEPT ![r] = "update"] /\ res' = res /\ todo' = todo
        /\ view'[r] = Edited(messages[id], text) /\ pc'[r] = "update"
    BY <1>1, <2>1, <2>5 DEF GotoWith, TypeOK
  <2>9. CallInv(r)'
    BY <1>1, <2>3, <2>4, <2>8 DEF CallInv
  <2>10. FlowInv(r)'
    BY <1>1, <2>3, <2>4, <2>5, <2>6, <2>7, <2>8, NoMessageAssumption
       DEF FlowInv, CallInv, stores
  <2>11. /\ view' \in [Reqs -> Message \cup {None}]
         /\ \A q \in Reqs \ {r} : view'[q] = view[q]
         /\ todo' \in [Reqs -> [Users -> Nat]]
         /\ \A q \in Reqs \ {r} : todo'[q] = todo[q]
         /\ clock' \in Nat
    BY <1>1, <2>7, <2>8 DEF TypeOK
  <2> QED
    BY <1>1, <2>2, <2>4, <2>8, <2>9, <2>10, <2>11, AcceptKeeps DEF PCs
<1> QED
  BY <1>2, <1>3

LEMMA DeleteMessageKeeps ==
    ASSUME Ind, NEW r \in Reqs, DeleteMessage(r), members' \in [Convs -> [Users -> Nat]]
    PROVE  Ind'
<1>1. /\ TypeOK /\ CallInv(r) /\ pc[r] = "idle" /\ UNCHANGED <<stores, brokers, clock>>
  BY DEF Ind, DeleteMessage
<1>2. CASE Refuse(r)
  BY <1>1, <1>2, RefuseKeeps
<1>3. CASE ~Refuse(r)
  <2>1. PICK u \in Users, id \in Reqs :
           /\ DeleteVerdict(FindByID(id), u) = "ok"
           /\ GotoWith(r, "update", Deleted(FindByID(id)))
           /\ call' = [call EXCEPT ![r] = Asks("delete", u, id)]
    BY <1>3 DEF DeleteMessage
  <2> DEFINE k == Asks("delete", u, id)
  <2>2. k \in Call
    BY DEF NoCall, Call, AllOps, Texts, Asks
  <2>3. k.op = "delete" /\ k.by = u /\ k.msg = id
    BY DEF NoCall, Asks
  <2>4. call' = [call EXCEPT ![r] = k] /\ call'[r] = k
    BY <1>1, <2>1 DEF TypeOK
  <2> HIDE DEF k
  <2>5. /\ FindByID(id) = messages[id] /\ messages[id] \in Message
        /\ call[id].op = "send" /\ GoodCopy(id, messages[id], call)
        /\ messages[id] # None
    BY <2>1, Found DEF DeleteVerdict
  <2>6. GoodCopy(id, messages[id], call') /\ call'[id] = call[id]
    <3>1. id # r
      BY <1>1, <2>5 DEF CallInv
    <3>2. messages[id].text # None => call'[messages[id].text] = call[messages[id].text]
      BY <1>1, <2>4, <2>5 DEF GoodCopy, CallInv, TypeOK
    <3> QED
      BY <1>1, <2>4, <2>5, <3>1, <3>2, GoodCopyKept DEF TypeOK
  <2>7. Deleted(messages[id]) \in Message /\ GoodCopy(id, Deleted(messages[id]), call')
    BY <2>5, <2>6, DeletedCopy
  <2>8. /\ view' = [view EXCEPT ![r] = Deleted(messages[id])]
        /\ pc' = [pc EXCEPT ![r] = "update"] /\ res' = res /\ todo' = todo
        /\ view'[r] = Deleted(messages[id]) /\ pc'[r] = "update"
    BY <1>1, <2>1, <2>5 DEF GotoWith, TypeOK
  <2>9. CallInv(r)'
    BY <1>1, <2>3, <2>4, <2>8 DEF CallInv
  <2>10. FlowInv(r)'
    BY <1>1, <2>3, <2>4, <2>5, <2>6, <2>7, <2>8, NoMessageAssumption
       DEF FlowInv, CallInv, stores
  <2>11. /\ view' \in [Reqs -> Message \cup {None}]
         /\ \A q \in Reqs \ {r} : view'[q] = view[q]
         /\ todo' \in [Reqs -> [Users -> Nat]]
         /\ \A q \in Reqs \ {r} : todo'[q] = todo[q]
         /\ clock' \in Nat
    BY <1>1, <2>7, <2>8 DEF TypeOK
  <2> QED
    BY <1>1, <2>2, <2>4, <2>8, <2>9, <2>10, <2>11, AcceptKeeps DEF PCs
<1> QED
  BY <1>2, <1>3

\* Requests that go on with nothing in memory.
LEMMA GoesOn ==
    ASSUME Ind, NEW r \in Reqs, pc[r] = "idle", NEW k \in Call,
           call' = [call EXCEPT ![r] = k], k.by \in Users, k.msg \in Reqs,
           messages[k.msg] # None, k.msg \in byId,
           NEW next,
           \/ next = "reread" /\ k.op \in {"react", "unreact"} /\ k.emoji \in Emojis
           \/ next = "clear" /\ k.op = "read" /\ k.conv \in Convs,
           Goto(r, next), UNCHANGED <<stores, brokers, clock>>,
           members' \in [Convs -> [Users -> Nat]]
    PROVE  Ind'
<1>1. TypeOK /\ CallInv(r) /\ FlowInv(r) /\ next \in PCs
  BY DEF Ind, PCs
<1>2. /\ call'[r] = k /\ pc'[r] = next /\ view' = view /\ todo' = todo /\ res' = res
      /\ pc' = [pc EXCEPT ![r] = next] /\ messages' = messages /\ byId' = byId
  BY <1>1 DEF Goto, TypeOK, stores
<1>3. CallInv(r)'
  BY <1>1, <1>2 DEF CallInv
<1>4. FlowInv(r)'
  BY <1>1, <1>2 DEF FlowInv, CallInv
<1>5. /\ view' \in [Reqs -> Message \cup {None}]
      /\ todo' \in [Reqs -> [Users -> Nat]] /\ clock' \in Nat
  BY <1>1, <1>2 DEF TypeOK
<1> QED
  BY <1>1, <1>2, <1>3, <1>4, <1>5, AcceptKeeps

LEMMA ReactKeeps ==
    ASSUME Ind, NEW r \in Reqs, NEW op \in {"react", "unreact"}, React(r, op),
           members' \in [Convs -> [Users -> Nat]]
    PROVE  Ind'
<1>1. /\ TypeOK /\ pc[r] = "idle" /\ UNCHANGED <<stores, brokers, clock>>
  BY DEF Ind, React
<1>2. CASE Refuse(r)
  BY <1>1, <1>2, RefuseKeeps
<1>3. CASE ~Refuse(r)
  <2>1. PICK u \in Users, id \in Reqs, e \in Emojis :
           /\ ReactionVerdict(FindByID(id), op, u) = "ok"
           /\ Goto(r, "reread")
           /\ call' = [call EXCEPT ![r] = [Asks(op, u, id) EXCEPT !.emoji = e]]
    BY <1>3 DEF React
  <2> DEFINE k == [Asks(op, u, id) EXCEPT !.emoji = e]
  <2>2. /\ k \in Call /\ k.op = op /\ k.by = u /\ k.msg = id /\ k.emoji = e
    BY DEF NoCall, Call, AllOps, Texts, Asks
  <2>3. messages[id] # None /\ id \in byId
    BY <2>1, Found DEF ReactionVerdict
  <2> HIDE DEF k
  <2>4. call' = [call EXCEPT ![r] = k]
    BY <2>1 DEF k
  <2> QED
    BY <1>1, <2>1, <2>2, <2>3, <2>4, GoesOn
<1> QED
  BY <1>2, <1>3

LEMMA MarkAsReadKeeps ==
    ASSUME Ind, NEW r \in Reqs, MarkAsRead(r), members' \in [Convs -> [Users -> Nat]]
    PROVE  Ind'
<1>1. /\ TypeOK /\ pc[r] = "idle" /\ UNCHANGED <<stores, brokers, clock>>
  BY DEF Ind, MarkAsRead
<1>2. CASE Refuse(r)
  BY <1>1, <1>2, RefuseKeeps
<1>3. CASE ~Refuse(r)
  <2>1. PICK u \in Users, id \in Reqs, c \in Convs :
           /\ ReadVerdict(FindByID(id), c, u) = "ok"
           /\ Goto(r, "clear")
           /\ call' = [call EXCEPT ![r] = [Asks("read", u, id) EXCEPT !.conv = c]]
    BY <1>3 DEF MarkAsRead
  <2> DEFINE k == [Asks("read", u, id) EXCEPT !.conv = c]
  <2>2. /\ k \in Call /\ k.op = "read" /\ k.by = u /\ k.msg = id /\ k.conv = c
    BY DEF NoCall, Call, AllOps, Texts, Asks
  <2>3. messages[id] # None /\ id \in byId
    BY <2>1, Found DEF ReadVerdict
  <2> HIDE DEF k
  <2>4. call' = [call EXCEPT ![r] = k]
    BY <2>1 DEF k
  <2> QED
    BY <1>1, <2>1, <2>2, <2>3, <2>4, GoesOn
<1> QED
  BY <1>2, <1>3

-----------------------------------------------------------------------------
(* The steps of a request *)

\* A request moves on with what it has.
LEMMA Moves ==
    ASSUME Ind, NEW r \in Reqs, NEW next \in PCs, Goto(r, next), call' = call
    PROVE  /\ Apart(r) /\ pc'[r] = next
           /\ res' = res /\ view' = view /\ todo' = todo
           /\ pc' \in [Reqs -> PCs]
  BY DEF Ind, TypeOK, Goto, Apart

\* A row that was written with a good copy.
LEMMA WrittenRow ==
    ASSUME Ind, NEW m \in Reqs, NEW copy \in Message, GoodCopy(m, copy, call),
           call[m].op = "send", messages'[m] = copy, call' = call,
           shown'[m] = shown[m]
    PROVE  RowInv(m)'
  BY NoMessageAssumption DEF Ind, RowInv

\* A write of one row by a request that goes on to next.
LEMMA WriteKeeps ==
    ASSUME Ind, NEW r \in Reqs, NEW m \in Reqs, NEW copy \in Message,
           GoodCopy(m, copy, call), call[m].op = "send",
           messages' = [messages EXCEPT ![m] = copy],
           NEW next \in PCs, Goto(r, next), CallInv(r)', FlowInv(r)',
           UNCHANGED <<byId, last, unread, brokers, clock, call>>,
           members' \in [Convs -> [Users -> Nat]]
    PROVE  Ind'
<1>1. TypeOK
  BY DEF Ind
<1>2. /\ messages'[m] = copy /\ copy # None
      /\ \A x \in Reqs \ {m} : messages'[x] = messages[x]
  BY <1>1, NoMessageAssumption DEF TypeOK
<1>3. Apart(r) /\ pc' \in [Reqs -> PCs] /\ UNCHANGED <<res, view, todo>>
  BY Moves
<1>4. Grows
  BY <1>2 DEF Grows
<1>5. TypeOK'
  BY <1>1, <1>3 DEF TypeOK, brokers
<1>6. \A x \in Reqs : RowInv(x)'
  <2>1. RowInv(m)'
    BY <1>2, WrittenRow DEF brokers
  <2>2. ASSUME NEW x \in Reqs \ {m}
        PROVE  RowInv(x)'
    BY <1>2, <1>4, <2>2, OtherRow DEF brokers
  <2> QED
    BY <2>1, <2>2
<1>7. KnownStored'
  BY <1>4, KnownStays DEF brokers
<1> QED
  BY <1>3, <1>4, <1>5, <1>6, <1>7, StepKeeps

LEMMA InsertMessageKeeps ==
    ASSUME Ind, NEW r \in Reqs, InsertMessage(r), members' \in [Convs -> [Users -> Nat]]
    PROVE  Ind'
<1>1. TypeOK /\ CallInv(r) /\ FlowInv(r)
  BY DEF Ind
<1>2. /\ call[r].op = "send" /\ call[r].msg = r /\ view[r] \in Message
      /\ GoodCopy(r, view[r], call) /\ view[r] # None
  BY <1>1 DEF InsertMessage, CallInv, FlowInv, TypeOK
<1>3. /\ Goto(r, "lookup") /\ call' = call
      /\ messages' = [messages EXCEPT ![r] = view[r]] /\ pc[r] = "insert"
      /\ "lookup" \in PCs
  BY DEF InsertMessage, PCs
<1>4. pc'[r] = "lookup" /\ UNCHANGED <<res, view, todo>> /\ messages'[r] # None
  BY <1>1, <1>2, <1>3, Moves DEF TypeOK
<1>5. CallInv(r)'
  BY <1>1, <1>3, <1>4 DEF CallInv
<1>6. FlowInv(r)'
  BY <1>1, <1>2, <1>3, <1>4 DEF FlowInv, CallInv
<1> QED
  BY <1>2, <1>3, <1>5, <1>6, WriteKeeps DEF InsertMessage

LEMMA UpdateMessageKeeps ==
    ASSUME Ind, NEW r \in Reqs, UpdateMessage(r), members' \in [Convs -> [Users -> Nat]]
    PROVE  Ind'
<1>1. TypeOK /\ CallInv(r) /\ FlowInv(r)
  BY DEF Ind
<1>2. /\ call[r].op \in {"edit", "delete"} /\ call[r].msg \in Reqs
      /\ view[r] \in Message /\ view[r] # None
      /\ GoodCopy(call[r].msg, view[r], call) /\ call[call[r].msg].op = "send"
  BY <1>1 DEF UpdateMessage, CallInv, FlowInv, TypeOK
<1>3. /\ Goto(r, "emit") /\ call' = call
      /\ messages' = [messages EXCEPT ![call[r].msg] = view[r]] /\ pc[r] = "update"
      /\ "emit" \in PCs
  BY DEF UpdateMessage, PCs
<1>4. pc'[r] = "emit" /\ UNCHANGED <<res, view, todo>> /\ messages'[call[r].msg] # None
  BY <1>1, <1>2, <1>3, Moves DEF TypeOK
<1>5. CallInv(r)'
  BY <1>1, <1>2, <1>3, <1>4 DEF CallInv
<1>6. FlowInv(r)'
  BY <1>1, <1>2, <1>3, <1>4 DEF FlowInv, CallInv
<1> QED
  BY <1>2, <1>3, <1>5, <1>6, WriteKeeps DEF UpdateMessage

LEMMA WriteReactionsKeeps ==
    ASSUME Ind, NEW r \in Reqs, WriteReactions(r), members' \in [Convs -> [Users -> Nat]]
    PROVE  Ind'
<1> DEFINE m == call[r].msg
           copy == [messages[m] EXCEPT !.reactions = view[r].reactions]
<1>1. TypeOK /\ CallInv(r) /\ FlowInv(r)
  BY DEF Ind
<1>2. /\ call[r].op \in {"react", "unreact"} /\ m \in Reqs /\ messages[m] # None
      /\ view[r] \in Message
      /\ GoodCopy(m, view[r], call) /\ call[m].op = "send"
  BY <1>1 DEF WriteReactions, CallInv, FlowInv, TypeOK
<1>3. messages[m] \in Message /\ GoodCopy(m, messages[m], call)
  BY <1>1, <1>2 DEF Ind, TypeOK, RowInv
<1>4. copy \in Message /\ GoodCopy(m, copy, call)
  <2>1. view[r].reactions \in [Emojis -> SUBSET Users] /\ Limited(view[r].reactions)
    BY <1>2 DEF Message, GoodCopy
  <2> QED
    BY <1>2, <1>3, <2>1, ReactedCopy
<1>5. /\ Goto(r, "emit") /\ call' = call
      /\ messages' = [messages EXCEPT ![m] = copy] /\ pc[r] = "reactions"
      /\ "emit" \in PCs
  BY DEF WriteReactions, PCs
<1> HIDE DEF copy
<1>6. pc'[r] = "emit" /\ UNCHANGED <<res, view, todo>> /\ messages'[m] # None
  BY <1>1, <1>2, <1>4, <1>5, Moves, NoMessageAssumption DEF TypeOK
<1>7. CallInv(r)'
  BY <1>1, <1>2, <1>5, <1>6 DEF CallInv
<1>8. FlowInv(r)'
  BY <1>1, <1>2, <1>5, <1>6 DEF FlowInv, CallInv
<1> QED
  BY <1>2, <1>4, <1>5, <1>7, <1>8, WriteKeeps DEF WriteReactions

LEMMA IndexMessageKeeps ==
    ASSUME Ind, NEW r \in Reqs, IndexMessage(r), members' \in [Convs -> [Users -> Nat]]
    PROVE  Ind'
<1>1. TypeOK /\ CallInv(r) /\ FlowInv(r)
  BY DEF Ind
<1>2. /\ pc[r] = "lookup" /\ byId' = byId \cup {r} /\ Goto(r, "last")
      /\ UNCHANGED <<messages, last, unread, brokers, clock, call>> /\ "last" \in PCs
  BY DEF IndexMessage, PCs
<1>3. call[r].op = "send" /\ call[r].msg = r /\ messages[r] # None
  BY <1>1, <1>2 DEF CallInv, FlowInv
<1>4. /\ Apart(r) /\ pc'[r] = "last" /\ pc' \in [Reqs -> PCs]
      /\ UNCHANGED <<res, view, todo>>
  BY <1>2, Moves
<1>5. Grows
  BY <1>2 DEF Grows
<1>6. TypeOK'
  BY <1>1, <1>2, <1>4 DEF TypeOK, brokers
<1>7. CallInv(r)'
  BY <1>1, <1>2, <1>3, <1>4 DEF CallInv
<1>8. FlowInv(r)'
  BY <1>1, <1>2, <1>3, <1>4 DEF FlowInv
<1>9. \A m \in Reqs : RowInv(m)'
  <2>1. ASSUME NEW m \in Reqs \ {r}
        PROVE  RowInv(m)'
    BY <1>2, <1>5, OtherRow DEF brokers
  <2>2. RowInv(r)'
    BY <1>2, <1>3 DEF Ind, RowInv, brokers
  <2> QED
    BY <2>1, <2>2
<1>10. KnownStored'
  BY <1>2, <1>5, KnownStays DEF brokers
<1> QED
  BY <1>4, <1>5, <1>6, <1>7, <1>8, <1>9, <1>10, StepKeeps

LEMMA UpdateLastMessageKeeps ==
    ASSUME Ind, NEW r \in Reqs, UpdateLastMessage(r),
           members' \in [Convs -> [Users -> Nat]]
    PROVE  Ind'
<1>1. TypeOK /\ CallInv(r) /\ FlowInv(r)
  BY DEF Ind
<1> DEFINE new == [msg |-> r, preview |-> view[r].text, at |-> view[r].at]
<1>2. /\ pc[r] = "last" /\ Goto(r, "emit") /\ "emit" \in PCs
      /\ last' = [last EXCEPT ![view[r].conv] = new]
      /\ UNCHANGED <<messages, byId, unread, brokers, clock, call>>
  BY DEF UpdateLastMessage, PCs
<1>3. /\ call[r].op = "send" /\ call[r].msg = r /\ messages[r] # None
      /\ r \in byId /\ view[r] # None /\ view[r] \in Message
  BY <1>1, <1>2 DEF CallInv, FlowInv, TypeOK
<1>4. view[r].conv \in Convs /\ new \in LastMessage /\ new.msg = r
  BY <1>3 DEF Message, LastMessage
<1> HIDE DEF new
<1>5. /\ Apart(r) /\ pc'[r] = "emit" /\ pc' \in [Reqs -> PCs]
      /\ UNCHANGED <<res, view, todo>>
  BY <1>2, Moves
<1>6. Grows
  BY <1>2 DEF Grows
<1>7. TypeOK'
  BY <1>1, <1>2, <1>4, <1>5 DEF TypeOK, brokers
<1>8. CallInv(r)' /\ FlowInv(r)'
  BY <1>1, <1>2, <1>3, <1>5 DEF CallInv, FlowInv
<1>9. \A m \in Reqs : RowInv(m)'
  BY <1>2, <1>6, OtherRow DEF brokers
<1>10. KnownStored'
  BY <1>1, <1>2, <1>3, <1>4 DEF Ind, KnownStored, TypeOK, brokers
<1> QED
  BY <1>5, <1>6, <1>7, <1>8, <1>9, <1>10, StepKeeps

LEMMA CountUnreadKeeps ==
    ASSUME Ind, NEW r \in Reqs, CountUnread(r), members' \in [Convs -> [Users -> Nat]]
    PROVE  Ind'
<1>1. TypeOK /\ CallInv(r) /\ FlowInv(r)
  BY DEF Ind
<1>2. /\ pc[r] = "unread" /\ UNCHANGED <<messages, byId, last, brokers, clock, call>>
  BY DEF CountUnread
<1>3. view[r] \in Message
  BY <1>1, <1>2 DEF FlowInv, TypeOK
<1>4. PICK u \in Users :
         LET rest == [todo[r] EXCEPT ![u] = @ - 1]
         IN  /\ todo[r][u] > 0
             /\ IncrementUnread(r, u) \/ UNCHANGED unread
             /\ \/ Finish(r, "ok")
                \/ todo' = [todo EXCEPT ![r] = rest] /\ UNCHANGED <<pc, res, view>>
  BY DEF CountUnread
<1> DEFINE rest == [todo[r] EXCEPT ![u] = @ - 1]
<1>5. u \in Users /\ call[r].op = "send" /\ r \in byId
  BY <1>1, <1>2 DEF TypeOK, CallInv, FlowInv
<1>9. rest \in [Users -> Nat]
  <2>1. todo[r] \in [Users -> Nat] /\ todo[r][u] - 1 \in Nat
    BY <1>1, <1>4 DEF TypeOK
  <2> QED
    BY <2>1
<1>10. /\ IncrementUnread(r, u) \/ UNCHANGED unread
       /\ \/ Finish(r, "ok")
          \/ todo' = [todo EXCEPT ![r] = rest] /\ UNCHANGED <<pc, res, view>>
  BY <1>4
<1> HIDE DEF rest
<1>6. unread' \in [Users -> [Convs -> Nat]]
  <2>1. view[r].conv \in Convs
    BY <1>3 DEF Message
  <2>2. unread[u] \in [Convs -> Nat] /\ unread[u][view[r].conv] + 1 \in Nat
    BY <1>1, <1>5, <2>1 DEF TypeOK
  <2>3. CASE IncrementUnread(r, u)
    BY <1>1, <1>5, <2>1, <2>2, <2>3 DEF IncrementUnread, TypeOK
  <2>4. CASE UNCHANGED unread
    BY <1>1, <2>4 DEF TypeOK
  <2> QED
    BY <1>10, <2>3, <2>4
<1>7. Apart(r) /\ CallInv(r)' /\ FlowInv(r)'
  <2>1. CASE Finish(r, "ok")
    <3>1. Apart(r)
      BY <1>1, <1>2, <2>1 DEF Finish, Apart, TypeOK
    <3> QED
      BY <1>2, <1>5, <2>1, <3>1, Ends
  <2>2. CASE todo' = [todo EXCEPT ![r] = rest] /\ UNCHANGED <<pc, res, view>>
    <3>1. Apart(r)
      BY <1>1, <1>2, <2>2 DEF Apart, TypeOK
    <3>2. UNCHANGED <<pc, res, view, call, messages, byId>>
      BY <1>2, <2>2
    <3>3. CallInv(r)'
      BY <1>1, <1>5, <3>2 DEF CallInv
    <3>4. FlowInv(r)'
      BY <1>1, <3>2 DEF FlowInv
    <3> QED
      BY <3>1, <3>3, <3>4
  <2> QED
    BY <1>10, <2>1, <2>2
<1>8. TypeOK'
  <2>1. /\ pc' \in [Reqs -> PCs] /\ res' \in [Reqs -> Answers]
        /\ view' \in [Reqs -> Message \cup {None}] /\ todo' \in [Reqs -> [Users -> Nat]]
    <3>1. CASE Finish(r, "ok")
      BY <1>1, <3>1, NoOneType DEF Finish, TypeOK, PCs, Answers
    <3>2. CASE todo' = [todo EXCEPT ![r] = rest] /\ UNCHANGED <<pc, res, view>>
      BY <1>1, <1>9, <3>2 DEF TypeOK
    <3> QED
      BY <1>10, <3>1, <3>2
  <2> QED
    BY <1>1, <1>2, <1>6, <2>1 DEF TypeOK, brokers
<1> QED
  BY <1>2, <1>7, <1>8, ReadingKeeps

LEMMA ClearUnreadKeeps ==
    ASSUME Ind, NEW r \in Reqs, ClearUnread(r), members' \in [Convs -> [Users -> Nat]]
    PROVE  Ind'
<1>1. TypeOK /\ CallInv(r) /\ FlowInv(r)
  BY DEF Ind
<1>2. /\ pc[r] = "clear" /\ Goto(r, "emit") /\ "emit" \in PCs
      /\ unread' = [unread EXCEPT ![call[r].by][call[r].conv] = 0]
      /\ UNCHANGED <<messages, byId, last, brokers, clock, call>>
  BY DEF ClearUnread, PCs
<1>3. call[r].op = "read" /\ messages[call[r].msg] # None
  BY <1>1, <1>2 DEF CallInv, FlowInv
<1>4. /\ Apart(r) /\ pc'[r] = "emit" /\ pc' \in [Reqs -> PCs]
      /\ UNCHANGED <<res, view, todo>>
  BY <1>2, Moves
<1>5. TypeOK'
  BY <1>1, <1>2, <1>4 DEF TypeOK, brokers
<1>6. CallInv(r)' /\ FlowInv(r)'
  BY <1>1, <1>2, <1>3, <1>4 DEF CallInv, FlowInv
<1> QED
  BY <1>2, <1>4, <1>5, <1>6, ReadingKeeps

\* The copy that ReadReactions takes is in the table, and its limits are tested on
\* that copy.
LEMMA ReadReactionsKeeps ==
    ASSUME Ind, NEW r \in Reqs, ReadReactions(r), members' \in [Convs -> [Users -> Nat]]
    PROVE  Ind'
<1> DEFINE m == FindByID(call[r].msg)
           e == call[r].emoji
           u == call[r].by
           verdict == IF call[r].op = "react"
                        THEN ReactVerdict(m.reactions, e, u)
                        ELSE IF u \in m.reactions[e] THEN "ok" ELSE "already"
           new == IF call[r].op = "react"
                    THEN [m.reactions EXCEPT ![e] = @ \cup {u}]
                    ELSE WithoutReaction(m.reactions, e, u)
           copy == [m EXCEPT !.reactions = new]
<1>1. TypeOK /\ CallInv(r) /\ FlowInv(r) /\ pc[r] = "reread"
      /\ UNCHANGED <<stores, brokers, clock>>
  BY DEF Ind, ReadReactions
<1>2. /\ call[r].op \in {"react", "unreact"} /\ call[r].msg \in Reqs
      /\ e \in Emojis /\ u \in Users
      /\ messages[call[r].msg] # None /\ call[r].msg \in byId
  BY <1>1 DEF CallInv, FlowInv
<1>3. /\ m \in Message /\ m = messages[call[r].msg]
      /\ call[call[r].msg].op = "send" /\ GoodCopy(call[r].msg, m, call)
  BY <1>2, Found DEF FindByID
<1>4. \/ verdict = "ok" /\ GotoWith(r, "reactions", copy) /\ call' = call
      \/ verdict = "already" /\ Goto(r, "emit") /\ call' = call
      \/ Refuse(r)
  <2>1. m.reactions \in [Emojis -> SUBSET Users]
    BY <1>3 DEF Message
  <2>2. call[r].op = "react" =>
          [m EXCEPT !.reactions[e] = @ \cup {u}] = copy
    BY <1>3 DEF Message
  <2>3. call[r].op # "react" =>
          [m EXCEPT !.reactions = WithoutReaction(@, e, u)] = copy
    BY <1>3 DEF Message
  <2> QED
    BY <2>2, <2>3 DEF ReadReactions
<1>5. CASE verdict = "ok" /\ GotoWith(r, "reactions", copy) /\ call' = call
  <2>1. new \in [Emojis -> SUBSET Users] /\ Limited(new)
    <3>1. m.reactions \in [Emojis -> SUBSET Users] /\ Limited(m.reactions)
      BY <1>3 DEF Message, GoodCopy
    <3>2. CASE call[r].op = "react"
      BY <1>2, <1>5, <3>1, <3>2, LimitedAfterReact
    <3>3. CASE call[r].op # "react"
      <4>1. new \in [Emojis -> SUBSET Users]
        BY <1>2, <3>1, <3>3 DEF WithoutReaction
      <4> QED
        BY <1>2, <3>1, <3>3, <4>1, LimitedAfterUnreact
    <3> QED
      BY <3>2, <3>3
  <2> HIDE DEF new, m
  <2>2. copy \in Message /\ GoodCopy(call[r].msg, copy, call)
    BY <1>2, <1>3, <2>1, ReactedCopy
  <2> HIDE DEF copy, verdict
  <2>3. /\ pc' = [pc EXCEPT ![r] = "reactions"] /\ pc'[r] = "reactions"
        /\ view' = [view EXCEPT ![r] = copy] /\ view'[r] = copy
        /\ UNCHANGED <<res, todo, call, messages, byId>>
    BY <1>1, <1>5 DEF GotoWith, TypeOK, stores
  <2>4. CallInv(r)'
    BY <1>1, <1>2, <2>3 DEF CallInv
  <2>5. FlowInv(r)'
    BY <1>1, <1>2, <1>3, <2>2, <2>3, NoMessageAssumption DEF FlowInv
  <2>6. Apart(r)
    BY <1>1, <2>3 DEF Apart, TypeOK
  <2>7. TypeOK'
    BY <1>1, <2>2, <2>3 DEF TypeOK, stores, brokers, PCs
  <2> QED
    BY <1>1, <2>3, <2>4, <2>5, <2>6, <2>7, ReadingKeeps DEF stores
<1>6. CASE Goto(r, "emit") /\ call' = call
  <2>1. /\ Apart(r) /\ pc'[r] = "emit" /\ pc' \in [Reqs -> PCs]
        /\ UNCHANGED <<res, view, todo>>
    BY <1>6, Moves DEF PCs
  <2>2. CallInv(r)' /\ FlowInv(r)'
    BY <1>1, <1>2, <1>6, <2>1 DEF CallInv, FlowInv, stores
  <2>3. TypeOK'
    BY <1>1, <1>6, <2>1 DEF TypeOK, stores, brokers
  <2> QED
    BY <1>1, <1>6, <2>1, <2>2, <2>3, ReadingKeeps DEF stores
<1>7. CASE Refuse(r)
  BY <1>1, <1>7, RefuseKeeps
<1> QED
  BY <1>4, <1>5, <1>6, <1>7

-----------------------------------------------------------------------------
(* The events *)

LEMMA EmitKeeps ==
    ASSUME Ind, NEW r \in Reqs, Emit(r), members' \in [Convs -> [Users -> Nat]]
    PROVE  Ind'
<1>1. TypeOK /\ CallInv(r) /\ FlowInv(r)
  BY DEF Ind
<1> DEFINE ev == [kind |-> call[r].op, msg |-> call[r].msg]
<1>2. /\ pc[r] = "emit" /\ Goto(r, "push") /\ "push" \in PCs
      /\ emitted' = emitted \cup {ev}
      /\ UNCHANGED <<stores, shown, clock, call>>
  BY DEF Emit, PCs
<1>3. call[r].op # "none" /\ call[r].msg \in Reqs /\ messages[call[r].msg] # None
  BY <1>1, <1>2 DEF CallInv, FlowInv
<1>4. ev \in [kind : AllOps, msg : Reqs] /\ ev.msg = call[r].msg
  BY <1>1, <1>3 DEF TypeOK, Call
<1> HIDE DEF ev
<1>5. /\ Apart(r) /\ pc'[r] = "push" /\ pc' \in [Reqs -> PCs]
      /\ UNCHANGED <<res, view, todo>>
  BY <1>2, Moves
<1>6. Grows
  BY <1>2 DEF Grows, stores
<1>7. TypeOK'
  BY <1>1, <1>2, <1>4, <1>5 DEF TypeOK, stores
<1>8. CallInv(r)' /\ FlowInv(r)'
  BY <1>1, <1>2, <1>3, <1>5 DEF CallInv, FlowInv, stores
<1>9. \A m \in Reqs : RowInv(m)'
  BY <1>2, <1>6, OtherRow DEF stores
<1>10. KnownStored'
  BY <1>2, <1>3, <1>4 DEF Ind, KnownStored, stores
<1> QED
  BY <1>5, <1>6, <1>7, <1>8, <1>9, <1>10, StepKeeps

\* What the room is shown of a message is a text of its sender's, or no text.
LEMMA PushKeeps ==
    ASSUME Ind, NEW r \in Reqs, Push(r), members' \in [Convs -> [Users -> Nat]]
    PROVE  Ind'
<1> DEFINE m == call[r].msg
<1>1. TypeOK /\ CallInv(r) /\ FlowInv(r)
  BY DEF Ind
<1>2. /\ pc[r] = "push" /\ Leave(r) /\ shown' = [shown EXCEPT ![m] = Display(r)]
      /\ UNCHANGED <<stores, emitted, clock, call>>
  BY DEF Push
<1>3. call[r].op # "none" /\ m \in Reqs /\ messages[m] # None
  BY <1>1, <1>2 DEF CallInv, FlowInv
<1>4. /\ Display(r) \in Texts \cup {Hidden, Unseen}
      /\ Display(r) \in Reqs => /\ call[Display(r)].op \in {"send", "edit"}
                                /\ call[Display(r)].by = call[m].by
  <2>1. CASE call[r].op \in {"send", "edit"}
    <3>1. view[r] \in Message /\ GoodCopy(m, view[r], call)
      BY <1>1, <1>2, <2>1 DEF FlowInv, TypeOK
    <3> QED
      BY <2>1, <3>1, NoneAssumption DEF Display, GoodCopy, Message
  <2>2. CASE call[r].op = "delete"
    BY <2>2, ShownAssumption DEF Display, Texts
  <2>3. CASE call[r].op \notin {"send", "edit", "delete"}
    BY <1>1, <1>3, <2>3 DEF Display, Ind, RowInv, TypeOK
  <2> QED
    BY <2>1, <2>2, <2>3
<1>5. /\ Apart(r) /\ CallInv(r)' /\ FlowInv(r)'
      /\ pc' \in [Reqs -> PCs] /\ res' \in [Reqs -> Answers]
      /\ view' \in [Reqs -> Message \cup {None}] /\ todo' \in [Reqs -> [Users -> Nat]]
  BY <1>2, Leaves DEF stores
<1>6. Grows
  BY <1>2 DEF Grows, stores
<1>7. TypeOK'
  BY <1>1, <1>2, <1>3, <1>4, <1>5 DEF TypeOK, stores
<1>8. \A x \in Reqs : RowInv(x)'
  <2>1. ASSUME NEW x \in Reqs \ {m}
        PROVE  RowInv(x)'
    <3>1. shown'[x] = shown[x]
      BY <1>1, <1>2, <1>3 DEF TypeOK
    <3> QED
      BY <1>2, <1>6, <3>1, OtherRow DEF stores
  <2>2. RowInv(m)'
    <3>1. shown'[m] = Display(r)
      BY <1>1, <1>2, <1>3 DEF TypeOK
    <3> QED
      BY <1>2, <1>3, <1>4, <3>1 DEF Ind, RowInv, stores
  <2> QED
    BY <1>2, <2>1, <2>2
<1>9. KnownStored'
  BY <1>2, <1>6, KnownStays DEF stores
<1> QED
  BY <1>5, <1>6, <1>7, <1>8, <1>9, StepKeeps

LEMMA BestEffortFailsKeeps ==
    ASSUME Ind, NEW r \in Reqs, BestEffortFails(r),
           members' \in [Convs -> [Users -> Nat]]
    PROVE  Ind'
<1>1. TypeOK /\ CallInv(r) /\ FlowInv(r)
      /\ UNCHANGED <<stores, brokers, clock, call>>
  BY DEF Ind, BestEffortFails
<1>2. /\ Apart(r) /\ CallInv(r)' /\ FlowInv(r)'
      /\ pc' \in [Reqs -> PCs] /\ res' \in [Reqs -> Answers]
      /\ view' \in [Reqs -> Message \cup {None}] /\ todo' \in [Reqs -> [Users -> Nat]]
  <2>1. ASSUME NEW next \in {"emit", "push"}, Goto(r, next),
               pc[r] \in {"last", "clear", "emit"}
        PROVE  <1>2
    <3>1. /\ Apart(r) /\ pc'[r] = next /\ pc' \in [Reqs -> PCs]
          /\ UNCHANGED <<res, view, todo>>
      BY <1>1, <2>1, Moves DEF PCs
    <3>2. call[r].op # "none" /\ call[r].msg \in Reqs
      BY <1>1, <2>1 DEF CallInv
    <3>3. pc[r] \in {"last", "clear"} => call[r].op \in {"send", "read"}
      BY <1>1 DEF CallInv
    <3>4. CallInv(r)'
      BY <1>1, <2>1, <3>1, <3>2 DEF CallInv
    <3>5. FlowInv(r)'
      BY <1>1, <2>1, <3>1, <3>2, <3>3 DEF FlowInv, CallInv, stores
    <3> QED
      BY <1>1, <3>1, <3>4, <3>5 DEF TypeOK
  <2>2. CASE pc[r] = "push" /\ Leave(r)
    BY <1>1, <2>2, Leaves DEF stores
  <2> QED
    BY <2>1, <2>2 DEF BestEffortFails
<1>3. TypeOK'
  BY <1>1, <1>2 DEF TypeOK, stores, brokers
<1> QED
  BY <1>1, <1>2, <1>3, ReadingKeeps DEF stores
-----------------------------------------------------------------------------
(* The invariant *)

LEMMA ArriveKeeps ==
    ASSUME Ind, NEW r \in Reqs, Arrive(r)
    PROVE  Ind'
<1>1. members' \in [Convs -> [Users -> Nat]]
  BY DEF Ind, TypeOK, Arrive
<1> QED
  BY <1>1, SendMessageKeeps, EditMessageKeeps, DeleteMessageKeeps, ReactKeeps,
     MarkAsReadKeeps DEF Arrive, AddReaction, RemoveReaction

LEMMA StatementKeeps ==
    ASSUME Ind, NEW r \in Reqs, Statement(r)
    PROVE  Ind'
<1>1. members' \in [Convs -> [Users -> Nat]]
  BY DEF Ind, TypeOK, Statement
<1> QED
  BY <1>1, InsertMessageKeeps, IndexMessageKeeps, UpdateLastMessageKeeps,
     CountUnreadKeeps, UpdateMessageKeeps, ReadReactionsKeeps,
     WriteReactionsKeeps, ClearUnreadKeeps, EmitKeeps DEF Statement

LEMMA PushEventKeeps ==
    ASSUME Ind, NEW r \in Reqs, PushEvent(r)
    PROVE  Ind'
<1>1. members' \in [Convs -> [Users -> Nat]]
  BY DEF Ind, TypeOK, PushEvent
<1> QED
  BY <1>1, PushKeeps DEF PushEvent

LEMMA InitInd == Init => Ind
<1> SUFFICES ASSUME Init
             PROVE  Ind
  OBVIOUS
<1>1. TypeOK
  BY MembersAssumption, NoOneType DEF Init, TypeOK, NoCall, Call, Texts, PCs, Answers
<1>2. \A r \in Reqs : CallInv(r) /\ FlowInv(r) /\ RowInv(r)
  BY ShownAssumption DEF Init, CallInv, FlowInv, RowInv, NoCall, Texts
<1>3. KnownStored
  BY DEF Init, KnownStored
<1> QED
  BY <1>1, <1>2, <1>3 DEF Ind

LEMMA NextInd == Ind /\ [Next]_vars => Ind'
<1> SUFFICES ASSUME Ind, [Next]_vars
             PROVE  Ind'
  OBVIOUS
<1>1. ASSUME NEW r \in Reqs, Arrive(r) \/ Step(r)
      PROVE  Ind'
  BY <1>1, ArriveKeeps, StatementKeeps, PushEventKeeps DEF Step
<1>2. ASSUME NEW r \in Reqs, Failure(r)
      PROVE  Ind'
  <2>1. members' \in [Convs -> [Users -> Nat]]
    BY <1>2 DEF Ind, TypeOK, Failure
  <2>2. CASE BestEffortFails(r)
    BY <2>1, <2>2, BestEffortFailsKeeps
  <2>3. CASE Fault(r)
    BY <2>1, <2>3, AbandonKeeps DEF Fault, Abandon
  <2> QED
    BY <1>2, <2>2, <2>3 DEF Failure
<1>3. CASE UNCHANGED vars
  BY <1>3 DEF vars, Ind, TypeOK, CallInv, FlowInv, RowInv, KnownStored, GoodCopy
<1> QED
  BY <1>1, <1>2, <1>3 DEF Next

\* What the requests know, and what is stored, is true throughout.
THEOREM Invariance == Spec => []Ind
  BY InitInd, NextInd, PTL DEF Spec

\* Every variable stays in its domain.
THEOREM TypeCorrect == Spec => []TypeOK
<1>1. Ind => TypeOK
  BY DEF Ind
<1> QED
  BY <1>1, Invariance, PTL

\* Persist before broadcast: whatever fails in between, Kafka, a client in the room
\* or last_message never knows of a message that is not stored.
THEOREM PersistBeforeBroadcast == Spec => []StoredBeforeAnnounced
<1>1. Ind => StoredBeforeAnnounced
  BY DEF Ind, RowInv, KnownStored, StoredBeforeAnnounced
<1> QED
  BY <1>1, Invariance, PTL

\* A lookup entry is never dangling, and an acknowledged message can be found by
\* its id.
THEOREM AcknowledgedResolves == Spec => []AckedIsResolvable
<1>1. Ind => AckedIsResolvable
  BY DEF Ind, RowInv, FlowInv, AckedIsResolvable, TypeOK
<1> QED
  BY <1>1, Invariance, PTL

\* Nobody puts words into another's mouth: a message keeps its sender and
\* conversation and bears its sender's texts only, though Update writes back every
\* column of an old copy.
THEOREM AuthorsAlone == Spec => []OnlyAuthorSpeaks
<1>1. Ind => OnlyAuthorSpeaks
  BY DEF Ind, RowInv, GoodCopy, OnlyAuthorSpeaks
<1> QED
  BY <1>1, Invariance, PTL

\* No message is stored half deleted.
THEOREM NeverHalfDeleted == Spec => []DeletedIsCleared
<1>1. Ind => DeletedIsCleared
  BY DEF Ind, RowInv, GoodCopy, DeletedIsCleared
<1> QED
  BY <1>1, Invariance, PTL

\* The limits on reactions hold in the table for any number of users who react at
\* once: every list that is written was within the limits when it was made.
THEOREM ReactionsLimited == Spec => []ReactionLimits
<1>1. Ind => ReactionLimits
  BY DEF Ind, RowInv, GoodCopy, Limited, ReactionLimits
<1> QED
  BY <1>1, Invariance, PTL

=============================================================================
