--------------------------- MODULE Conversations ---------------------------
(***************************************************************************)
(* The conversation half of the chat service: ChatService.CreateDirectChat,*)
(* CreateGroup, AddParticipant, RemoveParticipant and MarkAsRead, over the *)
(* four Scylla tables of ConversationRepo.                                 *)
(*                                                                         *)
(* Every HTTP request is a goroutine of its own, possibly in another       *)
(* process behind the load balancer, so requests only share the tables.    *)
(* One action is one statement sent to Scylla together with the Go code    *)
(* that runs up to the next statement.  Nothing spans two statements: there*)
(* are no transactions and no locks, and only the claim of the direct key  *)
(* is a lightweight transaction.                                           *)
(*                                                                         *)
(* An id made by idGen.NewID() is fresh; it is named by the request that   *)
(* made it, so a conversation id is a member of Reqs.                      *)
(***************************************************************************)
EXTENDS Naturals, FiniteSets, Sequences

CONSTANTS
    Users,          \* user ids
    Reqs,           \* requests; the one that creates a conversation names it
    MaxGroup,       \* MaxGroupParticipants (50 in the code)
    MemberLists,    \* the member_ids bodies of CreateGroup requests
    Ops,            \* the kinds of call each request may be
    Faults,         \* may a statement fail, or the process stop?
    NoConv,         \* no conversation id
    NoRow,          \* no row, gocql.ErrNotFound
    NoRead,         \* a read cursor that was never set
    NoUser          \* no user

AllOps == {"direct", "group", "add", "remove", "read"}

ASSUME MaxGroupAssumption == MaxGroup \in Nat \ {0}
ASSUME MemberListsAssumption == MemberLists \subseteq Seq(Users)
ASSUME OpsAssumption == Ops \in [Reqs -> SUBSET AllOps]
ASSUME FaultsAssumption == Faults \in BOOLEAN
ASSUME NoConvAssumption == NoConv \notin Reqs
ASSUME NoReadAssumption == NoRead \notin Reqs
ASSUME NoUserAssumption == NoUser \notin Users

VARIABLES
    conversations,  \* table conversations: id -> row
    direct,         \* table direct_conversations: pair -> conversation id
    userConvs,      \* table user_conversations: set of <<user, conversation>>
    convUsers,      \* table conversation_participants: <<conversation, user>>
    pc,             \* the statement each request is about to send
    call,           \* the arguments of each request
    view,           \* the *domain.Conversation the request holds in memory
    todo,           \* participants whose index entries are still to be written
    cur,            \* the participant whose second index entry is next
    res             \* the answer of each finished request

tables == <<conversations, direct, userConvs, convUsers>>
vars == <<conversations, direct, userConvs, convUsers,
          pc, call, view, todo, cur, res>>

-----------------------------------------------------------------------------
(* Data *)

\* Two user ids in either order: DirectChatKey sorts them, directKey joins them.
Pairs == {{u, v} : u \in Users, v \in Users}

\* An element of the participants column.  slot is the request that appended
\* it, which keeps two entries for the same user apart; the order of the list
\* is dropped.  read is the MarkAsRead request that set the cursor.
Participant == [user : Users, role : {"admin", "member"}, slot : Reqs,
                read : Reqs \cup {NoRead}]

Row == [type : {"direct", "group"}, creator : Users,
        parts : SUBSET Participant]

ASSUME NoRowAssumption == NoRow \notin Row

\* members: who is named in the member_ids of a CreateGroup request.
Call == [op : AllOps \cup {"none"}, by : Users \cup {NoUser},
         user : Users \cup {NoUser}, members : SUBSET Users,
         conv : Reqs \cup {NoConv}]

Answers == {"none", "ok", "invalid", "duplicate", "notfound", "forbidden",
            "notmember", "member", "full", "error"}

PCs == {"idle", "lookup", "fetch", "claim", "insert", "check", "reread",
        "write", "indexUser", "indexConv", "unindexUser", "unindexConv",
        "done"}

Users_of(row) == {e.user : e \in row.parts}

HasMember(row, u) == \E e \in row.parts : e.user = u

IsAdmin(row, u) == \E e \in row.parts : e.user = u /\ e.role = "admin"

\* Mutant: the two ids swapped.
NewParticipant_Swapped(r, u, role) ==
    [user |-> r, role |-> role, slot |-> u, read |-> NoRead]

NewParticipant(r, u, role) ==
    [user |-> u, role |-> role, slot |-> r, read |-> NoRead]

NewDirectConversation(r, u1, u2) ==
    [type |-> "direct", creator |-> u1,
     parts |-> {NewParticipant(r, u, "member") : u \in {u1, u2}}]

Named(memberIDs) == {memberIDs[i] : i \in DOMAIN memberIDs}

\* The creator comes first as admin; repeated ids, and the creator's own, are
\* skipped.
NewGroupConversation(r, createdBy, memberIDs) ==
    LET others == Named(memberIDs) \ {createdBy}
    IN  [type |-> "group", creator |-> createdBy,
         parts |-> {NewParticipant(r, createdBy, "admin")}
                     \cup {NewParticipant(r, u, "member") : u \in others}]

Key(r) == {call[r].by, call[r].user}

\* Whom the request that created conversation c asked to be in it.
Founders(c) ==
    IF call[c].op = "group" THEN {call[c].by} \cup call[c].members ELSE Key(c)

-----------------------------------------------------------------------------
Init ==
    /\ conversations = [c \in Reqs |-> NoRow]
    /\ direct = [p \in Pairs |-> NoConv]
    /\ userConvs = {}
    /\ convUsers = {}
    /\ pc = [r \in Reqs |-> "idle"]
    /\ call = [r \in Reqs |-> [op |-> "none", by |-> NoUser, user |-> NoUser,
                               members |-> {}, conv |-> NoConv]]
    /\ view = [r \in Reqs |-> NoRow]
    /\ todo = [r \in Reqs |-> {}]
    /\ cur = [r \in Reqs |-> NoUser]
    /\ res = [r \in Reqs |-> "none"]

\* The handler returns: the answer is sent and what it held in memory is gone.
Finish(r, answer) ==
    /\ pc' = [pc EXCEPT ![r] = "done"]
    /\ res' = [res EXCEPT ![r] = answer]
    /\ view' = [view EXCEPT ![r] = NoRow]
    /\ todo' = [todo EXCEPT ![r] = {}]
    /\ cur' = [cur EXCEPT ![r] = NoUser]

\* On to the next statement, with nothing else changed in memory.
Goto(r, next) ==
    /\ pc' = [pc EXCEPT ![r] = next]
    /\ UNCHANGED <<view, todo, cur, res>>

\* The answer to a request whose last write was applied: the acknowledgement
\* of that write may still be lost.
Acks == IF Faults THEN {"ok", "error"} ELSE {"ok"}

-----------------------------------------------------------------------------
(* CreateDirectChat *)

CreateDirectChat(r) ==
    /\ pc[r] = "idle"
    /\ "direct" \in Ops[r]
    /\ \E u1 \in Users, u2 \in Users :
          /\ call' = [call EXCEPT ![r] = [op |-> "direct", by |-> u1, user |-> u2,
                                          members |-> {}, conv |-> NoConv]]
          /\ IF u1 = u2 THEN Finish(r, "invalid") ELSE Goto(r, "lookup")
    /\ UNCHANGED tables

\* FindDirectChat, first statement: the key.  No row sends the request on to
\* create the conversation.
LookupDirect(r) ==
    /\ pc[r] = "lookup"
    /\ IF direct[Key(r)] = NoConv
         THEN /\ Goto(r, "claim")
              /\ UNCHANGED call
         ELSE /\ Goto(r, "fetch")
              /\ call' = [call EXCEPT ![r].conv = direct[Key(r)]]
    /\ UNCHANGED tables

FetchDirect_Unchecked(r) ==        \* mutant: the row is not looked for
    /\ pc[r] = "fetch"
    /\ Finish(r, "ok")
    /\ UNCHANGED <<tables, call>>

\* FindDirectChat, second statement: the conversation the key points at.  A
\* key whose row is not there also sends the request on to create.
FetchDirect(r) ==
    /\ pc[r] = "fetch"
    /\ IF conversations[call[r].conv] = NoRow
         THEN /\ Goto(r, "claim")
              /\ call' = [call EXCEPT ![r].conv = NoConv]
         ELSE /\ Finish(r, "ok")
              /\ UNCHANGED call
    /\ UNCHANGED tables

\* A failed lookup is not reported: CreateDirectChat tests err == nil and goes
\* on to create.
FindDirectChatFails(r) ==
    /\ Faults
    /\ pc[r] \in {"lookup", "fetch"}
    /\ Goto(r, "claim")
    /\ call' = [call EXCEPT ![r].conv = NoConv]
    /\ UNCHANGED tables

ClaimApplies_Plain(p) == TRUE       \* mutant: a plain INSERT

\* INSERT ... IF NOT EXISTS applies when the key has no row.
ClaimApplies(p) == direct[p] = NoConv

ClaimDirectKey(r) ==
    /\ pc[r] = "claim"
    /\ IF ClaimApplies(Key(r))
         THEN /\ direct' = [direct EXCEPT ![Key(r)] = r]
              /\ pc' = [pc EXCEPT ![r] = "insert"]
              /\ view' = [view EXCEPT ![r] = NewDirectConversation(
                                               r, call[r].by, call[r].user)]
              /\ UNCHANGED <<todo, cur, res>>
         ELSE /\ Finish(r, "duplicate")
              /\ UNCHANGED direct
    /\ UNCHANGED <<conversations, userConvs, convUsers, call>>

-----------------------------------------------------------------------------
(* CreateGroup, and the end of ConversationRepo.Create *)

\* The early returns of domain.NewGroupConversation; the length of the list is
\* tested before repeated ids are dropped.
GroupVerdict(nameOk, memberIDs) ==
    IF ~nameOk \/ Len(memberIDs) < 2 THEN "invalid"
    ELSE IF Len(memberIDs) + 1 > MaxGroup THEN "full"
    ELSE "ok"

CreateGroup(r) ==
    /\ pc[r] = "idle"
    /\ "group" \in Ops[r]
    /\ \E u \in Users, nameOk \in BOOLEAN, memberIDs \in MemberLists :
          /\ call' = [call EXCEPT ![r] = [op |-> "group", by |-> u, user |-> NoUser,
                                          members |-> Named(memberIDs),
                                          conv |-> NoConv]]
          /\ IF GroupVerdict(nameOk, memberIDs) = "ok"
               THEN /\ pc' = [pc EXCEPT ![r] = "insert"]
                    /\ view' = [view EXCEPT ![r] =
                                  NewGroupConversation(r, u, memberIDs)]
                    /\ UNCHANGED <<todo, cur, res>>
               ELSE Finish(r, GroupVerdict(nameOk, memberIDs))
    /\ UNCHANGED tables

\* Mutant: the indexes are written first and the row is left for later.
InsertRow_IndexFirst(r) ==
    /\ pc[r] = "insert"
    /\ call' = [call EXCEPT ![r].conv = r]
    /\ pc' = [pc EXCEPT ![r] = "indexUser"]
    /\ todo' = [todo EXCEPT ![r] = Users_of(view[r])]
    /\ UNCHANGED <<tables, view, cur, res>>

InsertRow(r) ==
    /\ pc[r] = "insert"
    /\ conversations' = [conversations EXCEPT ![r] = view[r]]
    /\ call' = [call EXCEPT ![r].conv = r]
    /\ pc' = [pc EXCEPT ![r] = "indexUser"]
    /\ todo' = [todo EXCEPT ![r] = Users_of(view[r])]
    /\ UNCHANGED <<direct, userConvs, convUsers, view, cur, res>>

\* insertParticipantIndexes, first statement.
IndexUser(r) ==
    /\ pc[r] = "indexUser"
    /\ \E u \in todo[r] :
          /\ userConvs' = userConvs \cup {<<u, call[r].conv>>}
          /\ cur' = [cur EXCEPT ![r] = u]
    /\ pc' = [pc EXCEPT ![r] = "indexConv"]
    /\ UNCHANGED <<conversations, direct, convUsers, call, view, todo, res>>

IndexConv_FirstOnly(r) ==           \* mutant: returns from inside the loop
    /\ pc[r] = "indexConv"
    /\ convUsers' = convUsers \cup {<<call[r].conv, cur[r]>>}
    /\ \E answer \in Acks : Finish(r, answer)
    /\ UNCHANGED <<conversations, direct, userConvs, call>>

\* insertParticipantIndexes, second statement, and the loop over participants.
IndexConv(r) ==
    /\ pc[r] = "indexConv"
    /\ convUsers' = convUsers \cup {<<call[r].conv, cur[r]>>}
    /\ IF todo[r] = {cur[r]}
         THEN \E answer \in Acks : Finish(r, answer)
         ELSE /\ pc' = [pc EXCEPT ![r] = "indexUser"]
              /\ todo' = [todo EXCEPT ![r] = @ \ {cur[r]}]
              /\ UNCHANGED <<view, cur, res>>
    /\ UNCHANGED <<conversations, direct, userConvs, call>>

-----------------------------------------------------------------------------
(* AddParticipant, RemoveParticipant, MarkAsRead *)

\* A request about an existing or an unknown conversation id, its path
\* parameter; the caller is the user of the token.
Receive(r, op) ==
    /\ pc[r] = "idle"
    /\ op \in Ops[r]
    /\ \E c \in Reqs, u \in Users, v \in Users :
          /\ op = "read" => u = v
          /\ call' = [call EXCEPT ![r] = [op |-> op, by |-> u, user |-> v,
                                          members |-> {}, conv |-> c]]
    /\ Goto(r, "check")
    /\ UNCHANGED tables

AddParticipant(r) == Receive(r, "add")
RemoveParticipant(r) == Receive(r, "remove")
MarkAsRead(r) == Receive(r, "read")

\* ConversationRepo.FindByID
FindByID(c) == conversations[c]

\* domain.Conversation.AddParticipant
MayJoin(row, u) ==
    IF row.type = "direct" THEN "invalid"
    ELSE IF HasMember(row, u) THEN "member"
    ELSE IF Cardinality(row.parts) >= MaxGroup THEN "full"
    ELSE "ok"

AddVerdict_AnyMember(row, by, u) == \* mutant: HasMember for IsAdmin
    IF row = NoRow THEN "notfound"
    ELSE IF ~HasMember(row, by) THEN "forbidden"
    ELSE MayJoin(row, u)

AddVerdict(row, by, u) ==
    IF row = NoRow THEN "notfound"
    ELSE IF ~IsAdmin(row, by) THEN "forbidden"
    ELSE MayJoin(row, u)

RemoveVerdict(row, by, u) ==
    IF row = NoRow THEN "notfound"
    ELSE IF by # u /\ ~IsAdmin(row, by) THEN "forbidden"
    ELSE "ok"

\* The message named in the body must exist and be of this conversation.
ReadVerdict(row, by, msgOk) ==
    IF row = NoRow THEN "notfound"
    ELSE IF ~HasMember(row, by) THEN "notmember"
    ELSE IF ~msgOk THEN "notfound"
    ELSE "ok"

\* The service's own FindByID and the checks it makes on that copy.
Check(r) ==
    /\ pc[r] = "check"
    /\ \E msgOk \in BOOLEAN :
          LET c == call[r]
              row == FindByID(c.conv)
              verdict == CASE c.op = "add"    -> AddVerdict(row, c.by, c.user)
                           [] c.op = "remove" -> RemoveVerdict(row, c.by, c.user)
                           [] OTHER           -> ReadVerdict(row, c.by, msgOk)
          IN  IF verdict = "ok" THEN Goto(r, "reread")
                                ELSE Finish(r, verdict)
    /\ UNCHANGED <<tables, call>>

\* The repository reads the row again; only UpdateReadCursor looks at the
\* membership it finds there.
Reread(r) ==
    /\ pc[r] = "reread"
    /\ LET row == FindByID(call[r].conv)
       IN  IF row = NoRow \/ (call[r].op = "read"
                                /\ ~HasMember(row, call[r].user))
             THEN Finish(r, "notfound")
             ELSE /\ pc' = [pc EXCEPT ![r] = "write"]
                  /\ view' = [view EXCEPT ![r] = row]
                  /\ UNCHANGED <<todo, cur, res>>
    /\ UNCHANGED <<tables, call>>

\* UPDATE conversations SET participants = ? WHERE id = ?: the whole column.
SetParticipants(c, parts) ==
    conversations' = [conversations EXCEPT ![c].parts = parts]

\* ConversationRepo.AddParticipant appends to the copy it read.
AddWrite(r) ==
    /\ pc[r] = "write"
    /\ call[r].op = "add"
    /\ SetParticipants(call[r].conv,
          view[r].parts \cup {NewParticipant(r, call[r].user, "member")})
    /\ pc' = [pc EXCEPT ![r] = "indexUser"]
    /\ todo' = [todo EXCEPT ![r] = {call[r].user}]
    /\ UNCHANGED <<direct, userConvs, convUsers, call, view, cur, res>>

\* ConversationRepo.RemoveParticipant filters the copy it read.
RemoveWrite(r) ==
    /\ pc[r] = "write"
    /\ call[r].op = "remove"
    /\ SetParticipants(call[r].conv,
          {e \in view[r].parts : e.user # call[r].user})
    /\ Goto(r, "unindexUser")
    /\ UNCHANGED <<direct, userConvs, convUsers, call>>

\* deleteParticipantIndexes
UnindexUser(r) ==
    /\ pc[r] = "unindexUser"
    /\ userConvs' = userConvs \ {<<call[r].user, call[r].conv>>}
    /\ Goto(r, "unindexConv")
    /\ UNCHANGED <<conversations, direct, convUsers, call>>

UnindexConv(r) ==
    /\ pc[r] = "unindexConv"
    /\ convUsers' = convUsers \ {<<call[r].conv, call[r].user>>}
    /\ \E answer \in Acks : Finish(r, answer)
    /\ UNCHANGED <<conversations, direct, userConvs, call>>

\* ConversationRepo.UpdateReadCursor sets the cursor of the user's entry (of
\* the first one, when there are several) in the copy it read.  The calls that
\* follow in MarkAsRead only log their errors and touch no table of this module,
\* so the answer is ok unless the acknowledgement of this write is lost.
CursorWrite(r) ==
    /\ pc[r] = "write"
    /\ call[r].op = "read"
    /\ \E e \in view[r].parts :
          /\ e.user = call[r].user
          /\ SetParticipants(call[r].conv,
                (view[r].parts \ {e}) \cup {[e EXCEPT !.read = r]})
    /\ \E answer \in Acks : Finish(r, answer)
    /\ UNCHANGED <<direct, userConvs, convUsers, call>>

-----------------------------------------------------------------------------
\* The next statement fails, its acknowledgement was lost, the caller's context
\* is cancelled or the process stops: the request ends here, with the writes
\* it already made left as they are.
Fault(r) ==
    /\ Faults
    /\ pc[r] \notin {"idle", "done"}
    /\ Finish(r, "error")
    /\ UNCHANGED <<tables, call>>

Arrive(r) ==
    \/ CreateDirectChat(r)
    \/ CreateGroup(r)
    \/ AddParticipant(r)
    \/ RemoveParticipant(r)
    \/ MarkAsRead(r)

Step(r) ==
    \/ LookupDirect(r)
    \/ FetchDirect(r)
    \/ ClaimDirectKey(r)
    \/ InsertRow(r)
    \/ IndexUser(r)
    \/ IndexConv(r)
    \/ Check(r)
    \/ Reread(r)
    \/ AddWrite(r)
    \/ RemoveWrite(r)
    \/ UnindexUser(r)
    \/ UnindexConv(r)
    \/ CursorWrite(r)

Next == \E r \in Reqs : Arrive(r) \/ Step(r) \/ FindDirectChatFails(r) \/ Fault(r)

Spec == Init /\ [][Next]_vars

\* A goroutine that has started keeps running; nobody has to send a request.
FairSpec == Spec /\ \A r \in Reqs : WF_vars(Step(r))

-----------------------------------------------------------------------------
(* Properties that hold *)

\* Every variable stays in its domain; in particular a write to the
\* participants column always finds a row of the right shape.
TypeOK ==
    /\ conversations \in [Reqs -> Row \cup {NoRow}]
    /\ direct \in [Pairs -> Reqs \cup {NoConv}]
    /\ userConvs \subseteq Users \X Reqs
    /\ convUsers \subseteq Reqs \X Users
    /\ pc \in [Reqs -> PCs]
    /\ call \in [Reqs -> Call]
    /\ view \in [Reqs -> Row \cup {NoRow}]
    /\ todo \in [Reqs -> SUBSET Users]
    /\ cur \in [Reqs -> Users \cup {NoUser}]
    /\ res \in [Reqs -> Answers]

\* "This prevents duplicate direct chats between the same two users"
\* (ConversationRepo.Create): no two direct conversations are ever stored whose
\* participants include the same two users, whatever requests race and whatever
\* writes fail.
DirectChatUnique ==
    \A c \in Reqs, d \in Reqs, u \in Users, v \in Users :
        (/\ u # v
         /\ conversations[c] # NoRow
         /\ conversations[d] # NoRow
         /\ conversations[c].type = "direct"
         /\ conversations[d].type = "direct"
         /\ {u, v} \subseteq Users_of(conversations[c])
         /\ {u, v} \subseteq Users_of(conversations[d])) => c = d

\* The requests that CreateDirectChat answered with a conversation.
Opened(r) == call[r].op = "direct" /\ res[r] = "ok"

\* Two successful CreateDirectChat requests for the same two users, in either
\* order, return the same conversation; it is stored, it is direct, and nobody
\* outside the pair is in it.
SameChat ==
    \A r \in Reqs : Opened(r) =>
        /\ conversations[call[r].conv] # NoRow
        /\ conversations[call[r].conv].type = "direct"
        /\ Users_of(conversations[call[r].conv]) \subseteq Key(r)
        /\ \A q \in Reqs : Opened(q) /\ Key(q) = Key(r)
                              => call[q].conv = call[r].conv

\* Nobody gets into a conversation unadmitted, although the participants column
\* is rewritten from copies read long before: an entry was put there by the
\* request that created the conversation, or by an AddParticipant request of
\* the group's creator, who is the only admin a group ever has.
MembersAdmitted ==
    \A c \in Reqs : conversations[c] # NoRow =>
        \A e \in conversations[c].parts :
            /\ e.slot = c =>
                 /\ e.user \in Founders(c)
                 /\ conversations[c].type = "direct" => e.role = "member"
                 /\ e.role = "admin" => e.user = conversations[c].creator
            /\ e.slot # c =>
                 /\ conversations[c].type = "group"
                 /\ e.role = "member"
                 /\ call[e.slot].op = "add"
                 /\ call[e.slot].conv = c
                 /\ call[e.slot].user = e.user
                 /\ call[e.slot].by = conversations[c].creator

\* An AddParticipant of u to c, by c's creator, has got as far as its first
\* write.
Joined(c, u) ==
    \E q \in Reqs : /\ call[q].op = "add"
                    /\ call[q].conv = c
                    /\ call[q].user = u
                    /\ call[q].by = conversations[c].creator
                    /\ \/ pc[q] \in {"indexUser", "indexConv"}
                       \/ pc[q] = "done" /\ res[q] \in {"ok", "error"}

\* An index entry never runs ahead of what it indexes: FindByUser's "index may
\* be stale; skip gracefully" is never for a row still to come.  The row is
\* there, and whoever is listed was asked to be in it by the request that
\* created it or, in a group, by a request of its creator that wrote them into
\* it, whatever copies were written back since.
IndexBehindRow ==
    \A c \in Reqs, u \in Users :
        (<<u, c>> \in userConvs \/ <<c, u>> \in convUsers) =>
            /\ conversations[c] # NoRow
            /\ \/ u \in Founders(c)
               \/ conversations[c].type = "group" /\ Joined(c, u)

\* A RemoveParticipant of u from c has got as far as its first write.
Removed(c, u) ==
    \E q \in Reqs : /\ call[q].op = "remove"
                    /\ call[q].conv = c
                    /\ call[q].user = u
                    /\ \/ pc[q] \in {"unindexUser", "unindexConv"}
                       \/ pc[q] = "done" /\ res[q] \in {"ok", "error"}

\* An acknowledged create or add has written both index entries of everybody it
\* put into the conversation, so they see it in their list, unless a remove of
\* the same user ran as well.
AckListed ==
    \A r \in Reqs :
        LET c == call[r].conv
            added == IF call[r].op = "add"
                       THEN {call[r].user}
                       ELSE {e.user : e \in {x \in conversations[c].parts :
                                               x.slot = r}}
        IN  (res[r] = "ok" /\ call[r].op \in {"direct", "group", "add"}) =>
                \A u \in added :
                    \/ <<u, c>> \in userConvs /\ <<c, u>> \in convUsers
                    \/ Removed(c, u)

\* The register each pair of users is: the chat of a pair is published once the
\* row its key points at is stored.
Published ==
    [p \in Pairs |-> IF direct[p] = NoConv THEN NoConv
                     ELSE IF conversations[direct[p]] = NoRow THEN NoConv
                     ELSE direct[p]]

Answered ==
    [r \in Reqs |-> IF Opened(r) THEN call[r].conv ELSE NoConv]

Registry == INSTANCE DirectChatRegistry
                WITH Ids <- Reqs, Callers <- Reqs, None <- NoConv,
                     chat <- Published, answer <- Answered

\* Creating and looking up direct chats implements a write-once register per
\* pair: the chat of a pair never changes or disappears, and answers agree with
\* it.
ImplementsRegistry == Registry!Spec

\* A claimed key soon leads to a chat both users can see: its row is stored and
\* both are in both indexes, unless somebody is removed, or the request that
\* claimed it was told of a failure.
ClaimCompletes ==
    \A p \in Pairs, c \in Reqs :
        direct[p] = c ~>
            \/ /\ conversations[c] # NoRow
               /\ \A u \in p : \/ <<u, c>> \in userConvs /\ <<c, u>> \in convUsers
                               \/ Removed(c, u)
            \/ res[c] = "error"

-----------------------------------------------------------------------------
(* Statements of the documentation that the code does not keep *)

AllDone == \A r \in Reqs : pc[r] \in {"idle", "done"}

\* ErrDuplicateConversation, "direct conversation already exists": once nothing
\* is running, there is a conversation behind that answer.
DuplicateMeansChat ==
    AllDone => \A r \in Reqs :
        res[r] = "duplicate" => conversations[direct[Key(r)]] # NoRow

=============================================================================
