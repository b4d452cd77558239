------------------------ MODULE ConversationsProofs ------------------------
(***************************************************************************)
(* Proofs about Conversations, for any sets of users and requests, any     *)
(* bound on groups, and with or without failures.                          *)
(*                                                                         *)
(* First who is in a conversation and in which role; then what users find  *)
(* of their conversations: the direct chats are a write-once register for  *)
(* each pair, and the two indexes agree with the conversations table.      *)
(***************************************************************************)
EXTENDS Conversations, TLAPS

-----------------------------------------------------------------------------
(* The inductive invariant *)

\* How the entries of a copy of conversation c's participants got there, as
\* far as the arguments k of the requests tell.
AdmittedIn(c, row, k) ==
    \A e \in row.parts :
        /\ e.slot = c =>
             /\ k[c].op = "direct" => /\ e.user \in {k[c].by, k[c].user}
                                      /\ e.role = "member"
             /\ k[c].op = "group" => e.user \in {k[c].by} \cup k[c].members
             /\ e.role = "admin" => e.user = k[c].by
        /\ e.slot # c =>
             /\ k[c].op = "group"
             /\ e.role = "member"
             /\ k[e.slot].op = "add"
             /\ k[e.slot].conv = c
             /\ k[e.slot].user = e.user
             /\ k[e.slot].by = k[c].by

\* What kind of request is where, and which of its arguments are set.
CallInv(r) ==
    /\ pc[r] = "idle" <=> call[r].op = "none"
    /\ call[r].op # "none" => call[r].by \in Users
    /\ call[r].op \in {"direct", "add", "remove", "read"} =>
          call[r].user \in Users
    /\ call[r].op \in {"add", "remove", "read"} => call[r].conv \in Reqs
    /\ pc[r] \in {"lookup", "fetch", "claim"} => call[r].op = "direct"
    /\ pc[r] = "insert" => call[r].op \in {"direct", "group"}
    /\ pc[r] \in {"check", "reread", "write"} =>
          call[r].op \in {"add", "remove", "read"}
    /\ pc[r] \in {"unindexUser", "unindexConv"} => call[r].op = "remove"
    /\ pc[r] \in {"indexUser", "indexConv"} =>
          call[r].op \in {"direct", "group", "add"}
    /\ pc[r] = "indexConv" => cur[r] \in Users
    /\ res[r] = "ok" => pc[r] = "done"

\* What a request holds in memory, and what it knows of the tables.
FlowInv(r) ==
    /\ pc[r] = "fetch" => /\ call[r].conv = direct[Key(r)]
                          /\ call[r].conv \in Reqs
    /\ pc[r] = "insert" =>
          /\ view[r] \in Row
          /\ view[r].type = call[r].op
          /\ view[r].creator = call[r].by
          /\ AdmittedIn(r, view[r], call)
          /\ \A e \in view[r].parts : e.slot = r
          /\ call[r].op = "direct" => direct[Key(r)] = r
    /\ pc[r] \in {"indexUser", "indexConv"} =>
          /\ call[r].conv \in Reqs
          /\ conversations[call[r].conv] \in Row
          /\ call[r].op # "add" => call[r].conv = r
    /\ pc[r] = "write" =>
          /\ view[r] \in Row
          /\ conversations[call[r].conv] \in Row
          /\ AdmittedIn(call[r].conv, view[r], call)
    /\ (pc[r] \in {"reread", "write"} /\ call[r].op = "add") =>
          /\ conversations[call[r].conv] \in Row
          /\ conversations[call[r].conv].type = "group"
          /\ conversations[call[r].conv].creator = call[r].by
    /\ Opened(r) => /\ call[r].conv \in Reqs
                    /\ call[r].conv = direct[Key(r)]
                    /\ conversations[call[r].conv] \in Row

\* The places of a request that has passed its claim, and of one that has
\* stored its conversation.
Claimed == {"insert", "indexUser", "indexConv", "done"}
Stored == {"indexUser", "indexConv", "done"}

\* The key of a pair holds the id of a request for that very pair that has
\* passed its claim.
ClaimInv(p) ==
    direct[p] # NoConv =>
        /\ call[direct[p]].op = "direct"
        /\ Key(direct[p]) = p
        /\ pc[direct[p]] \in Claimed

\* A stored conversation is its creating request's, and a direct one owns its
\* key.
RowInv(c) ==
    conversations[c] # NoRow =>
        /\ pc[c] \in Stored
        /\ call[c].op \in {"direct", "group"}
        /\ conversations[c].type = call[c].op
        /\ conversations[c].creator = call[c].by
        /\ call[c].op = "direct" => direct[Key(c)] = c
        /\ AdmittedIn(c, conversations[c], call)

Ind ==
    /\ TypeOK
    /\ \A r \in Reqs : CallInv(r) /\ FlowInv(r) /\ RowInv(r)
    /\ \A p \in Pairs : ClaimInv(p)

-----------------------------------------------------------------------------
(* Lemmas about the data *)

\* NewParticipant makes an element of the participants column.
LEMMA NewParticipantType ==
    ASSUME NEW r \in Reqs, NEW u \in Users, NEW role \in {"admin", "member"}
    PROVE  NewParticipant(r, u, role) \in Participant
  BY DEF NewParticipant, Participant

\* A new direct conversation is a row with only its two users in it.
LEMMA NewDirectOK ==
    ASSUME NEW r \in Reqs, NEW u \in Users, NEW v \in Users,
           NEW k, k[r].op = "direct", k[r].by = u, k[r].user = v
    PROVE  /\ NewDirectConversation(r, u, v) \in Row
           /\ NewDirectConversation(r, u, v).type = "direct"
           /\ NewDirectConversation(r, u, v).creator = u
           /\ AdmittedIn(r, NewDirectConversation(r, u, v), k)
           /\ \A e \in NewDirectConversation(r, u, v).parts : e.slot = r
  BY DEF NewParticipant, Participant, NewDirectConversation, Row, AdmittedIn

\* A new group is a row whose only admin is its creator.
LEMMA NewGroupOK ==
    ASSUME NEW r \in Reqs, NEW u \in Users, NEW ids \in Seq(Users),
           NEW k, k[r].op = "group", k[r].by = u, k[r].members = Named(ids)
    PROVE  /\ NewGroupConversation(r, u, ids) \in Row
           /\ NewGroupConversation(r, u, ids).type = "group"
           /\ NewGroupConversation(r, u, ids).creator = u
           /\ AdmittedIn(r, NewGroupConversation(r, u, ids), k)
           /\ \A e \in NewGroupConversation(r, u, ids).parts : e.slot = r
  BY DEF NewParticipant, Participant, NewGroupConversation, Named, Row, AdmittedIn

\* The arguments of a request do not change once it has arrived, but for the
\* conversation a creating request finds or makes.
Fixed(k, l) ==
    \A q \in Reqs : k[q].op # "none" =>
        /\ l[q].op = k[q].op
        /\ l[q].by = k[q].by
        /\ l[q].user = k[q].user
        /\ l[q].members = k[q].members
        /\ k[q].op \in {"add", "remove", "read"} => l[q].conv = k[q].conv

\* So how an entry got into a copy stays true, even when the copy is old.
LEMMA AdmittedStable ==
    ASSUME NEW k \in [Reqs -> Call], NEW l \in [Reqs -> Call], Fixed(k, l),
           NEW c \in Reqs, k[c].op \in {"direct", "group"},
           NEW row \in Row, AdmittedIn(c, row, k)
    PROVE  AdmittedIn(c, row, l)
  BY DEF AdmittedIn, Fixed, Row, Participant

-----------------------------------------------------------------------------
(* What no step undoes *)

\* Arguments stay, a stored row keeps its type and creator, a claimed key keeps
\* its conversation, and a request that has claimed or stored does not go back.
Mono ==
    /\ Fixed(call, call')
    /\ \A c \in Reqs : conversations[c] # NoRow =>
          /\ conversations'[c] \in Row
          /\ conversations'[c].type = conversations[c].type
          /\ conversations'[c].creator = conversations[c].creator
    /\ \A p \in Pairs : direct[p] # NoConv => direct'[p] = direct[p]
    /\ \A q \in Reqs : /\ pc[q] \in Claimed => pc'[q] \in Claimed
                       /\ pc[q] \in Stored => pc'[q] \in Stored

\* The key of a request for two users is one of the pairs.
LEMMA KeyIsPair ==
    ASSUME Ind, NEW q \in Reqs, call[q].op = "direct"
    PROVE  Key(q) \in Pairs
  BY DEF Ind, CallInv, Key, Pairs

\* A step of another request leaves a request's own part of the invariant true.
LEMMA OtherRequest ==
    ASSUME Ind, TypeOK', Mono, NEW q \in Reqs,
           pc'[q] = pc[q], call'[q] = call[q], view'[q] = view[q],
           cur'[q] = cur[q], res'[q] = res[q]
    PROVE  CallInv(q)' /\ FlowInv(q)'
<1>1. CallInv(q)'
  BY DEF Ind, CallInv
<1>2. call \in [Reqs -> Call] /\ call' \in [Reqs -> Call]
  BY DEF Ind, TypeOK
<1>3. Key(q)' = Key(q)
  BY DEF Key
<1>4. CASE pc[q] = "insert"
  <2>1. AdmittedIn(q, view'[q], call')
    BY <1>2, <1>4, AdmittedStable DEF Ind, FlowInv, CallInv, Mono
  <2>2. call[q].op = "direct" => direct'[Key(q)] = q
    BY <1>4, KeyIsPair, NoConvAssumption DEF Ind, FlowInv, Mono
  <2> QED
    BY <1>1, <1>3, <1>4, <2>1, <2>2 DEF Ind, FlowInv, Opened, CallInv
<1>5. CASE pc[q] = "write"
  <2>1. call[q].conv \in Reqs /\ conversations[call[q].conv] \in Row
    BY <1>5 DEF Ind, CallInv, FlowInv
  <2>2. call[call[q].conv].op \in {"direct", "group"}
    BY <2>1, NoRowAssumption DEF Ind, RowInv
  <2>3. AdmittedIn(call'[q].conv, view'[q], call')
    BY <1>2, <1>5, <2>1, <2>2, AdmittedStable DEF Ind, FlowInv, Mono
  <2> QED
    BY <1>1, <1>5, <2>1, <2>3, NoRowAssumption DEF Ind, FlowInv, CallInv, Opened, Mono
<1>6. CASE pc[q] \notin {"insert", "write"}
  <2>1. pc[q] = "fetch" => direct'[Key(q)] = direct[Key(q)]
    BY KeyIsPair, NoConvAssumption DEF Ind, FlowInv, CallInv, Mono
  <2>2. Opened(q) => direct'[Key(q)] = direct[Key(q)]
    BY KeyIsPair, NoConvAssumption DEF Ind, FlowInv, CallInv, Mono, Opened
  <2> QED
    BY <1>1, <1>3, <1>6, <2>1, <2>2, NoRowAssumption DEF Ind, FlowInv, CallInv, Opened, Mono
<1> QED
  BY <1>1, <1>4, <1>5, <1>6

\* A stored row stays as the invariant says, if the entries written into it
\* have been admitted.
LEMMA OldRow ==
    ASSUME Ind, TypeOK', Mono, NEW c \in Reqs, conversations[c] # NoRow,
           AdmittedIn(c, conversations'[c], call)
    PROVE  RowInv(c)'
<1>1. call \in [Reqs -> Call] /\ call' \in [Reqs -> Call]
  BY DEF Ind, TypeOK
<1>2. /\ call[c].op \in {"direct", "group"}
      /\ call'[c].op = call[c].op
      /\ call'[c].by = call[c].by
      /\ call'[c].user = call[c].user
  BY DEF Ind, RowInv, Mono, Fixed
<1>3. AdmittedIn(c, conversations'[c], call')
  BY <1>1, <1>2, AdmittedStable DEF Mono
<1>4. call[c].op = "direct" => direct'[Key(c)] = c
  BY KeyIsPair, NoConvAssumption DEF Ind, RowInv, Mono
<1> QED
  BY <1>2, <1>3, <1>4 DEF Ind, RowInv, Mono, Key

\* A claimed key stays as the invariant says.
LEMMA OldClaim ==
    ASSUME Ind, TypeOK', Mono, NEW p \in Pairs, direct[p] # NoConv
    PROVE  ClaimInv(p)'
<1>1. direct[p] \in Reqs /\ direct'[p] = direct[p]
  BY DEF Ind, TypeOK, Mono
<1> QED
  BY <1>1 DEF Ind, ClaimInv, Mono, Fixed, Key

\* A step that writes no new row and claims no key keeps the invariant, if the
\* request that takes it and the rows it rewrites do.
LEMMA StepKeeps ==
    ASSUME Ind, TypeOK', Mono, NEW r \in Reqs,
           \A q \in Reqs \ {r} :
              /\ pc'[q] = pc[q]
              /\ call'[q] = call[q]
              /\ view'[q] = view[q]
              /\ cur'[q] = cur[q]
              /\ res'[q] = res[q],
           \A c \in Reqs : conversations[c] = NoRow => conversations'[c] = NoRow,
           \A c \in Reqs : conversations[c] # NoRow =>
              AdmittedIn(c, conversations'[c], call),
           direct' = direct,
           CallInv(r)', FlowInv(r)'
    PROVE  Ind'
<1>1. ASSUME NEW q \in Reqs
      PROVE  CallInv(q)' /\ FlowInv(q)'
  BY OtherRequest
<1>2. ASSUME NEW c \in Reqs
      PROVE  RowInv(c)'
  BY OldRow DEF RowInv
<1>3. ASSUME NEW p \in Pairs
      PROVE  ClaimInv(p)'
  BY OldClaim DEF ClaimInv
<1> QED
  BY <1>1, <1>2, <1>3 DEF Ind


-----------------------------------------------------------------------------
(* One lemma per action: it preserves the inductive invariant *)

\* The parts of Ind, named for use below.
LEMMA IndFacts ==
    ASSUME Ind, NEW r \in Reqs
    PROVE  /\ TypeOK
           /\ CallInv(r) /\ FlowInv(r) /\ RowInv(r)
           /\ call[r] \in Call
           /\ pc[r] \in PCs
           /\ call[r].op = "direct" => Key(r) \in Pairs
  BY KeyIsPair DEF Ind, TypeOK

\* Rows nobody writes are still made of admitted entries.
LEMMA SameRows ==
    ASSUME Ind, conversations' = conversations
    PROVE  /\ \A c \in Reqs : conversations[c] = NoRow => conversations'[c] = NoRow
           /\ \A c \in Reqs : conversations[c] # NoRow =>
                 /\ AdmittedIn(c, conversations'[c], call)
                 /\ conversations'[c] \in Row
                 /\ conversations'[c].type = conversations[c].type
                 /\ conversations'[c].creator = conversations[c].creator
  BY DEF Ind, RowInv, TypeOK

\* A CreateDirectChat request that arrives.
LEMMA CreateDirectChatStep ==
    ASSUME Ind, NEW r \in Reqs, CreateDirectChat(r)
    PROVE  Ind'
<1>0. TypeOK /\ CallInv(r) /\ FlowInv(r) /\ call[r] \in Call
  BY IndFacts
<1> USE DEF CreateDirectChat, Goto, Finish, tables, Acks
<1>1. TypeOK'
  <2>1. PICK u1 \in Users, u2 \in Users :
           /\ call' = [call EXCEPT ![r] = [op |-> "direct", by |-> u1, user |-> u2,
                                           members |-> {}, conv |-> NoConv]]
           /\ IF u1 = u2 THEN Finish(r, "invalid") ELSE Goto(r, "lookup")
    OBVIOUS
  <2>2. call' \in [Reqs -> Call]
    BY <1>0, <2>1 DEF TypeOK, Call, AllOps
  <2> QED
    BY <1>0, <2>1, <2>2 DEF TypeOK, PCs, Answers
<1>2. conversations' = conversations /\ direct' = direct
  OBVIOUS
<1>3. Mono
  BY <1>0, <1>2, SameRows DEF TypeOK, CallInv, Mono, Fixed, Call, Claimed, Stored
<1>4. CallInv(r)'
  BY <1>0, IndFacts DEF TypeOK, CallInv, Call, AllOps
<1>5. FlowInv(r)'
  BY <1>0, <1>2, IndFacts, NoRowAssumption DEF TypeOK, CallInv, FlowInv, RowInv, Call, Key, Opened
<1>6. \A q \in Reqs \ {r} :
         /\ pc'[q] = pc[q]
         /\ call'[q] = call[q]
         /\ view'[q] = view[q]
         /\ cur'[q] = cur[q]
         /\ res'[q] = res[q]
  BY <1>0 DEF TypeOK
<1> QED
  BY <1>1, <1>2, <1>3, <1>4, <1>5, <1>6, SameRows, StepKeeps

\* The first statement of FindDirectChat.
LEMMA LookupDirectStep ==
    ASSUME Ind, NEW r \in Reqs, LookupDirect(r)
    PROVE  Ind'
<1>0. TypeOK /\ CallInv(r) /\ FlowInv(r) /\ call[r] \in Call
  BY IndFacts
<1> USE DEF LookupDirect, Goto, Finish, tables, Acks
<1>1. TypeOK'
  <2>1. Key(r) \in Pairs
    BY <1>0, IndFacts DEF CallInv
  <2>2. call' \in [Reqs -> Call]
    BY <1>0, <2>1 DEF TypeOK, Call
  <2> QED
    BY <1>0, <2>2 DEF TypeOK, PCs
<1>2. conversations' = conversations /\ direct' = direct
  OBVIOUS
<1>3. Mono
  BY <1>0, <1>2, SameRows DEF TypeOK, CallInv, Mono, Fixed, Call, Claimed, Stored
<1>4. CallInv(r)'
  BY <1>0, IndFacts DEF TypeOK, CallInv, Call, AllOps
<1>5. FlowInv(r)'
  <2>1. Key(r) \in Pairs /\ Key(r)' = Key(r)
    BY <1>0, IndFacts DEF TypeOK, CallInv, Key, Call
  <2>2. pc'[r] \in {"claim", "fetch"} /\ ~Opened(r)'
    BY <1>0, <1>4 DEF TypeOK, CallInv, Opened
  <2>3. pc'[r] = "fetch" => /\ call'[r].conv = direct[Key(r)]
                            /\ call'[r].conv \in Reqs
    BY <1>0, <2>1 DEF TypeOK, Call
  <2> QED
    BY <1>2, <2>1, <2>2, <2>3 DEF FlowInv
<1>6. \A q \in Reqs \ {r} :
         /\ pc'[q] = pc[q]
         /\ call'[q] = call[q]
         /\ view'[q] = view[q]
         /\ cur'[q] = cur[q]
         /\ res'[q] = res[q]
  BY <1>0 DEF TypeOK
<1> QED
  BY <1>1, <1>2, <1>3, <1>4, <1>5, <1>6, SameRows, StepKeeps

\* The second statement of FindDirectChat.
LEMMA FetchDirectStep ==
    ASSUME Ind, NEW r \in Reqs, FetchDirect(r)
    PROVE  Ind'
<1>0. TypeOK /\ CallInv(r) /\ FlowInv(r) /\ call[r] \in Call
  BY IndFacts
<1> USE DEF FetchDirect, Goto, Finish, tables, Acks
<1>1. TypeOK'
  <2>1. call' \in [Reqs -> Call]
    BY <1>0 DEF TypeOK, Call
  <2> QED
    BY <1>0, <2>1 DEF TypeOK, PCs, Answers
<1>2. conversations' = conversations /\ direct' = direct
  OBVIOUS
<1>3. Mono
  BY <1>0, <1>2, SameRows DEF TypeOK, CallInv, Mono, Fixed, Call, Claimed, Stored
<1>4. CallInv(r)'
  BY <1>0, IndFacts DEF TypeOK, CallInv, Call, AllOps
<1>5. FlowInv(r)'
  BY <1>0, <1>2, IndFacts, NoRowAssumption DEF TypeOK, CallInv, FlowInv, RowInv, Call, Key, Opened
<1>6. \A q \in Reqs \ {r} :
         /\ pc'[q] = pc[q]
         /\ call'[q] = call[q]
         /\ view'[q] = view[q]
         /\ cur'[q] = cur[q]
         /\ res'[q] = res[q]
  BY <1>0 DEF TypeOK
<1> QED
  BY <1>1, <1>2, <1>3, <1>4, <1>5, <1>6, SameRows, StepKeeps

\* A lookup that fails.
LEMMA FindDirectChatFailsStep ==
    ASSUME Ind, NEW r \in Reqs, FindDirectChatFails(r)
    PROVE  Ind'
<1>0. TypeOK /\ CallInv(r) /\ FlowInv(r) /\ call[r] \in Call
  BY IndFacts
<1> USE DEF FindDirectChatFails, Goto, Finish, tables, Acks
<1>1. TypeOK'
  BY <1>0, IndFacts DEF TypeOK, Call, PCs, Answers, CallInv, FlowInv, AllOps
<1>2. conversations' = conversations /\ direct' = direct
  OBVIOUS
<1>3. Mono
  BY <1>0, <1>2, SameRows DEF TypeOK, CallInv, Mono, Fixed, Call, Claimed, Stored
<1>4. CallInv(r)'
  BY <1>0, IndFacts DEF TypeOK, CallInv, Call, AllOps
<1>5. FlowInv(r)'
  BY <1>0, <1>2, IndFacts, NoRowAssumption DEF TypeOK, CallInv, FlowInv, RowInv, Call, Key, Opened
<1>6. \A q \in Reqs \ {r} :
         /\ pc'[q] = pc[q]
         /\ call'[q] = call[q]
         /\ view'[q] = view[q]
         /\ cur'[q] = cur[q]
         /\ res'[q] = res[q]
  BY <1>0 DEF TypeOK
<1> QED
  BY <1>1, <1>2, <1>3, <1>4, <1>5, <1>6, SameRows, StepKeeps

\* The first index entry of a participant.
LEMMA IndexUserStep ==
    ASSUME Ind, NEW r \in Reqs, IndexUser(r)
    PROVE  Ind'
<1>0. TypeOK /\ CallInv(r) /\ FlowInv(r) /\ call[r] \in Call
  BY IndFacts
<1> USE DEF IndexUser, Goto, Finish, tables, Acks
<1>1. TypeOK'
  BY <1>0, IndFacts DEF TypeOK, Call, PCs, Answers, CallInv, FlowInv, AllOps
<1>2. conversations' = conversations /\ direct' = direct
  OBVIOUS
<1>3. Mono
  BY <1>0, <1>2, SameRows DEF TypeOK, CallInv, Mono, Fixed, Call, Claimed, Stored
<1>4. CallInv(r)'
  BY <1>0, IndFacts DEF TypeOK, CallInv, Call, AllOps
<1>5. FlowInv(r)'
  BY <1>0, <1>2, IndFacts, NoRowAssumption DEF TypeOK, CallInv, FlowInv, RowInv, Call, Key, Opened
<1>6. \A q \in Reqs \ {r} :
         /\ pc'[q] = pc[q]
         /\ call'[q] = call[q]
         /\ view'[q] = view[q]
         /\ cur'[q] = cur[q]
         /\ res'[q] = res[q]
  BY <1>0 DEF TypeOK
<1> QED
  BY <1>1, <1>2, <1>3, <1>4, <1>5, <1>6, SameRows, StepKeeps

\* The second index entry of a participant.
LEMMA IndexConvStep ==
    ASSUME Ind, NEW r \in Reqs, IndexConv(r)
    PROVE  Ind'
<1>0. TypeOK /\ CallInv(r) /\ FlowInv(r) /\ call[r] \in Call
  BY IndFacts
<1> USE DEF IndexConv, Goto, Finish, tables, Acks
<1>1. TypeOK'
  <2>1. <<call[r].conv, cur[r]>> \in Reqs \X Users
    BY <1>0 DEF CallInv, FlowInv
  <2>2. convUsers' \subseteq Reqs \X Users
    BY <1>0, <2>1 DEF TypeOK
  <2>3. pc' \in [Reqs -> PCs] /\ res' \in [Reqs -> Answers]
    BY <1>0 DEF TypeOK, PCs, Answers
  <2>4. todo' \in [Reqs -> SUBSET Users] /\ cur' \in [Reqs -> Users \cup {NoUser}]
    BY <1>0 DEF TypeOK
  <2>5. view' \in [Reqs -> Row \cup {NoRow}]
    BY <1>0 DEF TypeOK
  <2> QED
    BY <1>0, <2>2, <2>3, <2>4, <2>5 DEF TypeOK
<1>2. conversations' = conversations /\ direct' = direct
  OBVIOUS
<1>3. Mono
  BY <1>0, <1>2, SameRows DEF TypeOK, CallInv, Mono, Fixed, Call, Claimed, Stored
<1>4. CallInv(r)'
  BY <1>0, IndFacts DEF TypeOK, CallInv, Call, AllOps
<1>5. FlowInv(r)'
  BY <1>0, <1>2, IndFacts, NoRowAssumption DEF TypeOK, CallInv, FlowInv, RowInv, Call, Key, Opened
<1>6. \A q \in Reqs \ {r} :
         /\ pc'[q] = pc[q]
         /\ call'[q] = call[q]
         /\ view'[q] = view[q]
         /\ cur'[q] = cur[q]
         /\ res'[q] = res[q]
  BY <1>0 DEF TypeOK
<1> QED
  BY <1>1, <1>2, <1>3, <1>4, <1>5, <1>6, SameRows, StepKeeps

\* The first index entry removed.
LEMMA UnindexUserStep ==
    ASSUME Ind, NEW r \in Reqs, UnindexUser(r)
    PROVE  Ind'
<1>0. TypeOK /\ CallInv(r) /\ FlowInv(r) /\ call[r] \in Call
  BY IndFacts
<1> USE DEF UnindexUser, Goto, Finish, tables, Acks
<1>1. TypeOK'
  BY <1>0, IndFacts DEF TypeOK, Call, PCs, Answers, CallInv, FlowInv, AllOps
<1>2. conversations' = conversations /\ direct' = direct
  OBVIOUS
<1>3. Mono
  BY <1>0, <1>2, SameRows DEF TypeOK, CallInv, Mono, Fixed, Call, Claimed, Stored
<1>4. CallInv(r)'
  BY <1>0, IndFacts DEF TypeOK, CallInv, Call, AllOps
<1>5. FlowInv(r)'
  BY <1>0, <1>2, IndFacts, NoRowAssumption DEF TypeOK, CallInv, FlowInv, RowInv, Call, Key, Opened
<1>6. \A q \in Reqs \ {r} :
         /\ pc'[q] = pc[q]
         /\ call'[q] = call[q]
         /\ view'[q] = view[q]
         /\ cur'[q] = cur[q]
         /\ res'[q] = res[q]
  BY <1>0 DEF TypeOK
<1> QED
  BY <1>1, <1>2, <1>3, <1>4, <1>5, <1>6, SameRows, StepKeeps

\* The second index entry removed.
LEMMA UnindexConvStep ==
    ASSUME Ind, NEW r \in Reqs, UnindexConv(r)
    PROVE  Ind'
<1>0. TypeOK /\ CallInv(r) /\ FlowInv(r) /\ call[r] \in Call
  BY IndFacts
<1> USE DEF UnindexConv, Goto, Finish, tables, Acks
<1>1. TypeOK'
  BY <1>0, IndFacts DEF TypeOK, Call, PCs, Answers, CallInv, FlowInv, AllOps
<1>2. conversations' = conversations /\ direct' = direct
  OBVIOUS
<1>3. Mono
  BY <1>0, <1>2, SameRows DEF TypeOK, CallInv, Mono, Fixed, Call, Claimed, Stored
<1>4. CallInv(r)'
  BY <1>0, IndFacts DEF TypeOK, CallInv, Call, AllOps
<1>5. FlowInv(r)'
  BY <1>0, <1>2, IndFacts, NoRowAssumption DEF TypeOK, CallInv, FlowInv, RowInv, Call, Key, Opened
<1>6. \A q \in Reqs \ {r} :
         /\ pc'[q] = pc[q]
         /\ call'[q] = call[q]
         /\ view'[q] = view[q]
         /\ cur'[q] = cur[q]
         /\ res'[q] = res[q]
  BY <1>0 DEF TypeOK
<1> QED
  BY <1>1, <1>2, <1>3, <1>4, <1>5, <1>6, SameRows, StepKeeps

\* A request that ends early.
LEMMA FaultStep ==
    ASSUME Ind, NEW r \in Reqs, Fault(r)
    PROVE  Ind'
<1>0. TypeOK /\ CallInv(r) /\ FlowInv(r) /\ call[r] \in Call
  BY IndFacts
<1> USE DEF Fault, Goto, Finish, tables, Acks
<1>1. TypeOK'
  BY <1>0, IndFacts DEF TypeOK, Call, PCs, Answers, CallInv, FlowInv, AllOps
<1>2. conversations' = conversations /\ direct' = direct
  OBVIOUS
<1>3. Mono
  BY <1>0, <1>2, SameRows DEF TypeOK, CallInv, Mono, Fixed, Call, Claimed, Stored
<1>4. CallInv(r)'
  BY <1>0, IndFacts DEF TypeOK, CallInv, Call, AllOps
<1>5. FlowInv(r)'
  BY <1>0, <1>2, IndFacts, NoRowAssumption DEF TypeOK, CallInv, FlowInv, RowInv, Call, Key, Opened
<1>6. \A q \in Reqs \ {r} :
         /\ pc'[q] = pc[q]
         /\ call'[q] = call[q]
         /\ view'[q] = view[q]
         /\ cur'[q] = cur[q]
         /\ res'[q] = res[q]
  BY <1>0 DEF TypeOK
<1> QED
  BY <1>1, <1>2, <1>3, <1>4, <1>5, <1>6, SameRows, StepKeeps

\* A CreateGroup request that arrives.
LEMMA CreateGroupStep ==
    ASSUME Ind, NEW r \in Reqs, CreateGroup(r)
    PROVE  Ind'
<1>0. TypeOK /\ CallInv(r) /\ FlowInv(r) /\ call[r] \in Call
  BY IndFacts
<1>a. PICK u \in Users, nameOk \in BOOLEAN, ids \in MemberLists :
         /\ call' = [call EXCEPT ![r] = [op |-> "group", by |-> u, user |-> NoUser,
                                         members |-> Named(ids),
                                         conv |-> NoConv]]
         /\ IF GroupVerdict(nameOk, ids) = "ok"
              THEN /\ pc' = [pc EXCEPT ![r] = "insert"]
                   /\ view' = [view EXCEPT ![r] = NewGroupConversation(r, u, ids)]
                   /\ UNCHANGED <<todo, cur, res>>
              ELSE Finish(r, GroupVerdict(nameOk, ids))
  BY DEF CreateGroup
<1> DEFINE new == NewGroupConversation(r, u, ids)
<1>b. call' \in [Reqs -> Call]
  <2>1. Named(ids) \in SUBSET Users
    BY MemberListsAssumption DEF Named
  <2> QED
    BY <1>0, <1>a, <2>1 DEF TypeOK, Call, AllOps
<1>c. /\ call'[r].op = "group" /\ call'[r].by = u
      /\ call'[r].members = Named(ids)
      /\ call'[r].conv = NoConv
      /\ pc[r] = "idle"
  BY <1>0, <1>a DEF TypeOK, CreateGroup
<1>d. /\ new \in Row
      /\ new.type = "group"
      /\ new.creator = u
      /\ AdmittedIn(r, new, call')
      /\ \A e \in new.parts : e.slot = r
  <2>1. ids \in Seq(Users)
    BY MemberListsAssumption
  <2> QED
    BY <1>c, <2>1, NewGroupOK
<1> HIDE DEF new
<1>1. TypeOK'
  <2>1. GroupVerdict(nameOk, ids) \in Answers
    BY DEF GroupVerdict, Answers
  <2>2. UNCHANGED tables
    BY DEF CreateGroup
  <2> QED
    BY <1>0, <1>a, <1>b, <1>d, <2>1, <2>2 DEF TypeOK, PCs, Finish, tables, new
<1>2. conversations' = conversations /\ direct' = direct
  BY DEF CreateGroup, tables
<1>3. Mono
  BY <1>0, <1>2, <1>a, <1>c, SameRows
     DEF TypeOK, CallInv, Mono, Fixed, Claimed, Stored, Finish
<1>e. /\ pc'[r] \in {"insert", "done"}
      /\ pc'[r] = "insert" => view'[r] = new
      /\ res'[r] # "ok"
  <2>1. res[r] # "ok"
    BY <1>0, <1>c DEF CallInv
  <2> QED
    BY <1>0, <1>a, <2>1 DEF TypeOK, Finish, GroupVerdict, new
<1>4. CallInv(r)'
  BY <1>c, <1>e DEF CallInv
<1>5. FlowInv(r)'
  BY <1>c, <1>d, <1>e DEF FlowInv, Opened
<1>6. \A q \in Reqs \ {r} :
         /\ pc'[q] = pc[q]
         /\ call'[q] = call[q]
         /\ view'[q] = view[q]
         /\ cur'[q] = cur[q]
         /\ res'[q] = res[q]
  BY <1>0, <1>a DEF TypeOK, Finish
<1> QED
  BY <1>1, <1>2, <1>3, <1>4, <1>5, <1>6, SameRows, StepKeeps

\* An AddParticipant, RemoveParticipant or MarkAsRead request that arrives.
LEMMA ReceiveStep ==
    ASSUME Ind, NEW r \in Reqs, NEW op \in {"add", "remove", "read"},
           Receive(r, op)
    PROVE  Ind'
<1>0. TypeOK /\ CallInv(r) /\ FlowInv(r) /\ call[r] \in Call
  BY IndFacts
<1>a. PICK c \in Reqs, u \in Users, v \in Users :
         call' = [call EXCEPT ![r] = [op |-> op, by |-> u, user |-> v,
                                      members |-> {}, conv |-> c]]
  BY DEF Receive
<1>b. call' \in [Reqs -> Call]
  BY <1>0, <1>a DEF TypeOK, Call, AllOps
<1>c. /\ call'[r].op = op /\ call'[r].by = u /\ call'[r].user = v
      /\ call'[r].conv = c
      /\ pc[r] = "idle"
      /\ pc'[r] = "check"
      /\ res'[r] = res[r]
  BY <1>0, <1>a DEF TypeOK, Receive, Goto
<1> USE DEF Receive, Goto, tables
<1>1. TypeOK'
  BY <1>0, <1>b DEF TypeOK, PCs
<1>2. conversations' = conversations /\ direct' = direct
  OBVIOUS
<1>3. Mono
  BY <1>0, <1>2, <1>a, SameRows
     DEF TypeOK, CallInv, Mono, Fixed, Claimed, Stored
<1>4. CallInv(r)'
  BY <1>0, <1>c DEF CallInv
<1>5. FlowInv(r)'
  BY <1>c DEF FlowInv, Opened
<1>6. \A q \in Reqs \ {r} :
         /\ pc'[q] = pc[q]
         /\ call'[q] = call[q]
         /\ view'[q] = view[q]
         /\ cur'[q] = cur[q]
         /\ res'[q] = res[q]
  BY <1>0 DEF TypeOK
<1> QED
  BY <1>1, <1>2, <1>3, <1>4, <1>5, <1>6, SameRows, StepKeeps

\* The service's checks: a request to add that passes them is the creator's and
\* is about a group.
LEMMA CheckStep ==
    ASSUME Ind, NEW r \in Reqs, Check(r)
    PROVE  Ind'
<1>0. TypeOK /\ CallInv(r) /\ FlowInv(r) /\ call[r] \in Call
  BY IndFacts
<1> DEFINE c == call[r].conv
           row == FindByID(c)
<1>a. call[r].op \in {"add", "remove", "read"} /\ c \in Reqs
  BY <1>0 DEF CallInv, Check
<1>b. PICK verdict \in Answers :
         /\ IF verdict = "ok" THEN Goto(r, "reread") ELSE Finish(r, verdict)
         /\ (verdict = "ok" /\ call[r].op = "add") =>
               AddVerdict(row, call[r].by, call[r].user) = "ok"
  BY <1>a DEF Check, AddVerdict, RemoveVerdict, ReadVerdict, MayJoin, Answers
<1>c. (verdict = "ok" /\ call[r].op = "add") =>
         /\ conversations[c] \in Row
         /\ conversations[c].type = "group"
         /\ conversations[c].creator = call[r].by
  <2> SUFFICES ASSUME AddVerdict(row, call[r].by, call[r].user) = "ok"
               PROVE  /\ conversations[c] \in Row
                      /\ conversations[c].type = "group"
                      /\ conversations[c].creator = call[r].by
    BY <1>b
  <2>1. row = conversations[c] /\ row # NoRow
    BY DEF AddVerdict, FindByID
  <2>2. conversations[c] \in Row
    BY <1>0, <1>a, <2>1 DEF TypeOK
  <2>3. IsAdmin(row, call[r].by) /\ conversations[c].type # "direct"
    BY <2>1 DEF AddVerdict, MayJoin
  <2>4. PICK e \in conversations[c].parts :
           e.user = call[r].by /\ e.role = "admin"
    BY <2>1, <2>3 DEF IsAdmin
  <2>5. conversations[c].creator = call[r].by
    BY <1>a, <2>1, <2>4 DEF Ind, RowInv, AdmittedIn
  <2> QED
    BY <2>2, <2>3, <2>5 DEF Row
<1> HIDE DEF c, row
<1> USE DEF Check, Goto, Finish, tables
<1>1. TypeOK'
  BY <1>0, <1>b DEF TypeOK, PCs, Answers
<1>2. conversations' = conversations /\ direct' = direct
  OBVIOUS
<1>3. Mono
  BY <1>0, <1>2, <1>b, SameRows
     DEF TypeOK, Mono, Fixed, Claimed, Stored
<1>d. /\ pc'[r] = "reread" => verdict = "ok"
      /\ pc'[r] \in {"reread", "done"}
      /\ call' = call
      /\ pc[r] = "check"
      /\ res'[r] = "ok" => pc'[r] = "done"
      /\ res'[r] # "ok"
  BY <1>0, <1>b DEF TypeOK, CallInv
<1>4. CallInv(r)'
  BY <1>0, <1>d DEF CallInv
<1>5. FlowInv(r)'
  BY <1>2, <1>c, <1>d DEF FlowInv, Opened, c
<1>6. \A q \in Reqs \ {r} :
         /\ pc'[q] = pc[q]
         /\ call'[q] = call[q]
         /\ view'[q] = view[q]
         /\ cur'[q] = cur[q]
         /\ res'[q] = res[q]
  BY <1>0, <1>b DEF TypeOK
<1> QED
  BY <1>1, <1>2, <1>3, <1>4, <1>5, <1>6, SameRows, StepKeeps

\* The repository's own read of the row.
LEMMA RereadStep ==
    ASSUME Ind, NEW r \in Reqs, Reread(r)
    PROVE  Ind'
<1>0. TypeOK /\ CallInv(r) /\ FlowInv(r) /\ call[r] \in Call
  BY IndFacts
<1>a. call[r].op \in {"add", "remove", "read"} /\ call[r].conv \in Reqs
  BY <1>0 DEF CallInv, Reread
<1> USE DEF Reread, Goto, Finish, tables, FindByID
<1>1. TypeOK'
  BY <1>0, <1>a DEF TypeOK, PCs, Answers
<1>2. conversations' = conversations /\ direct' = direct
  OBVIOUS
<1>3. Mono
  BY <1>0, <1>2, SameRows DEF TypeOK, Mono, Fixed, Claimed, Stored
<1>b. /\ call' = call /\ pc[r] = "reread"
      /\ pc'[r] \in {"write", "done"}
      /\ pc'[r] = "write" => /\ view'[r] = conversations[call[r].conv]
                             /\ conversations[call[r].conv] # NoRow
      /\ res'[r] # "ok"
  BY <1>0 DEF TypeOK, CallInv
<1>4. CallInv(r)'
  BY <1>0, <1>b DEF CallInv
<1>5. FlowInv(r)'
  <2>1. pc'[r] = "write" =>
           /\ conversations[call[r].conv] \in Row
           /\ AdmittedIn(call[r].conv, conversations[call[r].conv], call)
    BY <1>0, <1>a, <1>b DEF TypeOK, Ind, RowInv
  <2> QED
    BY <1>0, <1>2, <1>b, <2>1 DEF FlowInv, Opened
<1>6. \A q \in Reqs \ {r} :
         /\ pc'[q] = pc[q]
         /\ call'[q] = call[q]
         /\ view'[q] = view[q]
         /\ cur'[q] = cur[q]
         /\ res'[q] = res[q]
  BY <1>0 DEF TypeOK
<1> QED
  BY <1>1, <1>2, <1>3, <1>4, <1>5, <1>6, SameRows, StepKeeps

\* A write of the participants column that only puts admitted entries there
\* keeps the invariant, whatever the request does next, provided its own part
\* is kept.
LEMMA WriteKeeps ==
    ASSUME Ind, NEW r \in Reqs, pc[r] = "write", TypeOK',
           NEW parts \in SUBSET Participant,
           SetParticipants(call[r].conv, parts),
           AdmittedIn(call[r].conv, [parts |-> parts], call),
           UNCHANGED <<direct, call>>,
           \A q \in Reqs \ {r} :
              /\ pc'[q] = pc[q]
              /\ call'[q] = call[q]
              /\ view'[q] = view[q]
              /\ cur'[q] = cur[q]
              /\ res'[q] = res[q],
           CallInv(r)',
           conversations'[call[r].conv] \in Row => FlowInv(r)'
    PROVE  Ind'
<1>0. TypeOK /\ CallInv(r) /\ FlowInv(r)
  BY IndFacts
<1> DEFINE c == call[r].conv
<1>1. c \in Reqs /\ conversations[c] \in Row
  BY <1>0 DEF CallInv, FlowInv
<1>2. /\ conversations'[c] \in Row
      /\ conversations'[c].type = conversations[c].type
      /\ conversations'[c].creator = conversations[c].creator
      /\ conversations'[c].parts = parts
      /\ \A d \in Reqs \ {c} : conversations'[d] = conversations[d]
  BY <1>0, <1>1 DEF TypeOK, SetParticipants, Row
<1> HIDE DEF c
<1>3. Mono
  BY <1>0, <1>1, <1>2 DEF TypeOK, Mono, Fixed, Claimed, Stored
<1>4. \A d \in Reqs : conversations[d] = NoRow => conversations'[d] = NoRow
  BY <1>1, <1>2, NoRowAssumption
<1>5. \A d \in Reqs : conversations[d] # NoRow =>
         AdmittedIn(d, conversations'[d], call)
  <2>1. AdmittedIn(c, conversations'[c], call)
    BY <1>2 DEF AdmittedIn, c
  <2> QED
    BY <1>2, <2>1 DEF Ind, RowInv
<1> QED
  BY <1>2, <1>3, <1>4, <1>5, StepKeeps DEF c

\* The append of AddParticipant.
LEMMA AddWriteStep ==
    ASSUME Ind, NEW r \in Reqs, AddWrite(r)
    PROVE  Ind'
<1>0. TypeOK /\ CallInv(r) /\ FlowInv(r) /\ call[r] \in Call
  BY IndFacts
<1>a. /\ call[r].conv \in Reqs /\ call[r].by \in Users /\ call[r].user \in Users
      /\ view[r] \in Row /\ conversations[call[r].conv] \in Row
      /\ AdmittedIn(call[r].conv, view[r], call)
  BY <1>0 DEF CallInv, FlowInv, AddWrite
<1> DEFINE parts == view[r].parts \cup {NewParticipant(r, call[r].user, "member")}
<1>b. parts \in SUBSET Participant
  BY <1>a, NewParticipantType DEF Row
<1>c. AdmittedIn(call[r].conv, [parts |-> parts], call)
  <2>1. /\ conversations[call[r].conv].type = "group"
        /\ conversations[call[r].conv].creator = call[r].by
        /\ call[r].op = "add"
    BY <1>0 DEF FlowInv, AddWrite
  <2>2. /\ call[call[r].conv].op = "group"
        /\ call[call[r].conv].by = call[r].by
    BY <1>a, <2>1, NoRowAssumption DEF Ind, RowInv
  <2>3. r # call[r].conv
    BY <2>1, <2>2
  <2> QED
    BY <1>a, <2>1, <2>2, <2>3 DEF AdmittedIn, NewParticipant
<1>d. SetParticipants(call[r].conv, parts)
  BY DEF AddWrite
<1> HIDE DEF parts
<1> USE DEF AddWrite
<1>1. TypeOK'
  <2>1. conversations' \in [Reqs -> Row \cup {NoRow}]
    BY <1>0, <1>a, <1>b, <1>d DEF TypeOK, SetParticipants, Row
  <2> QED
    BY <1>0, <1>a, <2>1 DEF TypeOK, PCs, Answers, Goto, Finish, Acks
<1>4. CallInv(r)'
  BY <1>0 DEF TypeOK, CallInv
<1>5. conversations'[call[r].conv] \in Row => FlowInv(r)'
  BY <1>0, <1>a DEF TypeOK, CallInv, FlowInv, Opened
<1>6. \A q \in Reqs \ {r} :
         /\ pc'[q] = pc[q]
         /\ call'[q] = call[q]
         /\ view'[q] = view[q]
         /\ cur'[q] = cur[q]
         /\ res'[q] = res[q]
  BY <1>0 DEF TypeOK
<1> QED
  BY <1>1, <1>4, <1>5, <1>6, <1>b, <1>c, <1>d, WriteKeeps

\* The filter of RemoveParticipant.
LEMMA RemoveWriteStep ==
    ASSUME Ind, NEW r \in Reqs, RemoveWrite(r)
    PROVE  Ind'
<1>0. TypeOK /\ CallInv(r) /\ FlowInv(r) /\ call[r] \in Call
  BY IndFacts
<1>a. /\ call[r].conv \in Reqs /\ call[r].by \in Users /\ call[r].user \in Users
      /\ view[r] \in Row /\ conversations[call[r].conv] \in Row
      /\ AdmittedIn(call[r].conv, view[r], call)
  BY <1>0 DEF CallInv, FlowInv, RemoveWrite
<1> DEFINE parts == {e \in view[r].parts : e.user # call[r].user}
<1>b. parts \in SUBSET Participant
  BY <1>a DEF Row
<1>c. AdmittedIn(call[r].conv, [parts |-> parts], call)
  BY <1>a DEF AdmittedIn
<1>d. SetParticipants(call[r].conv, parts)
  BY DEF RemoveWrite
<1> HIDE DEF parts
<1> USE DEF RemoveWrite, Goto
<1>1. TypeOK'
  <2>1. conversations' \in [Reqs -> Row \cup {NoRow}]
    BY <1>0, <1>a, <1>b, <1>d DEF TypeOK, SetParticipants, Row
  <2> QED
    BY <1>0, <1>a, <2>1 DEF TypeOK, PCs, Answers, Goto, Finish, Acks
<1>4. CallInv(r)'
  BY <1>0 DEF TypeOK, CallInv
<1>5. conversations'[call[r].conv] \in Row => FlowInv(r)'
  BY <1>0, <1>a DEF TypeOK, CallInv, FlowInv, Opened
<1>6. \A q \in Reqs \ {r} :
         /\ pc'[q] = pc[q]
         /\ call'[q] = call[q]
         /\ view'[q] = view[q]
         /\ cur'[q] = cur[q]
         /\ res'[q] = res[q]
  BY <1>0 DEF TypeOK
<1> QED
  BY <1>1, <1>4, <1>5, <1>6, <1>b, <1>c, <1>d, WriteKeeps

\* The cursor of MarkAsRead.
LEMMA CursorWriteStep ==
    ASSUME Ind, NEW r \in Reqs, CursorWrite(r)
    PROVE  Ind'
<1>0. TypeOK /\ CallInv(r) /\ FlowInv(r) /\ call[r] \in Call
  BY IndFacts
<1>a. /\ call[r].conv \in Reqs /\ call[r].by \in Users /\ call[r].user \in Users
      /\ view[r] \in Row /\ conversations[call[r].conv] \in Row
      /\ AdmittedIn(call[r].conv, view[r], call)
  BY <1>0 DEF CallInv, FlowInv, CursorWrite
<1>e. PICK e \in view[r].parts :
         SetParticipants(call[r].conv,
            (view[r].parts \ {e}) \cup {[e EXCEPT !.read = r]})
  BY DEF CursorWrite
<1> DEFINE parts == (view[r].parts \ {e}) \cup {[e EXCEPT !.read = r]}
<1>b. parts \in SUBSET Participant
  BY <1>a DEF Row, Participant
<1>c. AdmittedIn(call[r].conv, [parts |-> parts], call)
  <2>1. e \in Participant
    BY <1>a DEF Row
  <2>2. /\ [e EXCEPT !.read = r].user = e.user
        /\ [e EXCEPT !.read = r].role = e.role
        /\ [e EXCEPT !.read = r].slot = e.slot
    BY <2>1 DEF Participant
  <2>3. \A f \in parts : \E g \in view[r].parts :
           f.user = g.user /\ f.role = g.role /\ f.slot = g.slot
    BY <2>2
  <2> HIDE DEF parts
  <2> QED
    BY <1>a, <2>3 DEF AdmittedIn
<1>d. SetParticipants(call[r].conv, parts)
  BY <1>e
<1> HIDE DEF parts
<1> USE DEF CursorWrite, Finish, Acks
<1>1. TypeOK'
  <2>1. conversations' \in [Reqs -> Row \cup {NoRow}]
    BY <1>0, <1>a, <1>b, <1>d DEF TypeOK, SetParticipants, Row
  <2> QED
    BY <1>0, <1>a, <2>1 DEF TypeOK, PCs, Answers, Goto, Finish, Acks
<1>4. CallInv(r)'
  BY <1>0 DEF TypeOK, CallInv
<1>5. conversations'[call[r].conv] \in Row => FlowInv(r)'
  BY <1>0, <1>a DEF TypeOK, CallInv, FlowInv, Opened
<1>6. \A q \in Reqs \ {r} :
         /\ pc'[q] = pc[q]
         /\ call'[q] = call[q]
         /\ view'[q] = view[q]
         /\ cur'[q] = cur[q]
         /\ res'[q] = res[q]
  BY <1>0 DEF TypeOK
<1> QED
  BY <1>1, <1>4, <1>5, <1>6, <1>b, <1>c, <1>d, WriteKeeps

\* The lightweight transaction that claims the key of a pair.
LEMMA ClaimDirectKeyStep ==
    ASSUME Ind, NEW r \in Reqs, ClaimDirectKey(r)
    PROVE  Ind'
<1>0. TypeOK /\ CallInv(r) /\ FlowInv(r) /\ call[r] \in Call
  BY IndFacts
<1>a. /\ call[r].op = "direct" /\ call[r].by \in Users /\ call[r].user \in Users
      /\ Key(r) \in Pairs /\ pc[r] = "claim"
      /\ call' = call /\ conversations' = conversations
  BY <1>0, IndFacts DEF CallInv, ClaimDirectKey
<1> DEFINE new == NewDirectConversation(r, call[r].by, call[r].user)
<1>b. /\ new \in Row
      /\ new.type = "direct"
      /\ new.creator = call[r].by
      /\ AdmittedIn(r, new, call)
      /\ \A e \in new.parts : e.slot = r
  BY <1>a, NewDirectOK
<1>c. new = NewDirectConversation(r, call[r].by, call[r].user)
  OBVIOUS
<1> HIDE DEF new
<1> USE DEF ClaimDirectKey, ClaimApplies, Finish
<1>1. TypeOK'
  BY <1>0, <1>a, <1>b, <1>c DEF TypeOK, PCs, Answers
<1>3. Mono
  BY <1>0, <1>a, SameRows DEF TypeOK, Mono, Fixed, Claimed, Stored
<1>4. CallInv(r)'
  BY <1>0, <1>a DEF TypeOK, CallInv
<1>5. FlowInv(r)'
  <2>1. pc'[r] \in {"insert", "done"} /\ ~Opened(r)'
    BY <1>0, <1>a DEF TypeOK, CallInv, Opened
  <2>2. pc'[r] = "insert" => view'[r] = new /\ direct'[Key(r)] = r
    BY <1>0, <1>a, <1>c DEF TypeOK
  <2>3. Key(r)' = Key(r)
    BY <1>a DEF Key
  <2> QED
    BY <1>a, <1>b, <2>1, <2>2, <2>3 DEF FlowInv
<1>6. \A q \in Reqs \ {r} :
         /\ pc'[q] = pc[q]
         /\ call'[q] = call[q]
         /\ view'[q] = view[q]
         /\ cur'[q] = cur[q]
         /\ res'[q] = res[q]
  BY <1>0 DEF TypeOK
<1>7. ASSUME NEW q \in Reqs
      PROVE  CallInv(q)' /\ FlowInv(q)'
  BY <1>1, <1>3, <1>4, <1>5, <1>6, OtherRequest
<1>8. ASSUME NEW c \in Reqs
      PROVE  RowInv(c)'
  BY <1>1, <1>3, <1>a, SameRows, OldRow DEF RowInv
<1>9. ASSUME NEW p \in Pairs
      PROVE  ClaimInv(p)'
  <2>1. CASE direct[p] # NoConv
    BY <1>1, <1>3, <2>1, OldClaim
  <2>2. CASE direct[p] = NoConv
    <3>1. direct'[p] # NoConv => p = Key(r) /\ direct'[p] = r /\ pc'[r] = "insert"
      BY <1>0, <1>a, <2>2 DEF TypeOK
    <3> QED
      BY <1>a, <3>1 DEF ClaimInv, Claimed, Key
  <2> QED
    BY <2>1, <2>2
<1> QED
  BY <1>1, <1>7, <1>8, <1>9 DEF Ind

\* The insert of the conversation row.
LEMMA InsertRowStep ==
    ASSUME Ind, NEW r \in Reqs, InsertRow(r)
    PROVE  Ind'
<1>0. TypeOK /\ CallInv(r) /\ FlowInv(r) /\ RowInv(r) /\ call[r] \in Call
  BY IndFacts
<1>a. /\ call[r].op \in {"direct", "group"} /\ pc[r] = "insert"
      /\ view[r] \in Row
      /\ view[r].type = call[r].op
      /\ view[r].creator = call[r].by
      /\ AdmittedIn(r, view[r], call)
      /\ call[r].op = "direct" => direct[Key(r)] = r
      /\ conversations[r] = NoRow
  BY <1>0 DEF CallInv, FlowInv, RowInv, InsertRow, Stored
<1> USE DEF InsertRow
<1>b. call' \in [Reqs -> Call] /\ call'[r].conv = r
  BY <1>0 DEF TypeOK, Call
<1>1. TypeOK'
  <2>1. Users_of(view[r]) \subseteq Users
    BY <1>a DEF Users_of, Row, Participant
  <2> QED
    BY <1>0, <1>a, <1>b, <2>1 DEF TypeOK, PCs
<1>2. /\ conversations'[r] = view[r]
      /\ \A c \in Reqs \ {r} : conversations'[c] = conversations[c]
      /\ direct' = direct
  BY <1>0 DEF TypeOK
<1>3. Mono
  <2>1. Fixed(call, call')
    BY <1>0, <1>a DEF TypeOK, Fixed, Call
  <2>2. \A c \in Reqs : conversations[c] # NoRow =>
           /\ conversations'[c] \in Row
           /\ conversations'[c].type = conversations[c].type
           /\ conversations'[c].creator = conversations[c].creator
    BY <1>0, <1>1, <1>2, <1>a DEF TypeOK
  <2> QED
    BY <1>0, <1>2, <2>1, <2>2 DEF TypeOK, Mono, Claimed, Stored
<1>4. CallInv(r)'
  BY <1>0, <1>3, <1>a DEF TypeOK, CallInv, Mono, Fixed
<1>5. FlowInv(r)'
  <2>1. pc'[r] = "indexUser" /\ ~Opened(r)'
    BY <1>0, <1>4, <1>a DEF TypeOK, CallInv, Opened
  <2> QED
    BY <1>2, <1>a, <1>b, <2>1 DEF FlowInv
<1>6. \A q \in Reqs \ {r} :
         /\ pc'[q] = pc[q]
         /\ call'[q] = call[q]
         /\ view'[q] = view[q]
         /\ cur'[q] = cur[q]
         /\ res'[q] = res[q]
  BY <1>0 DEF TypeOK
<1>7. ASSUME NEW q \in Reqs
      PROVE  CallInv(q)' /\ FlowInv(q)'
  BY <1>1, <1>3, <1>4, <1>5, <1>6, OtherRequest
<1>8. ASSUME NEW c \in Reqs
      PROVE  RowInv(c)'
  <2>1. CASE c = r
    <3>1. AdmittedIn(r, view[r], call')
      BY <1>0, <1>3, <1>a, <1>b, AdmittedStable DEF TypeOK, Mono
    <3>2. Key(r)' = Key(r) /\ call'[r].op = call[r].op /\ call'[r].by = call[r].by
      BY <1>3, <1>a DEF Key, Mono, Fixed
    <3>3. pc'[r] \in Stored
      BY <1>0 DEF TypeOK, Stored
    <3> QED
      BY <1>2, <1>a, <2>1, <3>1, <3>2, <3>3 DEF RowInv
  <2>2. CASE c # r
    <3>1. CASE conversations[c] = NoRow
      BY <1>2, <2>2, <3>1 DEF RowInv
    <3>2. CASE conversations[c] # NoRow
      <4>1. AdmittedIn(c, conversations'[c], call)
        BY <1>2, <2>2, <3>2 DEF Ind, RowInv
      <4> QED
        BY <1>1, <1>3, <3>2, <4>1, OldRow
    <3> QED
      BY <3>1, <3>2
  <2> QED
    BY <2>1, <2>2
<1>9. ASSUME NEW p \in Pairs
      PROVE  ClaimInv(p)'
  BY <1>1, <1>2, <1>3, OldClaim DEF ClaimInv
<1> QED
  BY <1>1, <1>7, <1>8, <1>9 DEF Ind

-----------------------------------------------------------------------------
(* The theorems *)

\* The empty tables and idle requests satisfy the invariant.
LEMMA InitInd == Init => Ind
<1> SUFFICES ASSUME Init PROVE Ind
  OBVIOUS
<1>1. TypeOK
  BY DEF Init, TypeOK, Call, PCs, Answers
<1> QED
  BY <1>1 DEF Init, Ind, CallInv, FlowInv, RowInv, ClaimInv, Opened

\* Every step preserves it.
LEMMA NextInd == Ind /\ [Next]_vars => Ind'
<1> SUFFICES ASSUME Ind, [Next]_vars PROVE Ind'
  OBVIOUS
<1>1. CASE UNCHANGED vars
  <2> USE <1>1 DEF vars, Ind
  <2>1. TypeOK'
    BY DEF TypeOK
  <2>2. ASSUME NEW r \in Reqs PROVE CallInv(r)' /\ FlowInv(r)' /\ RowInv(r)'
    <3>1. CallInv(r)'
      BY DEF CallInv
    <3>2. FlowInv(r)'
      BY DEF FlowInv, Opened, Key
    <3>3. RowInv(r)'
      BY DEF RowInv, Key
    <3> QED
      BY <3>1, <3>2, <3>3
  <2>3. ASSUME NEW p \in Pairs PROVE ClaimInv(p)'
    BY DEF ClaimInv, Key
  <2> QED
    BY <2>1, <2>2, <2>3
<1>2. ASSUME NEW r \in Reqs, Arrive(r) PROVE Ind'
  BY <1>2, CreateDirectChatStep, CreateGroupStep, ReceiveStep
     DEF Arrive, AddParticipant, RemoveParticipant, MarkAsRead
<1>3. ASSUME NEW r \in Reqs, Step(r) PROVE Ind'
  BY <1>3, LookupDirectStep, FetchDirectStep, ClaimDirectKeyStep, InsertRowStep,
     IndexUserStep, IndexConvStep, CheckStep, RereadStep, AddWriteStep,
     RemoveWriteStep, UnindexUserStep, UnindexConvStep, CursorWriteStep
     DEF Step
<1> QED
  BY <1>1, <1>2, <1>3, FindDirectChatFailsStep, FaultStep DEF Next

\* The inductive invariant holds throughout.
THEOREM Invariance == Spec => []Ind
  BY InitInd, NextInd, PTL DEF Spec

\* Type correctness: no request ever writes to a row that is not there or reads
\* a copy it does not have.
THEOREM TypeCorrect == Spec => []TypeOK
<1>1. Ind => TypeOK
  BY DEF Ind
<1> QED
  BY <1>1, Invariance, PTL

\* Only the two users of its key are in a direct conversation.
LEMMA DirectMembers ==
    ASSUME Ind, NEW c \in Reqs, conversations[c] # NoRow,
           conversations[c].type = "direct"
    PROVE  /\ Users_of(conversations[c]) \subseteq Key(c)
           /\ direct[Key(c)] = c
  BY DEF Ind, RowInv, AdmittedIn, Users_of, Key

\* ConversationRepo.Create never stores two direct conversations of the same two
\* users, for any number of users and racing requests, with any failures.
THEOREM DirectChatsUnique == Spec => []DirectChatUnique
<1>1. Ind => DirectChatUnique
  <2> SUFFICES ASSUME Ind,
                      NEW c \in Reqs, NEW d \in Reqs,
                      NEW u \in Users, NEW v \in Users,
                      u # v,
                      conversations[c] # NoRow, conversations[d] # NoRow,
                      conversations[c].type = "direct",
                      conversations[d].type = "direct",
                      {u, v} \subseteq Users_of(conversations[c]),
                      {u, v} \subseteq Users_of(conversations[d])
               PROVE  c = d
    BY DEF DirectChatUnique
  <2>1. {u, v} \subseteq Key(c) /\ {u, v} \subseteq Key(d)
    BY DirectMembers
  <2>2. Key(c) = {u, v} /\ Key(d) = {u, v}
    BY <2>1 DEF Key
  <2> QED
    BY <2>2, DirectMembers
<1> QED
  BY <1>1, Invariance, PTL

\* All successful CreateDirectChat requests of a pair return the same stored
\* direct conversation, which has nobody else in it.
THEOREM OneChatPerPair == Spec => []SameChat
<1>1. Ind => SameChat
  <2> SUFFICES ASSUME Ind, NEW r \in Reqs, Opened(r)
               PROVE  /\ conversations[call[r].conv] # NoRow
                      /\ conversations[call[r].conv].type = "direct"
                      /\ Users_of(conversations[call[r].conv]) \subseteq Key(r)
                      /\ \A q \in Reqs : Opened(q) /\ Key(q) = Key(r)
                                            => call[q].conv = call[r].conv
    BY DEF SameChat
  <2>1. /\ call[r].conv \in Reqs
        /\ call[r].conv = direct[Key(r)]
        /\ conversations[call[r].conv] \in Row
    BY DEF Ind, FlowInv
  <2>2. conversations[call[r].conv] # NoRow
    BY <2>1, NoRowAssumption
  <2>3. Key(r) \in Pairs
    BY KeyIsPair DEF Opened
  <2>4. /\ call[call[r].conv].op = "direct"
        /\ Key(call[r].conv) = Key(r)
    BY <2>1, <2>3, NoConvAssumption DEF Ind, ClaimInv
  <2>5. conversations[call[r].conv].type = "direct"
    BY <2>1, <2>2, <2>4 DEF Ind, RowInv
  <2>6. Users_of(conversations[call[r].conv]) \subseteq Key(r)
    BY <2>1, <2>2, <2>4, <2>5, DirectMembers
  <2>7. ASSUME NEW q \in Reqs, Opened(q), Key(q) = Key(r)
        PROVE  call[q].conv = call[r].conv
    BY <2>1, <2>7 DEF Ind, FlowInv
  <2> QED
    BY <2>2, <2>5, <2>6, <2>7
<1> QED
  BY <1>1, Invariance, PTL

\* Whatever old copies are written back, everybody in a conversation was put
\* there by the request that created it or by an AddParticipant of its creator.
THEOREM OnlyAdmitted == Spec => []MembersAdmitted
<1>1. Ind => MembersAdmitted
  <2> SUFFICES ASSUME Ind, NEW c \in Reqs, conversations[c] # NoRow,
                      NEW e \in conversations[c].parts
               PROVE  /\ e.slot = c =>
                           /\ e.user \in Founders(c)
                           /\ conversations[c].type = "direct" => e.role = "member"
                           /\ e.role = "admin" => e.user = conversations[c].creator
                      /\ e.slot # c =>
                           /\ conversations[c].type = "group"
                           /\ e.role = "member"
                           /\ call[e.slot].op = "add"
                           /\ call[e.slot].conv = c
                           /\ call[e.slot].user = e.user
                           /\ call[e.slot].by = conversations[c].creator
    BY DEF MembersAdmitted
  <2>1. /\ AdmittedIn(c, conversations[c], call)
        /\ conversations[c].type = call[c].op
        /\ conversations[c].creator = call[c].by
        /\ call[c].op \in {"direct", "group"}
    BY DEF Ind, RowInv
  <2> QED
    BY <2>1 DEF AdmittedIn, Founders, Key
<1> QED
  BY <1>1, Invariance, PTL


-----------------------------------------------------------------------------
(* The refinement of DirectChatRegistry *)

\* A request that has not ended has opened nothing.
LEMMA NotOpened ==
    ASSUME Ind, NEW r \in Reqs, pc[r] # "done"
    PROVE  res[r] # "ok" /\ ~Opened(r)
  BY DEF Ind, CallInv, Opened

\* A step that changes which rows there are, which keys are claimed and what is
\* answered in no way is a stuttering step of the registry.
LEMMA RegistryStutters ==
    ASSUME direct' = direct,
           \A c \in Reqs : conversations'[c] = NoRow <=> conversations[c] = NoRow,
           \A p \in Pairs : direct[p] \in Reqs \cup {NoConv},
           \A q \in Reqs : /\ Opened(q)' <=> Opened(q)
                           /\ Opened(q) => call'[q].conv = call[q].conv
    PROVE  UNCHANGED <<Published, Answered>>
<1>1. Published' = Published
  BY DEF Published
<1>2. Answered' = Answered
  BY DEF Answered
<1> QED
  BY <1>1, <1>2

\* What is common to the steps that open nothing.
LEMMA StillUnopened ==
    ASSUME Ind, NEW r \in Reqs, pc[r] # "done",
           res'[r] # "ok" \/ call'[r].op # "direct",
           \A q \in Reqs \ {r} : call'[q] = call[q] /\ res'[q] = res[q]
    PROVE  \A q \in Reqs : /\ Opened(q)' <=> Opened(q)
                           /\ Opened(q) => call'[q].conv = call[q].conv
  BY NotOpened DEF Opened

\* A request that arrives is not answered with a chat.
LEMMA ArriveStutters ==
    ASSUME Ind, NEW r \in Reqs, Arrive(r)
    PROVE  UNCHANGED <<Published, Answered>>
<1>1. TypeOK /\ pc[r] = "idle" /\ UNCHANGED tables
  BY DEF Ind, Arrive, CreateDirectChat, CreateGroup, AddParticipant,
         RemoveParticipant, MarkAsRead, Receive
<1>2. /\ res'[r] # "ok" \/ call'[r].op # "direct"
      /\ \A q \in Reqs \ {r} : call'[q] = call[q] /\ res'[q] = res[q]
  <2>1. res[r] # "ok"
    BY <1>1, NotOpened
  <2>2. CASE CreateDirectChat(r)
    BY <1>1, <2>1, <2>2 DEF CreateDirectChat, Finish, Goto, TypeOK
  <2>3. CASE CreateGroup(r)
    BY <1>1, <2>1, <2>3 DEF CreateGroup, Finish, GroupVerdict, TypeOK
  <2>4. ASSUME NEW op, Receive(r, op)
        PROVE  <1>2!1 /\ <1>2!2
    BY <1>1, <2>1, <2>4 DEF Receive, Goto, TypeOK
  <2> QED
    BY <2>2, <2>3, <2>4 DEF Arrive, AddParticipant, RemoveParticipant, MarkAsRead
<1> QED
  BY <1>1, <1>2, StillUnopened, RegistryStutters DEF TypeOK, tables


\* The writes to the participants column find a row there and leave one.
LEMMA WritesKeepRows ==
    ASSUME Ind, NEW r \in Reqs, AddWrite(r) \/ RemoveWrite(r) \/ CursorWrite(r)
    PROVE  \A c \in Reqs : conversations'[c] = NoRow <=> conversations[c] = NoRow
<1>1. /\ TypeOK
      /\ call[r].conv \in Reqs
      /\ conversations[call[r].conv] \in Row
  BY DEF Ind, CallInv, FlowInv, AddWrite, RemoveWrite, CursorWrite
<1>2. \E parts \in SUBSET Participant :
         conversations' = [conversations EXCEPT ![call[r].conv].parts = parts]
  <2>1. call[r].user \in Users /\ view[r] \in Row
    BY DEF Ind, CallInv, FlowInv, AddWrite, RemoveWrite, CursorWrite
  <2>2. CASE AddWrite(r)
    BY <2>1, <2>2, NewParticipantType DEF AddWrite, SetParticipants, Row
  <2>3. CASE RemoveWrite(r)
    BY <2>1, <2>3 DEF RemoveWrite, SetParticipants, Row
  <2>4. CASE CursorWrite(r)
    <3>1. PICK e \in view[r].parts :
             conversations' = [conversations EXCEPT ![call[r].conv].parts =
                (view[r].parts \ {e}) \cup {[e EXCEPT !.read = r]}]
      BY <2>4 DEF CursorWrite, SetParticipants
    <3>2. [e EXCEPT !.read = r] \in Participant
      BY <2>1, <3>1 DEF Row, Participant
    <3>3. (view[r].parts \ {e}) \cup {[e EXCEPT !.read = r]} \in SUBSET Participant
      BY <2>1, <3>2 DEF Row
    <3> QED
      BY <3>1, <3>3
  <2> QED
    BY <2>2, <2>3, <2>4
<1>3. conversations'[call[r].conv] \in Row
  BY <1>1, <1>2 DEF TypeOK, Row
<1>4. \A c \in Reqs \ {call[r].conv} : conversations'[c] = conversations[c]
  BY <1>1, <1>2 DEF TypeOK
<1> QED
  BY <1>1, <1>3, <1>4, NoRowAssumption

\* The steps of a request that write no new row, claim no key and open nothing.
LEMMA StatementStutters ==
    ASSUME Ind, NEW r \in Reqs,
           \/ LookupDirect(r) \/ Check(r) \/ Reread(r) \/ IndexUser(r)
           \/ AddWrite(r) \/ RemoveWrite(r) \/ CursorWrite(r)
           \/ UnindexUser(r) \/ UnindexConv(r)
           \/ FindDirectChatFails(r) \/ Fault(r)
    PROVE  UNCHANGED <<Published, Answered>>
<1> USE DEF LookupDirect, Check, Reread, IndexUser, AddWrite, RemoveWrite,
            CursorWrite, UnindexUser, UnindexConv, FindDirectChatFails, Fault,
            SetParticipants, Finish, Goto, tables
<1>1. TypeOK /\ CallInv(r) /\ FlowInv(r) /\ pc[r] # "done" /\ res[r] # "ok"
  BY NotOpened DEF Ind
<1>2. direct' = direct
  OBVIOUS
<1>3. \A c \in Reqs : conversations'[c] = NoRow <=> conversations[c] = NoRow
  <2>1. CASE conversations' = conversations
    BY <2>1
  <2>2. CASE AddWrite(r) \/ RemoveWrite(r) \/ CursorWrite(r)
    BY <2>2, WritesKeepRows
  <2> QED
    BY <2>1, <2>2
<1>4. /\ res'[r] # "ok" \/ call'[r].op # "direct"
      /\ \A q \in Reqs \ {r} : call'[q] = call[q] /\ res'[q] = res[q]
  <2>1. CASE LookupDirect(r) \/ FindDirectChatFails(r)
    BY <1>1, <2>1 DEF TypeOK
  <2>2. CASE Check(r)
    BY <1>1, <2>2 DEF TypeOK, CallInv
  <2>3. CASE Reread(r) \/ IndexUser(r) \/ Fault(r)
    BY <1>1, <2>3 DEF TypeOK
  <2>4. CASE AddWrite(r) \/ RemoveWrite(r) \/ UnindexUser(r)
    BY <1>1, <2>4 DEF TypeOK
  <2>5. CASE CursorWrite(r) \/ UnindexConv(r)
    BY <1>1, <2>5 DEF TypeOK, CallInv
  <2> QED
    BY <2>1, <2>2, <2>3, <2>4, <2>5
<1> QED
  BY <1>1, <1>2, <1>3, <1>4, StillUnopened, RegistryStutters DEF TypeOK

\* A claim publishes nothing: the row is yet to come.
LEMMA ClaimStutters ==
    ASSUME Ind, NEW r \in Reqs, ClaimDirectKey(r)
    PROVE  UNCHANGED <<Published, Answered>>
<1> USE DEF ClaimDirectKey, ClaimApplies, Finish
<1>1. TypeOK /\ CallInv(r) /\ pc[r] # "done" /\ res[r] # "ok" /\ Key(r) \in Pairs
  BY NotOpened, KeyIsPair DEF Ind, CallInv
<1>2. conversations[r] = NoRow
  BY DEF Ind, RowInv, Stored
<1>3. Published' = Published
  BY <1>1, <1>2 DEF Published, TypeOK
<1>4. Answered' = Answered
  <2>1. /\ res'[r] # "ok" \/ call'[r].op # "direct"
        /\ \A q \in Reqs \ {r} : call'[q] = call[q] /\ res'[q] = res[q]
    BY <1>1 DEF TypeOK
  <2> QED
    BY <1>1, <2>1, StillUnopened DEF Answered
<1> QED
  BY <1>3, <1>4

\* The insert of its row publishes the chat of a pair; that of a group does not.
LEMMA InsertPublishes ==
    ASSUME Ind, NEW r \in Reqs, InsertRow(r)
    PROVE  \/ Registry!Publish(Key(r), r) /\ Key(r) \in Pairs
           \/ UNCHANGED <<Published, Answered>>
<1> USE DEF InsertRow
<1>1. /\ TypeOK /\ CallInv(r) /\ FlowInv(r) /\ RowInv(r)
      /\ pc[r] # "done" /\ res[r] # "ok"
  BY NotOpened DEF Ind
<1>2. conversations[r] = NoRow
  BY <1>1 DEF RowInv, Stored
<1>3. conversations' = [conversations EXCEPT ![r] = view[r]] /\ view[r] \in Row
  BY <1>1 DEF FlowInv
<1>4. Answered' = Answered
  <2>1. /\ res'[r] # "ok" \/ call'[r].op # "direct"
        /\ \A q \in Reqs \ {r} : call'[q] = call[q] /\ res'[q] = res[q]
    BY <1>1 DEF TypeOK
  <2> QED
    BY <1>1, <2>1, StillUnopened DEF Answered
<1>5. ASSUME NEW p \in Pairs, direct[p] = r
      PROVE  call[r].op = "direct" /\ p = Key(r)
  BY <1>5, NoConvAssumption DEF Ind, ClaimInv
<1>6. CASE call[r].op = "direct"
  <2>1. Key(r) \in Pairs /\ direct[Key(r)] = r
    BY <1>1, <1>6, KeyIsPair DEF FlowInv
  <2>2. Published[Key(r)] = NoConv
    BY <1>2, <2>1 DEF Published
  <2>3. Published' = [Published EXCEPT ![Key(r)] = r]
    BY <1>1, <1>2, <1>3, <1>5, <2>1, NoRowAssumption, NoConvAssumption DEF Published, TypeOK
  <2> QED
    BY <1>4, <2>1, <2>2, <2>3 DEF Registry!Publish
<1>7. CASE call[r].op # "direct"
  <2>1. \A p \in Pairs : direct[p] # r
    BY <1>5, <1>7
  <2>2. Published' = Published
    BY <1>1, <1>3, <2>1 DEF Published, TypeOK
  <2> QED
    BY <1>4, <2>2
<1> QED
  BY <1>6, <1>7

\* A request that ends well with the chat its pair has published answers it.
LEMMA EndAnswers ==
    ASSUME Ind, NEW r \in Reqs, call[r].op = "direct", pc[r] # "done",
           UNCHANGED <<conversations, direct, call>>,
           res' = [res EXCEPT ![r] = "ok"],
           call[r].conv \in Reqs, direct[Key(r)] = call[r].conv,
           conversations[call[r].conv] # NoRow
    PROVE  Registry!Answer(r, Key(r)) /\ Key(r) \in Pairs
<1>1. TypeOK /\ Key(r) \in Pairs
  BY KeyIsPair DEF Ind
<1>2. Published' = Published
  BY DEF Published
<1>3. Published[Key(r)] = call[r].conv /\ call[r].conv # NoConv
  BY <1>1, NoConvAssumption DEF Published
<1>4. Answered[r] = NoConv
  BY NotOpened DEF Answered
<1>5. Answered' = [Answered EXCEPT ![r] = call[r].conv]
  BY <1>1 DEF Answered, Opened, TypeOK
<1> QED
  BY <1>1, <1>2, <1>3, <1>4, <1>5 DEF Registry!Answer

\* The two statements that may be the last one of CreateDirectChat.
LEMMA LastStepAnswers ==
    ASSUME Ind, NEW r \in Reqs, FetchDirect(r) \/ IndexConv(r)
    PROVE  \/ Registry!Answer(r, Key(r)) /\ Key(r) \in Pairs
           \/ UNCHANGED <<Published, Answered>>
<1> USE DEF FetchDirect, IndexConv, Finish, Goto, tables
<1>1. /\ TypeOK /\ CallInv(r) /\ FlowInv(r) /\ RowInv(r)
      /\ pc[r] # "done" /\ res[r] # "ok"
  BY NotOpened DEF Ind
<1>2. CASE res'[r] = "ok" /\ call'[r].op = "direct"
  <2>1. /\ UNCHANGED <<conversations, direct, call>>
        /\ res' = [res EXCEPT ![r] = "ok"]
    BY <1>1, <1>2 DEF TypeOK
  <2>2. /\ call[r].conv \in Reqs /\ direct[Key(r)] = call[r].conv
        /\ conversations[call[r].conv] # NoRow
    <3>1. CASE FetchDirect(r)
      BY <1>1, <1>2, <3>1 DEF FlowInv, TypeOK
    <3>2. CASE IndexConv(r)
      BY <1>1, <1>2, <2>1, <3>2, NoRowAssumption DEF FlowInv, RowInv
    <3> QED
      BY <3>1, <3>2
  <2> QED
    BY <1>1, <1>2, <2>1, <2>2, EndAnswers
<1>3. CASE ~(res'[r] = "ok" /\ call'[r].op = "direct")
  <2>1. \A q \in Reqs \ {r} : call'[q] = call[q] /\ res'[q] = res[q]
    BY <1>1 DEF TypeOK
  <2> QED
    BY <1>1, <1>3, <2>1, StillUnopened, RegistryStutters DEF TypeOK
<1> QED
  BY <1>2, <1>3

\* Every step of the service is one of the register's, or none.
LEMMA NextRefines == Ind /\ [Next]_vars => [Registry!Next]_(Registry!vars)
<1> SUFFICES ASSUME Ind, [Next]_vars
             PROVE  Registry!Next \/ UNCHANGED <<Published, Answered>>
  BY DEF Registry!vars
<1>1. CASE UNCHANGED vars
  BY <1>1 DEF vars, Published, Answered, Opened
<1>2. ASSUME NEW r \in Reqs, InsertRow(r)
      PROVE  Registry!Next \/ UNCHANGED <<Published, Answered>>
  BY <1>2, InsertPublishes DEF Registry!Next
<1>3. ASSUME NEW r \in Reqs, FetchDirect(r) \/ IndexConv(r)
      PROVE  Registry!Next \/ UNCHANGED <<Published, Answered>>
  BY <1>3, LastStepAnswers DEF Registry!Next
<1>4. ASSUME NEW r \in Reqs,
             Arrive(r) \/ Step(r) \/ FindDirectChatFails(r) \/ Fault(r)
      PROVE  Registry!Next \/ UNCHANGED <<Published, Answered>>
  BY <1>2, <1>3, <1>4, ArriveStutters, StatementStutters, ClaimStutters DEF Step
<1> QED
  BY <1>1, <1>4 DEF Next

\* CreateDirectChat, with all its races and failures, implements a register per
\* pair of users that is written once: a chat that anybody was given is the
\* pair's chat for ever, and everybody else of the pair is given the same one.
THEOREM RegistryImplemented == Spec => ImplementsRegistry
<1>1. Init => Registry!Init
  BY DEF Init, Registry!Init, Published, Answered, Opened
<1>2. Ind /\ [Next]_vars => [Registry!Next]_(Registry!vars)
  BY NextRefines
<1> QED
  BY <1>1, <1>2, Invariance, PTL DEF Spec, ImplementsRegistry, Registry!Spec


-----------------------------------------------------------------------------
(* The indexes *)

Indexing == {"indexUser", "indexConv"}

\* User u sees conversation c in their list, or was removed from it.
Listed(c, u) ==
    \/ <<u, c>> \in userConvs /\ <<c, u>> \in convUsers
    \/ Removed(c, u)

\* The request that created c will list u, has done so, or was cut off.
Covered(c, u) == res[c] = "error" \/ u \in todo[c] \/ Listed(c, u)

\* A copy of conversation c, however old, holds no founder who was forgotten.
FoundersCovered(c, row) == \A e \in row.parts : e.slot = c => Covered(c, e.user)

\* What the request that writes index entries, or rewrites a participants column
\* with founders in it, knows.
IndexInv(r) ==
    /\ conversations[r] # NoRow => FoundersCovered(r, conversations[r])
    /\ pc[r] = "write" => FoundersCovered(call[r].conv, view[r])
    /\ pc[r] \notin Indexing => todo[r] = {}
    /\ pc[r] # "done" => res[r] = "none"
    /\ pc[r] \in Indexing /\ call[r].op # "add" => todo[r] \subseteq Founders(r)
    /\ pc[r] \in Indexing /\ call[r].op = "add" =>
          /\ todo[r] = {call[r].user}
          /\ conversations[call[r].conv].type = "group"
          /\ conversations[call[r].conv].creator = call[r].by
    /\ pc[r] = "indexConv" =>
          /\ cur[r] \in todo[r]
          /\ \/ <<cur[r], call[r].conv>> \in userConvs
             \/ Removed(call[r].conv, cur[r])
    /\ call[r].op = "add" /\ res[r] = "ok" => Listed(call[r].conv, call[r].user)
    /\ call[r].op = "group" /\ res[r] = "ok" => /\ call[r].conv = r
                                                /\ conversations[r] # NoRow

IndexInd == IndexBehindRow /\ \A r \in Reqs : IndexInv(r)

Steps(r) == Arrive(r) \/ Step(r) \/ FindDirectChatFails(r) \/ Fault(r)

\* A step of one request does not touch the others.
LEMMA OthersRest ==
    ASSUME TypeOK, NEW r \in Reqs, Steps(r)
    PROVE  \A q \in Reqs \ {r} :
              /\ pc'[q] = pc[q] /\ call'[q] = call[q] /\ view'[q] = view[q]
              /\ todo'[q] = todo[q] /\ cur'[q] = cur[q] /\ res'[q] = res[q]
<1> USE DEF TypeOK, Finish, Goto
<1>1. CASE Arrive(r)
  BY <1>1 DEF Arrive, CreateDirectChat, CreateGroup, AddParticipant,
              RemoveParticipant, MarkAsRead, Receive
<1>2. CASE FindDirectChatFails(r) \/ Fault(r)
  BY <1>2 DEF FindDirectChatFails, Fault
<1>3. CASE LookupDirect(r) \/ FetchDirect(r) \/ ClaimDirectKey(r) \/ InsertRow(r)
  BY <1>3 DEF LookupDirect, FetchDirect, ClaimDirectKey, InsertRow
<1>4. CASE IndexUser(r) \/ IndexConv(r) \/ UnindexUser(r) \/ UnindexConv(r)
  BY <1>4 DEF IndexUser, IndexConv, UnindexUser, UnindexConv
<1>5. CASE Check(r) \/ Reread(r)
  BY <1>5 DEF Check, Reread
<1>6. CASE AddWrite(r) \/ RemoveWrite(r) \/ CursorWrite(r)
  BY <1>6 DEF AddWrite, RemoveWrite, CursorWrite
<1> QED
  BY <1>1, <1>2, <1>3, <1>4, <1>5, <1>6 DEF Steps, Step

\* A request that has arrived stays what it is, and one that is done takes no
\* more steps.
LEMMA CallStays ==
    ASSUME Ind, NEW r \in Reqs, Steps(r)
    PROVE  /\ pc[r] # "done"
           /\ pc[r] # "idle" => /\ call'[r].op = call[r].op
                                /\ call'[r].by = call[r].by
                                /\ call'[r].user = call[r].user
                                /\ call'[r].members = call[r].members
           /\ pc[r] \notin {"idle", "lookup", "fetch", "claim", "insert"} =>
                 call'[r] = call[r]
<1> USE DEF Finish, Goto, Ind, TypeOK, Call, tables
<1>1. CASE Arrive(r)
  BY <1>1 DEF Arrive, CreateDirectChat, CreateGroup, AddParticipant,
              RemoveParticipant, MarkAsRead, Receive
<1>2. CASE FindDirectChatFails(r) \/ Fault(r)
  BY <1>2 DEF FindDirectChatFails, Fault
<1>3. CASE LookupDirect(r) \/ FetchDirect(r) \/ ClaimDirectKey(r) \/ InsertRow(r)
  BY <1>3 DEF LookupDirect, FetchDirect, ClaimDirectKey, InsertRow
<1>4. CASE IndexUser(r) \/ IndexConv(r) \/ UnindexUser(r) \/ UnindexConv(r)
  BY <1>4 DEF IndexUser, IndexConv, UnindexUser, UnindexConv
<1>5. CASE Check(r) \/ Reread(r)
  BY <1>5 DEF Check, Reread
<1>6. CASE AddWrite(r) \/ RemoveWrite(r) \/ CursorWrite(r)
  BY <1>6 DEF AddWrite, RemoveWrite, CursorWrite
<1> QED
  BY <1>1, <1>2, <1>3, <1>4, <1>5, <1>6 DEF Steps, Step

\* Who was removed from a conversation was.
LEMMA RemovedStays ==
    ASSUME Ind, NEW r \in Reqs, Steps(r), NEW c, NEW u, Removed(c, u)
    PROVE  Removed(c, u)'
<1>1. PICK q \in Reqs : /\ call[q].op = "remove"
                        /\ call[q].conv = c
                        /\ call[q].user = u
                        /\ \/ pc[q] \in {"unindexUser", "unindexConv"}
                           \/ pc[q] = "done" /\ res[q] \in {"ok", "error"}
  BY DEF Removed
<1>2. CASE q # r
  BY <1>1, <1>2, OthersRest DEF Removed, Ind
<1>3. CASE q = r
  <2>1. pc[r] \in {"unindexUser", "unindexConv"} /\ call'[r] = call[r]
    BY <1>1, <1>3, CallStays
  <2>2. UnindexUser(r) \/ UnindexConv(r) \/ Fault(r)
    BY <2>1 DEF Steps, Arrive, CreateDirectChat, CreateGroup, AddParticipant,
                RemoveParticipant, MarkAsRead, Receive, Step, LookupDirect,
                FetchDirect, ClaimDirectKey, InsertRow, IndexUser, IndexConv,
                Check, Reread, AddWrite, RemoveWrite, CursorWrite,
                FindDirectChatFails
  <2>3. \/ pc'[r] = "unindexConv"
        \/ pc'[r] = "done" /\ res'[r] \in {"ok", "error"}
    BY <2>2 DEF UnindexUser, UnindexConv, Fault, Finish, Goto, Acks, Ind, TypeOK
  <2> QED
    BY <1>1, <1>3, <2>1, <2>3 DEF Removed
<1> QED
  BY <1>2, <1>3

\* The statements that write to the conversations table.
LEMMA TableStays ==
    ASSUME NEW r \in Reqs, Steps(r), ~InsertRow(r),
           ~AddWrite(r), ~RemoveWrite(r), ~CursorWrite(r)
    PROVE  conversations' = conversations
<1>1. CASE Arrive(r)
  BY <1>1 DEF Arrive, CreateDirectChat, CreateGroup, AddParticipant,
              RemoveParticipant, MarkAsRead, Receive, tables
<1>2. CASE FindDirectChatFails(r) \/ Fault(r)
  BY <1>2 DEF FindDirectChatFails, Fault, tables
<1>3. CASE Step(r)
  BY <1>3 DEF Step, LookupDirect, FetchDirect, ClaimDirectKey, IndexUser,
              IndexConv, UnindexUser, UnindexConv, Check, Reread, tables
<1> QED
  BY <1>1, <1>2, <1>3 DEF Steps

\* A stored row keeps its creator.
LEMMA CreatorStays ==
    ASSUME Ind, NEW r \in Reqs, Steps(r), NEW c \in Reqs, conversations[c] # NoRow
    PROVE  conversations'[c].creator = conversations[c].creator
<1>1. Ind'
  BY NextInd DEF Steps, Next
<1>2. conversations'[c] # NoRow
  <2>1. CASE InsertRow(r)
    BY <2>1, NoRowAssumption DEF InsertRow, Ind, FlowInv, TypeOK
  <2>2. CASE AddWrite(r) \/ RemoveWrite(r) \/ CursorWrite(r)
    BY <2>2, WritesKeepRows
  <2>3. CASE ~(InsertRow(r) \/ AddWrite(r) \/ RemoveWrite(r) \/ CursorWrite(r))
    BY <2>3, TableStays
  <2> QED
    BY <2>1, <2>2, <2>3
<1>3. call'[c].by = call[c].by
  <2>1. pc[c] # "idle" /\ TypeOK
    BY DEF Ind, RowInv, Stored
  <2> QED
    BY <2>1, CallStays, OthersRest
<1> QED
  BY <1>1, <1>2, <1>3 DEF Ind, RowInv

\* Who was added to a group by its creator was.
LEMMA JoinedStays ==
    ASSUME Ind, NEW r \in Reqs, Steps(r), NEW c \in Reqs, NEW u,
           conversations[c] # NoRow, Joined(c, u)
    PROVE  Joined(c, u)'
<1>1. PICK q \in Reqs : /\ call[q].op = "add"
                        /\ call[q].conv = c
                        /\ call[q].user = u
                        /\ call[q].by = conversations[c].creator
                        /\ \/ pc[q] \in {"indexUser", "indexConv"}
                           \/ pc[q] = "done" /\ res[q] \in {"ok", "error"}
  BY DEF Joined
<1>2. conversations'[c].creator = conversations[c].creator
  BY CreatorStays
<1>3. CASE q # r
  BY <1>1, <1>2, <1>3, OthersRest DEF Joined, Ind
<1>4. CASE q = r
  <2>1. pc[r] \in {"indexUser", "indexConv"} /\ call'[r] = call[r]
    BY <1>1, <1>4, CallStays
  <2>2. IndexUser(r) \/ IndexConv(r) \/ Fault(r)
    BY <2>1 DEF Steps, Arrive, CreateDirectChat, CreateGroup, AddParticipant,
                RemoveParticipant, MarkAsRead, Receive, Step, LookupDirect,
                FetchDirect, ClaimDirectKey, InsertRow, UnindexUser, UnindexConv,
                Check, Reread, AddWrite, RemoveWrite, CursorWrite,
                FindDirectChatFails
  <2>3. \/ pc'[r] \in {"indexUser", "indexConv"}
        \/ pc'[r] = "done" /\ res'[r] \in {"ok", "error"}
    BY <2>2 DEF IndexUser, IndexConv, Fault, Finish, Acks, Ind, TypeOK
  <2> QED
    BY <1>1, <1>2, <1>4, <2>1, <2>3 DEF Joined
<1> QED
  BY <1>3, <1>4


\* The steps that touch the indexes.
LEMMA IndexesStay ==
    ASSUME NEW r \in Reqs, Steps(r)
    PROVE  /\ ~UnindexUser(r) => userConvs \subseteq userConvs'
           /\ ~UnindexConv(r) => convUsers \subseteq convUsers'
           /\ ~IndexUser(r) => userConvs' \subseteq userConvs
           /\ ~IndexConv(r) => convUsers' \subseteq convUsers
<1>1. CASE Arrive(r)
  BY <1>1 DEF Arrive, CreateDirectChat, CreateGroup, AddParticipant,
              RemoveParticipant, MarkAsRead, Receive, tables
<1>2. CASE FindDirectChatFails(r) \/ Fault(r)
  BY <1>2 DEF FindDirectChatFails, Fault, tables
<1>3. CASE LookupDirect(r) \/ FetchDirect(r) \/ ClaimDirectKey(r) \/ InsertRow(r)
  BY <1>3 DEF LookupDirect, FetchDirect, ClaimDirectKey, InsertRow, tables
<1>4. CASE IndexUser(r) \/ IndexConv(r) \/ UnindexUser(r) \/ UnindexConv(r)
  BY <1>4 DEF IndexUser, IndexConv, UnindexUser, UnindexConv
<1>5. CASE Check(r) \/ Reread(r)
  BY <1>5 DEF Check, Reread, tables
<1>6. CASE AddWrite(r) \/ RemoveWrite(r) \/ CursorWrite(r)
  BY <1>6 DEF AddWrite, RemoveWrite, CursorWrite
<1> QED
  BY <1>1, <1>2, <1>3, <1>4, <1>5, <1>6 DEF Steps, Step

\* An index entry goes only when its user is removed.
LEMMA ListedStays ==
    ASSUME Ind, NEW r \in Reqs, Steps(r), NEW c, NEW u, Listed(c, u)
    PROVE  Listed(c, u)'
<1>1. CASE Removed(c, u)
  BY <1>1, RemovedStays DEF Listed
<1>2. CASE <<u, c>> \in userConvs /\ <<c, u>> \in convUsers /\ ~Removed(c, u)
  <2>1. UnindexUser(r) \/ UnindexConv(r) =>
           Removed(call[r].conv, call[r].user)
    BY DEF UnindexUser, UnindexConv, Removed, Ind, CallInv
  <2>2. <<u, c>> \in userConvs'
    BY <1>2, <2>1, IndexesStay DEF UnindexUser
  <2>3. <<c, u>> \in convUsers'
    BY <1>2, <2>1, IndexesStay DEF UnindexConv
  <2> QED
    BY <2>2, <2>3 DEF Listed
<1> QED
  BY <1>1, <1>2 DEF Listed

\* Half of an index entry, too.
LEMMA HalfListedStays ==
    ASSUME Ind, NEW r \in Reqs, Steps(r), NEW c, NEW u,
           <<u, c>> \in userConvs \/ Removed(c, u)
    PROVE  <<u, c>> \in userConvs' \/ Removed(c, u)'
<1>1. CASE Removed(c, u)
  BY <1>1, RemovedStays
<1>2. CASE <<u, c>> \in userConvs /\ ~Removed(c, u)
  <2>1. UnindexUser(r) => Removed(call[r].conv, call[r].user)
    BY DEF UnindexUser, Removed, Ind, CallInv
  <2> QED
    BY <1>2, <2>1, IndexesStay DEF UnindexUser
<1> QED
  BY <1>1, <1>2

\* The loop over the participants ends when all of them are listed.
LEMMA LoopCovers ==
    ASSUME Ind, IndexInd, NEW r \in Reqs, IndexConv(r),
           NEW c, NEW u, c = call[r].conv, u = cur[r]
    PROVE  Listed(c, u)' /\ todo'[r] = todo[r] \ {u}
<1>1. u \in todo[r] /\ (<<u, c>> \in userConvs \/ Removed(c, u))
  BY DEF IndexInd, IndexInv, IndexConv
<1>2. Steps(r)
  BY DEF Steps, Step
<1>3. <<u, c>> \in userConvs' \/ Removed(c, u)'
  BY <1>1, <1>2, HalfListedStays
<1>4. <<c, u>> \in convUsers'
  BY DEF IndexConv
<1>5. Listed(c, u)'
  BY <1>3, <1>4 DEF Listed
<1>6. todo'[r] = todo[r] \ {u}
  BY <1>1 DEF IndexConv, Finish, Ind, TypeOK
<1> QED
  BY <1>5, <1>6

\* Nobody is forgotten.
LEMMA CoveredStays ==
    ASSUME Ind, IndexInd, NEW r \in Reqs, Steps(r),
           NEW c \in Reqs, conversations[c] # NoRow, NEW u, Covered(c, u)
    PROVE  Covered(c, u)'
<1>1. CASE Listed(c, u)
  BY <1>1, ListedStays DEF Covered
<1>2. CASE c # r
  BY <1>1, <1>2, OthersRest DEF Covered, Ind
<1>3. CASE c = r /\ ~Listed(c, u)
  <2>1. pc[r] \in Indexing /\ call[r].op \in {"direct", "group"}
    BY <1>3, CallStays DEF Ind, RowInv, Stored, Indexing
  <2>2. IndexUser(r) \/ IndexConv(r) \/ Fault(r)
    BY <2>1 DEF Indexing, Steps, Arrive, CreateDirectChat, CreateGroup,
                AddParticipant, RemoveParticipant, MarkAsRead, Receive, Step,
                LookupDirect, FetchDirect, ClaimDirectKey, InsertRow, UnindexUser,
                UnindexConv, Check, Reread, AddWrite, RemoveWrite, CursorWrite,
                FindDirectChatFails
  <2>3. res[r] # "error"
    BY <2>1 DEF IndexInd, IndexInv, Indexing
  <2>4. u \in todo[r]
    BY <1>3, <2>3 DEF Covered
  <2>5. CASE IndexUser(r)
    BY <1>3, <2>4, <2>5 DEF IndexUser, Covered
  <2>6. CASE IndexConv(r)
    <3>1. call[r].conv = r
      BY <2>1 DEF Ind, FlowInv, Indexing
    <3>2. ASSUME u = cur[r] PROVE Listed(c, u)'
      BY <1>3, <2>6, <3>1, <3>2, LoopCovers
    <3>3. ASSUME u # cur[r] PROVE u \in todo'[r]
      BY <2>4, <2>6, <3>3, LoopCovers
    <3> QED
      BY <1>3, <3>2, <3>3 DEF Covered
  <2>7. CASE Fault(r)
    BY <1>3, <2>7 DEF Fault, Finish, Covered, Ind, TypeOK
  <2> QED
    BY <2>2, <2>5, <2>6, <2>7
<1> QED
  BY <1>1, <1>2, <1>3


\* Rows stay and keep their type; the only new one is the one inserted.
LEMMA RowsStay ==
    ASSUME Ind, NEW r \in Reqs, Steps(r), NEW c \in Reqs
    PROVE  /\ conversations[c] # NoRow =>
                 /\ conversations'[c] # NoRow
                 /\ conversations'[c].type = conversations[c].type
                 /\ Founders(c)' = Founders(c)
           /\ (conversations[c] = NoRow /\ conversations'[c] # NoRow) =>
                 InsertRow(r) /\ c = r
<1>1. /\ conversations[c] # NoRow => conversations'[c] # NoRow
      /\ (conversations[c] = NoRow /\ conversations'[c] # NoRow) =>
            InsertRow(r) /\ c = r
  <2>1. CASE InsertRow(r)
    <3>1. TypeOK /\ view[r] \in Row
      BY <2>1 DEF Ind, FlowInv, InsertRow
    <3> QED
      BY <2>1, <3>1, NoRowAssumption DEF InsertRow, TypeOK
  <2>2. CASE ~InsertRow(r)
    BY <2>2, WritesKeepRows, TableStays
  <2> QED
    BY <2>1, <2>2
<1>2. ASSUME conversations[c] # NoRow
      PROVE  /\ conversations'[c].type = conversations[c].type
             /\ Founders(c)' = Founders(c)
  <2>1. Ind'
    BY NextInd DEF Steps, Next
  <2>2. call'[c].op = call[c].op /\ Founders(c)' = Founders(c)
    <3>1. pc[c] # "idle" /\ TypeOK
      BY <1>2 DEF Ind, RowInv, Stored
    <3>2. /\ call'[c].op = call[c].op
          /\ call'[c].by = call[c].by
          /\ call'[c].user = call[c].user
          /\ call'[c].members = call[c].members
      BY <3>1, CallStays, OthersRest
    <3> QED
      BY <3>2 DEF Founders, Key
  <2> QED
    BY <1>1, <1>2, <2>1, <2>2 DEF Ind, RowInv
<1> QED
  BY <1>1, <1>2

\* A founder in a row that is stored already was in it or in the copy that is
\* written back.
LEMMA OldEntries ==
    ASSUME Ind, NEW r \in Reqs, Steps(r), NEW c \in Reqs, conversations[c] # NoRow,
           NEW e \in conversations'[c].parts, e.slot = c
    PROVE  \/ e \in conversations[c].parts
           \/ /\ pc[r] = "write" /\ call[r].conv = c
              /\ \E d \in view[r].parts : d.slot = c /\ d.user = e.user
<1>1. /\ TypeOK /\ CallInv(r) /\ FlowInv(r) /\ RowInv(c)
      /\ call[c].op \in {"direct", "group"}
  BY DEF Ind, RowInv
<1>2. CASE InsertRow(r)
  <2>1. c # r
    BY <1>2 DEF Ind, RowInv, InsertRow, Stored
  <2> QED
    BY <1>1, <1>2, <2>1 DEF InsertRow, TypeOK
<1>3. ASSUME NEW parts, pc[r] = "write", SetParticipants(call[r].conv, parts),
             c = call[r].conv
      PROVE  conversations'[c].parts = parts
  <2>1. conversations[c] \in Row
    BY <1>1, <1>3 DEF FlowInv
  <2> QED
    BY <1>1, <1>3, <2>1 DEF SetParticipants, TypeOK, Row
<1>4. ASSUME NEW parts, pc[r] = "write", SetParticipants(call[r].conv, parts),
             c # call[r].conv
      PROVE  conversations'[c] = conversations[c]
  BY <1>1, <1>4 DEF SetParticipants, TypeOK
<1>5. CASE AddWrite(r)
  <2>1. r # c
    BY <1>1, <1>5 DEF AddWrite
  <2>2. NewParticipant(r, call[r].user, "member").slot = r
    BY DEF NewParticipant
  <2> QED
    BY <1>3, <1>4, <1>5, <2>1, <2>2 DEF AddWrite
<1>6. CASE RemoveWrite(r)
  BY <1>3, <1>4, <1>6 DEF RemoveWrite
<1>7. CASE CursorWrite(r)
  <2>1. PICK d \in view[r].parts :
           SetParticipants(call[r].conv,
              (view[r].parts \ {d}) \cup {[d EXCEPT !.read = r]})
    BY <1>7 DEF CursorWrite
  <2>2. pc[r] = "write"
    BY <1>7 DEF CursorWrite
  <2>3. [d EXCEPT !.read = r].slot = d.slot /\ [d EXCEPT !.read = r].user = d.user
    BY <1>1, <2>1, <2>2 DEF FlowInv, Row, Participant
  <2> QED
    BY <1>3, <1>4, <2>1, <2>2, <2>3
<1> QED
  BY <1>2, <1>5, <1>6, <1>7, TableStays

\* No row, new or rewritten, holds a founder who was forgotten.
LEMMA RowsCovered ==
    ASSUME Ind, IndexInd, NEW r \in Reqs, Steps(r),
           NEW c \in Reqs, conversations'[c] # NoRow,
           NEW e \in conversations'[c].parts, e.slot = c
    PROVE  Covered(c, e.user)'
<1>1. CASE conversations[c] = NoRow
  <2>1. InsertRow(r) /\ c = r
    BY <1>1, RowsStay
  <2>2. conversations'[c] = view[r] /\ todo'[r] = Users_of(view[r])
    BY <2>1 DEF InsertRow, Ind, TypeOK
  <2> QED
    BY <2>1, <2>2 DEF Users_of, Covered
<1>2. CASE conversations[c] # NoRow
  <2>1. Covered(c, e.user)
    <3>1. CASE e \in conversations[c].parts
      BY <1>2, <3>1 DEF IndexInd, IndexInv, FoundersCovered
    <3>2. CASE /\ pc[r] = "write" /\ call[r].conv = c
               /\ \E d \in view[r].parts : d.slot = c /\ d.user = e.user
      <4>1. FoundersCovered(c, view[r])
        BY <3>2 DEF IndexInd, IndexInv
      <4> QED
        BY <3>2, <4>1 DEF FoundersCovered
    <3> QED
      BY <1>2, <3>1, <3>2, OldEntries
  <2> QED
    BY <1>2, <2>1, CoveredStays
<1> QED
  BY <1>1, <1>2


\* The others go on knowing what they know.
LEMMA OthersIndexed ==
    ASSUME Ind, IndexInd, NEW r \in Reqs, Steps(r), NEW q \in Reqs, q # r
    PROVE  IndexInv(q)'
<1>1. /\ pc'[q] = pc[q] /\ call'[q] = call[q] /\ view'[q] = view[q]
      /\ todo'[q] = todo[q] /\ cur'[q] = cur[q] /\ res'[q] = res[q]
  BY OthersRest DEF Ind
<1>2. CallInv(q) /\ FlowInv(q) /\ IndexInv(q)
  BY DEF Ind, IndexInd
<1>3. (conversations[q] # NoRow => FoundersCovered(q, conversations[q]))'
  BY RowsCovered DEF FoundersCovered
<1>4. ASSUME pc[q] = "write"
      PROVE  FoundersCovered(call[q].conv, view[q])'
  <2>1. call[q].conv \in Reqs /\ conversations[call[q].conv] # NoRow
    BY <1>2, <1>4, NoRowAssumption DEF CallInv, FlowInv
  <2>2. FoundersCovered(call[q].conv, view[q])
    BY <1>2, <1>4 DEF IndexInv
  <2>3. \A e \in view[q].parts : e.slot = call[q].conv => Covered(e.slot, e.user)'
    BY <2>1, <2>2, CoveredStays DEF FoundersCovered
  <2> QED
    BY <1>1, <2>3 DEF FoundersCovered
<1>5. ASSUME pc[q] \in Indexing, call[q].op = "add"
      PROVE  /\ conversations'[call[q].conv].type = "group"
             /\ conversations'[call[q].conv].creator = call[q].by
  <2>1. call[q].conv \in Reqs /\ conversations[call[q].conv] # NoRow
    BY <1>2, <1>5, NoRowAssumption DEF CallInv, FlowInv, Indexing
  <2> QED
    BY <1>2, <1>5, <2>1, RowsStay, CreatorStays DEF IndexInv
<1>6. ASSUME pc[q] = "indexConv", NEW c, NEW u, c = call[q].conv, u = cur[q]
      PROVE  <<u, c>> \in userConvs' \/ Removed(c, u)'
  BY <1>2, <1>6, HalfListedStays DEF IndexInv
<1>7. ASSUME call[q].op = "add", res[q] = "ok",
             NEW c, NEW u, c = call[q].conv, u = call[q].user
      PROVE  Listed(c, u)'
  BY <1>2, <1>7, ListedStays DEF IndexInv
<1>8. Founders(q)' = Founders(q)
  BY <1>1 DEF Founders, Key
<1>9. conversations[q] # NoRow => conversations'[q] # NoRow
  BY RowsStay
<1> QED
  BY <1>1, <1>2, <1>3, <1>4, <1>5, <1>6, <1>7, <1>8, <1>9 DEF IndexInv


\* The first part of what a request knows is RowsCovered.
LEMMA RowsPart ==
    ASSUME Ind, IndexInd, NEW r \in Reqs, Steps(r)
    PROVE  (conversations[r] # NoRow => FoundersCovered(r, conversations[r]))'
  BY RowsCovered DEF FoundersCovered

\* A request that is neither indexing nor writing before or after its step.
LEMMA IdleIndexed ==
    ASSUME Ind, IndexInd, NEW r \in Reqs, Steps(r),
           pc'[r] # "write", pc'[r] \notin Indexing, todo'[r] = {},
           pc'[r] # "done" => res'[r] = "none",
           call'[r].op \notin {"add", "group"} \/ res'[r] # "ok"
    PROVE  IndexInv(r)'
  BY RowsPart DEF IndexInv, Indexing

\* A request that arrives, and the statements before the first write.
LEMMA EarlyIndexed ==
    ASSUME Ind, IndexInd, NEW r \in Reqs,
           Arrive(r) \/ LookupDirect(r) \/ FetchDirect(r) \/ ClaimDirectKey(r)
             \/ FindDirectChatFails(r) \/ Fault(r) \/ Check(r)
    PROVE  IndexInv(r)'
<1>1. /\ TypeOK /\ CallInv(r) /\ Steps(r)
      /\ pc[r] \notin Indexing => todo[r] = {}
      /\ pc[r] # "done" => res[r] = "none"
  BY DEF Ind, IndexInd, IndexInv, Steps, Step
<1> USE DEF Finish, Goto, TypeOK, Indexing
<1>2. CASE CreateDirectChat(r) \/ CreateGroup(r)
  <2>1. /\ pc'[r] \in {"lookup", "insert", "done"} /\ todo'[r] = {}
        /\ pc'[r] # "done" => res'[r] = "none"
        /\ call'[r].op # "add" /\ res'[r] # "ok"
    BY <1>1, <1>2 DEF CreateDirectChat, CreateGroup, GroupVerdict
  <2> QED
    BY <1>1, <2>1, IdleIndexed
<1>3. ASSUME NEW op, Receive(r, op)
      PROVE  IndexInv(r)'
  <2>1. pc'[r] = "check" /\ todo'[r] = {} /\ res'[r] = "none"
    BY <1>1, <1>3 DEF Receive
  <2> QED
    BY <1>1, <2>1, IdleIndexed
<1>4. CASE LookupDirect(r) \/ FetchDirect(r) \/ ClaimDirectKey(r)
             \/ FindDirectChatFails(r)
  <2>1. /\ pc'[r] \in {"fetch", "claim", "insert", "done"} /\ todo'[r] = {}
        /\ pc'[r] # "done" => res'[r] = "none"
    <3>1. CASE LookupDirect(r)
      BY <1>1, <3>1 DEF LookupDirect
    <3>2. CASE FetchDirect(r)
      BY <1>1, <3>2 DEF FetchDirect
    <3>3. CASE ClaimDirectKey(r)
      BY <1>1, <3>3 DEF ClaimDirectKey
    <3>4. CASE FindDirectChatFails(r)
      BY <1>1, <3>4 DEF FindDirectChatFails
    <3> QED
      BY <1>4, <3>1, <3>2, <3>3, <3>4
  <2>2. call'[r].op \notin {"add", "group"}
    <3>1. pc[r] \in {"lookup", "fetch", "claim"}
      BY <1>4 DEF LookupDirect, FetchDirect, ClaimDirectKey, FindDirectChatFails
    <3> QED
      BY <1>1, <3>1, CallStays DEF CallInv
  <2> QED
    BY <1>1, <2>1, <2>2, IdleIndexed
<1>5. CASE Fault(r)
  <2>1. pc'[r] = "done" /\ todo'[r] = {} /\ res'[r] = "error"
    BY <1>1, <1>5 DEF Fault
  <2> QED
    BY <1>1, <2>1, IdleIndexed
<1>6. CASE Check(r)
  <2>1. \/ pc'[r] = "done" /\ todo'[r] = {} /\ res'[r] # "ok"
        \/ pc'[r] = "reread" /\ todo'[r] = {} /\ res'[r] = "none"
    BY <1>1, <1>6 DEF Check
  <2> QED
    BY <1>1, <2>1, IdleIndexed
<1> QED
  BY <1>2, <1>3, <1>4, <1>5, <1>6
     DEF Arrive, AddParticipant, RemoveParticipant, MarkAsRead

\* Removing, and moving a cursor.
LEMMA RemoveIndexed ==
    ASSUME Ind, IndexInd, NEW r \in Reqs,
           RemoveWrite(r) \/ UnindexUser(r) \/ UnindexConv(r) \/ CursorWrite(r)
    PROVE  IndexInv(r)'
<1>1. /\ TypeOK /\ CallInv(r) /\ Steps(r)
      /\ pc[r] \notin Indexing => todo[r] = {}
      /\ pc[r] # "done" => res[r] = "none"
  BY DEF Ind, IndexInd, IndexInv, Steps, Step
<1> USE DEF Finish, Goto, TypeOK, Indexing
<1>2. pc'[r] \in {"unindexUser", "unindexConv", "done"}
  BY <1>1 DEF RemoveWrite, UnindexUser, UnindexConv, CursorWrite
<1>3. todo'[r] = {}
  BY <1>1 DEF RemoveWrite, UnindexUser, UnindexConv, CursorWrite
<1>4. pc'[r] # "done" => res'[r] = "none"
  BY <1>1 DEF RemoveWrite, UnindexUser, UnindexConv, CursorWrite
<1>5. call'[r].op \notin {"add", "group"}
  BY <1>1 DEF RemoveWrite, UnindexUser, UnindexConv, CursorWrite, CallInv
<1> QED
  BY <1>1, <1>2, <1>3, <1>4, <1>5, IdleIndexed

\* The repository's own reading takes over a row without forgotten founders.
LEMMA RereadIndexed ==
    ASSUME Ind, IndexInd, NEW r \in Reqs, Reread(r)
    PROVE  IndexInv(r)'
<1>1. /\ TypeOK /\ CallInv(r) /\ Steps(r)
      /\ todo[r] = {} /\ res[r] = "none"
  BY DEF Ind, IndexInd, IndexInv, Steps, Step, Reread, Indexing
<1> USE DEF Reread, Finish, Goto, TypeOK, Indexing
<1>2. CASE pc'[r] = "done"
  <2>1. todo'[r] = {} /\ res'[r] = "notfound"
    BY <1>1, <1>2
  <2> QED
    BY <1>1, <1>2, <2>1, IdleIndexed
<1>3. CASE pc'[r] # "done"
  <2>1. /\ pc'[r] = "write" /\ todo'[r] = {} /\ res'[r] = "none"
        /\ call' = call /\ conversations' = conversations
        /\ view'[r] = conversations[call[r].conv]
        /\ conversations[call[r].conv] # NoRow
        /\ call[r].conv \in Reqs
    BY <1>1, <1>3 DEF FindByID, CallInv, tables
  <2>2. FoundersCovered(call[r].conv, view[r])'
    BY <1>1, <2>1, RowsCovered DEF FoundersCovered
  <2> QED
    BY <1>1, <2>1, <2>2, RowsPart DEF IndexInv
<1> QED
  BY <1>2, <1>3

\* The insert: everybody in the new row is a founder.
LEMMA InsertIndexed ==
    ASSUME Ind, IndexInd, NEW r \in Reqs, InsertRow(r)
    PROVE  IndexInv(r)'
<1>1. /\ TypeOK /\ CallInv(r) /\ FlowInv(r) /\ Steps(r) /\ res[r] = "none"
      /\ call[r].op \in {"direct", "group"}
  BY DEF Ind, IndexInd, IndexInv, Steps, Step, InsertRow, CallInv
<1>2. /\ pc'[r] = "indexUser" /\ res'[r] = "none"
      /\ todo'[r] = Users_of(view[r])
      /\ call'[r].op = call[r].op /\ Founders(r)' = Founders(r)
  <2>1. pc'[r] = "indexUser" /\ res'[r] = "none" /\ todo'[r] = Users_of(view[r])
    BY <1>1 DEF InsertRow, TypeOK
  <2>2. call' = [call EXCEPT ![r].conv = r]
    BY DEF InsertRow
  <2>3. /\ call'[r].op = call[r].op /\ call'[r].by = call[r].by
        /\ call'[r].user = call[r].user /\ call'[r].members = call[r].members
    BY <1>1, <2>2 DEF TypeOK, Call
  <2> QED
    BY <2>1, <2>3 DEF Founders, Key
<1>3. Users_of(view[r]) \subseteq Founders(r)
  <2>1. \A e \in view[r].parts : e.user \in Founders(r)
    BY <1>1 DEF InsertRow, FlowInv, AdmittedIn, Founders, Key
  <2> QED
    BY <2>1 DEF Users_of
<1> QED
  BY <1>1, <1>2, <1>3, RowsPart DEF IndexInv, Indexing

\* The append of AddParticipant, whose user is to be indexed.
LEMMA AddIndexed ==
    ASSUME Ind, IndexInd, NEW r \in Reqs, AddWrite(r)
    PROVE  IndexInv(r)'
<1>1. /\ TypeOK /\ CallInv(r) /\ FlowInv(r) /\ Steps(r) /\ res[r] = "none"
      /\ call[r].op = "add" /\ call[r].conv \in Reqs
  BY DEF Ind, IndexInd, IndexInv, Steps, Step, AddWrite, CallInv
<1>2. /\ pc'[r] = "indexUser" /\ res'[r] = "none" /\ call' = call
      /\ todo'[r] = {call[r].user}
  BY <1>1 DEF AddWrite, TypeOK
<1>3. /\ conversations'[call[r].conv].type = "group"
      /\ conversations'[call[r].conv].creator = call[r].by
  BY <1>1, RowsStay, CreatorStays, NoRowAssumption DEF FlowInv, AddWrite
<1> QED
  BY <1>1, <1>2, <1>3, RowsPart DEF IndexInv, Indexing

\* The two statements for each participant.
LEMMA LoopIndexed ==
    ASSUME Ind, IndexInd, NEW r \in Reqs, IndexUser(r) \/ IndexConv(r)
    PROVE  IndexInv(r)'
<1>1. /\ TypeOK /\ CallInv(r) /\ FlowInv(r) /\ IndexInv(r) /\ Steps(r)
      /\ res[r] = "none" /\ pc[r] \in Indexing
  BY DEF Ind, IndexInd, IndexInv, Steps, Step, IndexUser, IndexConv, Indexing
<1>2. /\ call' = call /\ Founders(r)' = Founders(r)
      /\ conversations'[call[r].conv] = conversations[call[r].conv]
  BY DEF IndexUser, IndexConv, Founders, Key
<1>3. CASE IndexUser(r)
  <2>1. /\ pc'[r] = "indexConv" /\ todo' = todo /\ res' = res
        /\ cur'[r] \in todo[r]
        /\ <<cur'[r], call[r].conv>> \in userConvs'
    BY <1>1, <1>3 DEF IndexUser, TypeOK
  <2> QED
    BY <1>1, <1>2, <2>1, RowsPart DEF IndexInv, Indexing
<1>4. CASE IndexConv(r)
  <2>1. CASE todo[r] = {cur[r]}
    <3>1. pc'[r] = "done" /\ todo'[r] = {}
      BY <1>1, <1>4, <2>1 DEF IndexConv, Finish, TypeOK
    <3>2. ASSUME NEW c, NEW u, c = call[r].conv, u = call[r].user,
                 call[r].op = "add"
          PROVE  Listed(c, u)'
      BY <1>1, <1>4, <2>1, <3>2, LoopCovers DEF IndexInv
    <3>3. call[r].op = "group" => call[r].conv = r /\ conversations'[r] # NoRow
      BY <1>1, <1>2, NoRowAssumption DEF FlowInv, Indexing
    <3> QED
      BY <1>1, <1>2, <3>1, <3>2, <3>3, RowsPart DEF IndexInv, Indexing
  <2>2. CASE todo[r] # {cur[r]}
    <3>1. /\ pc'[r] = "indexUser" /\ res' = res
          /\ todo'[r] = todo[r] \ {cur[r]}
      BY <1>1, <1>4, <2>2 DEF IndexConv, TypeOK
    <3>2. call[r].op # "add"
      BY <1>1, <1>4, <2>2 DEF IndexInv, IndexConv
    <3> QED
      BY <1>1, <1>2, <3>1, <3>2, RowsPart DEF IndexInv, Indexing
  <2> QED
    BY <2>1, <2>2
<1> QED
  BY <1>3, <1>4


\* An index entry is written for a member of the loop, after the row.
LEMMA BehindRowStep ==
    ASSUME Ind, IndexInd, NEW r \in Reqs, Steps(r)
    PROVE  IndexBehindRow'
<1> DEFINE Entitled(c, u) ==
              /\ conversations[c] # NoRow
              /\ \/ u \in Founders(c)
                 \/ conversations[c].type = "group" /\ Joined(c, u)
<1> SUFFICES ASSUME NEW c \in Reqs, NEW u \in Users,
                    <<u, c>> \in userConvs' \/ <<c, u>> \in convUsers'
             PROVE  Entitled(c, u)'
  BY DEF IndexBehindRow
<1>1. Entitled(c, u) => Entitled(c, u)'
  BY RowsStay, JoinedStays
<1>2. CASE <<u, c>> \in userConvs \/ <<c, u>> \in convUsers
  BY <1>1, <1>2 DEF IndexInd, IndexBehindRow
<1>3. CASE ~(<<u, c>> \in userConvs \/ <<c, u>> \in convUsers)
  <2>1. /\ IndexUser(r) \/ IndexConv(r)
        /\ c = call[r].conv /\ u \in todo[r]
    <3>1. CASE <<u, c>> \in userConvs'
      BY <1>3, <3>1, IndexesStay DEF IndexUser
    <3>2. CASE <<c, u>> \in convUsers'
      BY <1>3, <3>2, IndexesStay DEF IndexConv, IndexInd, IndexInv
    <3> QED
      BY <3>1, <3>2
  <2>2. /\ pc[r] \in Indexing /\ FlowInv(r) /\ CallInv(r) /\ IndexInv(r)
    BY <2>1 DEF IndexUser, IndexConv, Indexing, Ind, IndexInd
  <2>3. conversations[c] # NoRow
    BY <2>1, <2>2, NoRowAssumption DEF FlowInv, Indexing
  <2>4. CASE call[r].op = "add"
    <3>1. conversations[c].type = "group" /\ Joined(c, u)
      BY <2>1, <2>2, <2>4 DEF IndexInv, Joined, Indexing
    <3> QED
      BY <1>1, <2>3, <3>1
  <2>5. CASE call[r].op # "add"
    <3>1. u \in Founders(c)
      BY <2>1, <2>2, <2>5 DEF IndexInv, FlowInv, Indexing
    <3> QED
      BY <1>1, <2>3, <3>1
  <2> QED
    BY <2>4, <2>5
<1> QED
  BY <1>2, <1>3

\* The two invariants together are inductive.
LEMMA NextIndexInd == Ind /\ IndexInd /\ [Next]_vars => IndexInd'
<1> SUFFICES ASSUME Ind, IndexInd, [Next]_vars PROVE IndexInd'
  OBVIOUS
<1>1. CASE UNCHANGED vars
  BY <1>1 DEF vars, IndexInd, IndexInv, IndexBehindRow, FoundersCovered, Covered,
              Listed, Removed, Joined, Founders, Key
<1>2. ASSUME NEW r \in Reqs, Steps(r)
      PROVE  IndexInd'
  <2>1. IndexInv(r)'
    BY <1>2, EarlyIndexed, RemoveIndexed, RereadIndexed, InsertIndexed,
       AddIndexed, LoopIndexed DEF Steps, Step
  <2> QED
    BY <1>2, <2>1, OthersIndexed, BehindRowStep DEF IndexInd
<1> QED
  BY <1>1, <1>2 DEF Next, Steps

\* No tables, no entries.
LEMMA InitIndexInd == Init => IndexInd
  BY DEF Init, IndexInd, IndexInv, IndexBehindRow, Indexing

\* What the requests that write index entries know, and what the copies of the
\* participants column still hold, is true throughout.
THEOREM IndexInvariance == Spec => []IndexInd
  BY Invariance, InitIndexInd, NextIndexInd, PTL DEF Spec

\* An index entry comes after its row, so that the stale entries FindByUser skips
\* are never ahead of it, and a conversation is listed only for its founders and,
\* if it is a group, for those whom its creator added.
THEOREM EntriesBehindRows == Spec => []IndexBehindRow
<1>1. IndexInd => IndexBehindRow
  BY DEF IndexInd
<1> QED
  BY <1>1, IndexInvariance, PTL

\* Everybody whom an acknowledged CreateDirectChat, CreateGroup or AddParticipant
\* put into a conversation is in both indexes, unless a remove of the same user
\* ran, however many requests rewrite the participants from old copies.
THEOREM AcknowledgedIsListed == Spec => []AckListed
<1>1. Ind /\ IndexInd => AckListed
  <2> SUFFICES ASSUME Ind, IndexInd, NEW r \in Reqs,
                      res[r] = "ok", call[r].op \in {"direct", "group", "add"},
                      NEW u,
                      u \in IF call[r].op = "add"
                              THEN {call[r].user}
                              ELSE {e.user : e \in {x \in conversations[call[r].conv].parts :
                                                      x.slot = r}}
               PROVE  Listed(call[r].conv, u)
    BY DEF AckListed, Listed
  <2>1. CASE call[r].op = "add"
    BY <2>1 DEF IndexInd, IndexInv
  <2>2. CASE call[r].op \in {"direct", "group"}
    <3>1. /\ call[r].conv \in Reqs
          /\ conversations[call[r].conv] # NoRow
      <4>1. FlowInv(r) /\ IndexInv(r)
        BY DEF Ind, IndexInd
      <4>2. CASE call[r].op = "direct"
        BY <4>1, <4>2, NoRowAssumption DEF FlowInv, Opened
      <4>3. CASE call[r].op = "group"
        BY <4>1, <4>3 DEF IndexInv
      <4> QED
        BY <2>2, <4>2, <4>3
    <3>2. PICK e \in conversations[call[r].conv].parts : e.slot = r /\ e.user = u
      BY <2>2
    <3>3. call[r].conv = r
      BY <2>2, <3>1, <3>2 DEF Ind, RowInv, AdmittedIn
    <3>4. Covered(r, u)
      BY <3>1, <3>2, <3>3 DEF IndexInd, IndexInv, FoundersCovered
    <3>5. todo[r] = {}
      BY DEF Ind, CallInv, IndexInd, IndexInv, Indexing
    <3> QED
      BY <3>3, <3>4, <3>5 DEF Covered
  <2> QED
    BY <2>1, <2>2
<1> QED
  BY <1>1, Invariance, IndexInvariance, PTL

=============================================================================
