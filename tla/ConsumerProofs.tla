--------------------------- MODULE ConsumerProofs ---------------------------
(***************************************************************************)
(* What the Kafka consumer and the life cycle of its process promise, for  *)
(* any number of processes, records, retries and crashes.                  *)
(*                                                                         *)
(* Three invariants, each inductive given those before it: TypeInd, the    *)
(* types with what the phase of a process says of its connections and the  *)
(* loop of its batch; MetInd, by which what may be committed has been met  *)
(* and an event that does not decode has not been processed; OnceInd, the  *)
(* account of who may still hand a record out.                             *)
(***************************************************************************)
EXTENDS Consumer, FiniteSetTheorems, TLAPS

(* The invariants *)

\* The connections are open from the start of a process until its shutdown, which
\* closes Kafka's when nobody is being served or the time is over.
LifeInv(p) ==
    /\ phase[p] = "down" => inflight[p] = 0 /\ ~late[p]
    /\ phase[p] \in {"serving", "stopping"} => conns[p] = AllConns
    /\ phase[p] = "closing" => inflight[p] = 0 \/ late[p]

LifeInd ==
    /\ LifeTypeOK
    /\ inflight \in [Procs -> Nat]
    /\ \A p \in Procs : LifeInv(p)

\* The loop holds records exactly while it handles them: they have been produced
\* and come in their order.
LoopInv(p) ==
    /\ phase[p] = "down" => loop[p] = "off"
    /\ loop[p] \in {"handle", "dead"} <=> batch[p] # <<>>
    /\ \A i \in 1..Len(batch[p]) : batch[p][i] \in 1..Len(log)
    /\ \A i, j \in 1..Len(batch[p]) : i < j => batch[p][i] < batch[p][j]

\* What TypeOK says of the variables that Consumer adds, with their domains.
OwnTypes ==
    /\ env \in Envs
    /\ log \in Seq(BOOLEAN) /\ Len(log) <= MaxLog
    /\ committed \in 0..Len(log)
    /\ owner \in Procs \cup {NoProc}
    /\ loop \in [Procs -> Loops]
    /\ batch \in [Procs -> Seq(Records)]
    /\ attempt \in [Procs -> 0..RetryCount]
    /\ next \in [Procs -> Nat] /\ head \in [Procs -> Nat]
    /\ \A p \in Procs : head[p] <= next[p] /\ next[p] <= Len(log)
    /\ fate \in [Records -> SUBSET Fates]
    /\ times \in [Records -> Nat]
    /\ assigns \in Nat

TypeInd ==
    /\ LifeInd
    /\ OwnTypes
    /\ \A p \in Procs : LoopInv(p)

\* The record is in the hands of the loop.
Holds(p, o) == \E i \in 1..Len(batch[p]) : batch[p][i] = o

\* What the client was given has been handled, or still is in the batch; what may
\* be committed has been handled.
MetInv(p) ==
    /\ \A o \in 1..next[p] : fate[o] # {} \/ Holds(p, o)
    /\ \A o \in 1..head[p] : fate[o] # {}

MetInd ==
    /\ \A p \in Procs : MetInv(p)
    /\ CommittedIsMet
    /\ \A o \in Records : o > Len(log) => fate[o] = {}

\* Who has the record in its batch and has not handed it out yet.
Waiting(o) == {p \in Procs : \E i \in 2..Len(batch[p]) : batch[p][i] = o}

\* Can the partition's owner be given the record in this assignment?
Owed(o) == IF owner # NoProc /\ o > next[owner] THEN 1 ELSE 0

\* Every assignment is one permission to hand the record out.  It is spent, or in a
\* batch, or still the owner's.
OnceInv(o) ==
    /\ IsFiniteSet(Waiting(o))
    /\ times[o] + Cardinality(Waiting(o)) + Owed(o) <= assigns

OnceInd == \A o \in Records : OnceInv(o)

-----------------------------------------------------------------------------
(* The life cycle *)

Moves(p) ==
    \/ Start(p) \/ Crash(p) \/ Exit(p) \/ Signal(p) \/ CloseKafka(p)
    \/ Accept(p) \/ Respond(p) \/ Deadline(p)

LEMMA LifeStart ==
    ASSUME LifeInd, NEW p \in Procs, Start(p)
    PROVE  LifeInd'
BY DEF LifeInd, LifeTypeOK, LifeInv, Start, Goto, Phases, AllConns

LEMMA LifeGone ==
    ASSUME LifeInd, NEW p \in Procs, Crash(p) \/ Exit(p)
    PROVE  LifeInd'
<1>1. Gone(p) /\ stops' \in 0..MaxStops
    BY StopsAssumption DEF Crash, Exit, Spend, LifeInd, LifeTypeOK
<1>2. \A q \in Procs : 0 \in 0..MaxInFlight[q]
    BY InFlightAssumption
<1> QED
    BY <1>1, <1>2 DEF LifeInd, LifeTypeOK, LifeInv, Gone, Goto, Phases

LEMMA LifeStops ==
    ASSUME LifeInd, NEW p \in Procs, Signal(p) \/ CloseKafka(p)
    PROVE  LifeInd'
<1>1. CASE Signal(p)
    BY <1>1, StopsAssumption
       DEF LifeInd, LifeTypeOK, LifeInv, Signal, Spend, Goto, Phases
<1>2. CASE CloseKafka(p)
    BY <1>2 DEF LifeInd, LifeTypeOK, LifeInv, CloseKafka, Goto, Phases
<1> QED
    BY <1>1, <1>2

LEMMA LifeServes ==
    ASSUME LifeInd, NEW p \in Procs, Accept(p) \/ Respond(p) \/ Deadline(p)
    PROVE  LifeInd'
<1>. MaxInFlight[p] \in Nat /\ inflight[p] \in 0..MaxInFlight[p]
    BY InFlightAssumption DEF LifeInd, LifeTypeOK
<1>1. CASE Accept(p)
  <2>1. /\ UNCHANGED <<phase, conns, late, stops>> /\ phase[p] = "serving"
        /\ inflight' = [inflight EXCEPT ![p] = inflight[p] + 1]
        /\ inflight[p] + 1 \in 0..MaxInFlight[p]
    BY <1>1 DEF Accept
  <2> QED
    BY <2>1 DEF LifeInd, LifeTypeOK, LifeInv
<1>2. CASE Respond(p)
  <2>1. /\ UNCHANGED <<phase, conns, late, stops>> /\ inflight[p] > 0
        /\ inflight' = [inflight EXCEPT ![p] = inflight[p] - 1]
        /\ inflight[p] - 1 \in 0..MaxInFlight[p] /\ inflight[p] - 1 \in Nat
    BY <1>2 DEF Respond
  <2>2. \A q \in Procs \ {p} : inflight'[q] = inflight[q]
    BY <2>1 DEF LifeInd
  <2>3. inflight'[p] = inflight[p] - 1
    BY <2>1 DEF LifeInd
  <2>4. LifeTypeOK' /\ inflight' \in [Procs -> Nat]
    BY <2>1, <2>2, <2>3 DEF LifeInd, LifeTypeOK
  <2>5. LifeInv(p)'
    BY <2>1, <2>3 DEF LifeInd, LifeInv
  <2>6. \A q \in Procs \ {p} : LifeInv(q)'
    BY <2>1, <2>2 DEF LifeInd, LifeInv
  <2> QED
    BY <2>4, <2>5, <2>6 DEF LifeInd
<1>3. CASE Deadline(p)
    BY <1>3 DEF LifeInd, LifeTypeOK, LifeInv, Deadline
<1> QED
    BY <1>1, <1>2, <1>3

LEMMA LifeMoves ==
    ASSUME LifeInd, NEW p \in Procs, Moves(p)
    PROVE  LifeInd'
BY LifeStart, LifeGone, LifeStops, LifeServes DEF Moves

\* A rebalance takes from the same budget as signals and crashes.
LEMMA LifeSpends ==
    ASSUME LifeInd, Spend, UNCHANGED <<phase, conns, inflight, late>>
    PROVE  LifeInd'
BY StopsAssumption DEF LifeInd, LifeTypeOK, LifeInv, Spend

LEMMA LifeStays ==
    ASSUME LifeInd, UNCHANGED life
    PROVE  LifeInd'
BY DEF LifeInd, LifeTypeOK, LifeInv, life

-----------------------------------------------------------------------------
(* Types, and the loop's batch *)

LEMMA TypeIndTypes == TypeInd => TypeOK
BY DEF TypeInd, LifeInd, OwnTypes, TypeOK

LEMMA InitTypes == Init => TypeInd
<1> SUFFICES ASSUME Init PROVE TypeInd
    OBVIOUS
<1>1. LifeInd
    BY InFlightAssumption, StopsAssumption
       DEF Init, LifeInit, LifeInd, LifeTypeOK, LifeInv, Phases
<1>2. OwnTypes
    BY RetryAssumption, MaxLogAssumption DEF Init, OwnTypes, Loops, Records
<1>3. ASSUME NEW p \in Procs PROVE LoopInv(p)
    BY DEF Init, LoopInv
<1> QED
    BY <1>1, <1>2, <1>3 DEF TypeInd

\* Steps outside the loop leave its batch alone.
LEMMA LoopStays ==
    ASSUME NEW p \in Procs, LoopInv(p), log \in Seq(BOOLEAN), log' \in Seq(BOOLEAN),
           loop'[p] = loop[p], batch'[p] = batch[p], Len(log) <= Len(log'),
           phase'[p] = "down" => phase[p] = "down"
    PROVE  LoopInv(p)'
BY DEF LoopInv

LEMMA ProduceTypes ==
    ASSUME TypeInd, Produce, UNCHANGED env
    PROVE  TypeInd'
<1>1. UNCHANGED <<life, committed, owner, assigns, work, position, history>>
    BY DEF Produce
<1>2. PICK decodes \in BOOLEAN : log' = Append(log, decodes)
    BY DEF Produce
<1>3. /\ log' \in Seq(BOOLEAN) /\ Len(log') = Len(log) + 1
      /\ Len(log') <= MaxLog
    BY <1>2, MaxLogAssumption DEF Produce, TypeInd, OwnTypes
<1>4. LifeInd'
    BY <1>1, LifeStays DEF TypeInd
<1>5. OwnTypes'
    BY <1>1, <1>3 DEF TypeInd, OwnTypes, work, position, history
<1>6. ASSUME NEW q \in Procs PROVE LoopInv(q)'
    BY <1>1, <1>3, LoopStays DEF TypeInd, OwnTypes, work, life
<1> QED
    BY <1>4, <1>5, <1>6 DEF TypeInd

LEMMA AssignTypes ==
    ASSUME TypeInd, NEW p \in Procs, Assign(p), UNCHANGED env
    PROVE  TypeInd'
<1>1. LifeInd'
    BY LifeStays DEF Assign, TypeInd
<1>2. OwnTypes'
    BY DEF Assign, TypeInd, OwnTypes, work, history
<1>3. ASSUME NEW q \in Procs PROVE LoopInv(q)'
    BY LoopStays DEF Assign, TypeInd, OwnTypes, work, life
<1> QED
    BY <1>1, <1>2, <1>3 DEF TypeInd

LEMMA CommitTypes ==
    ASSUME TypeInd, NEW p \in Procs, Commit(p), UNCHANGED env
    PROVE  TypeInd'
<1>1. LifeInd'
    BY LifeStays DEF Commit, TypeInd
<1>2. OwnTypes'
    BY DEF Commit, TypeInd, OwnTypes, work, position, history
<1>3. ASSUME NEW q \in Procs PROVE LoopInv(q)'
    BY LoopStays DEF Commit, TypeInd, OwnTypes, work, life
<1> QED
    BY <1>1, <1>2, <1>3 DEF TypeInd

\* Giving the partition up changes two variables.
LEMMA GiveUpTypes ==
    ASSUME TypeInd, NEW p \in Procs, GiveUp(p)
    PROVE  /\ owner' \in {owner, NoProc}
           /\ owner = p => owner' = NoProc
           /\ committed' \in 0..Len(log)
           /\ committed' = committed \/ committed' = head[p]
BY DEF GiveUp, TypeInd, OwnTypes

LEMMA RevokeTypes ==
    ASSUME TypeInd, NEW p \in Procs, Revoke(p), UNCHANGED env
    PROVE  TypeInd'
<1>1. LifeInd'
    BY LifeSpends DEF Revoke, TypeInd
<1>2. OwnTypes'
    BY GiveUpTypes DEF Revoke, TypeInd, OwnTypes, work, position, history
<1>3. ASSUME NEW q \in Procs PROVE LoopInv(q)'
    BY LoopStays DEF Revoke, TypeInd, OwnTypes, work
<1> QED
    BY <1>1, <1>2, <1>3 DEF TypeInd

LEMMA OpensTypes ==
    ASSUME TypeInd, NEW p \in Procs, Opens(p), UNCHANGED env
    PROVE  TypeInd'
<1>1. LifeInd'
    BY LifeMoves DEF Opens, TypeInd, Moves
<1>2. OwnTypes'
    BY DEF Opens, TypeInd, OwnTypes, kafka, position, history, Loops
<1>3. phase[p] = "down" /\ phase'[p] = "serving"
    BY DEF Opens, Start, Goto, TypeInd, LifeInd, LifeTypeOK
<1>4. LoopInv(p)'
    BY <1>3 DEF Opens, TypeInd, OwnTypes, LoopInv, kafka
<1>5. ASSUME NEW q \in Procs \ {p} PROVE LoopInv(q)'
  <2>1. /\ loop'[q] = loop[q] /\ batch' = batch /\ log' = log
        /\ phase'[q] = phase[q]
    BY DEF Opens, Start, Goto, TypeInd, OwnTypes, LifeInd, LifeTypeOK, kafka
  <2> QED
    BY <2>1, LoopStays DEF TypeInd, OwnTypes
<1> QED
    BY <1>1, <1>2, <1>4, <1>5 DEF TypeInd

LEMMA ClosesTypes ==
    ASSUME TypeInd, NEW p \in Procs, Closes(p), UNCHANGED env
    PROVE  TypeInd'
<1>1. LifeInd'
    BY LifeMoves DEF Closes, TypeInd, Moves
<1>2. OwnTypes'
    BY GiveUpTypes DEF Closes, TypeInd, OwnTypes, work, position, history
<1>3. \A q \in Procs : phase'[q] = "down" => phase[q] = "down"
    BY DEF Closes, CloseKafka, Goto, TypeInd, LifeInd, LifeTypeOK
<1>4. ASSUME NEW q \in Procs PROVE LoopInv(q)'
    BY <1>3, LoopStays DEF Closes, TypeInd, OwnTypes, work
<1> QED
    BY <1>1, <1>2, <1>4 DEF TypeInd

LEMMA DiesTypes ==
    ASSUME TypeInd, NEW p \in Procs, Dies(p), UNCHANGED env
    PROVE  TypeInd'
<1>1. LifeInd'
    BY LifeMoves DEF Dies, TypeInd, Moves
<1>2. OwnTypes'
    BY RetryAssumption DEF Dies, TypeInd, OwnTypes, history, Loops
<1>3. LoopInv(p)'
    BY DEF Dies, TypeInd, OwnTypes, LoopInv
<1>4. ASSUME NEW q \in Procs \ {p} PROVE LoopInv(q)'
  <2>1. /\ loop'[q] = loop[q] /\ batch'[q] = batch[q] /\ log' = log
        /\ phase'[q] = phase[q]
    BY DEF Dies, Crash, Exit, Gone, Goto, TypeInd, OwnTypes, LifeInd, LifeTypeOK
  <2> QED
    BY <2>1, LoopStays DEF TypeInd, OwnTypes
<1> QED
    BY <1>1, <1>2, <1>3, <1>4 DEF TypeInd

\* Signals, the deadline and requests.
LEMMA QuietTypes ==
    ASSUME TypeInd, NEW p \in Procs,
           Signal(p) \/ Deadline(p) \/ Accept(p) \/ Respond(p),
           UNCHANGED <<idle, env>>
    PROVE  TypeInd'
<1>1. LifeInd'
    BY LifeMoves DEF TypeInd, Moves
<1>2. OwnTypes'
    BY DEF TypeInd, OwnTypes, idle, kafka, work, position, history
<1>3. \A q \in Procs : phase'[q] = "down" => phase[q] = "down"
    BY DEF Signal, Deadline, Accept, Respond, Goto, TypeInd, LifeInd, LifeTypeOK
<1>4. ASSUME NEW q \in Procs PROVE LoopInv(q)'
    BY <1>3, LoopStays DEF TypeInd, OwnTypes, idle, kafka, work
<1> QED
    BY <1>1, <1>2, <1>4 DEF TypeInd


\* What PollFetches returns: the records from the next one up to some later one.
LEMMA Fetched ==
    ASSUME TypeInd, NEW p \in Procs, NEW upto \in Fetchable(p)
    PROVE  LET b == [i \in 1..(upto - next[p]) |-> next[p] + i]
           IN  /\ b \in Seq(Records) /\ Len(b) = upto - next[p] /\ b # <<>>
               /\ b[1] = next[p] + 1 /\ b[1] \in Records
               /\ upto \in Nat /\ upto <= Len(log) /\ next[p] < upto
               /\ \A i \in 1..Len(b) : b[i] = next[p] + i
               /\ loop[p] = "poll" /\ owner = p /\ batch[p] = <<>>
<1> DEFINE b == [i \in 1..(upto - next[p]) |-> next[p] + i]
<1>1. /\ loop[p] = "poll" /\ owner = p
      /\ upto \in (next[p] + 1)..Len(log)
    BY DEF Fetchable
<1>2. next[p] \in Nat /\ Len(log) \in Nat /\ Len(log) <= MaxLog
    BY DEF TypeInd, OwnTypes
<1>3. upto \in Nat /\ upto <= Len(log) /\ next[p] < upto /\ upto - next[p] \in Nat
    BY <1>1, <1>2
<1>4. \A i \in 1..(upto - next[p]) : next[p] + i \in Records
    BY <1>2, <1>3, MaxLogAssumption DEF Records
<1>5. b \in Seq(Records) /\ Len(b) = upto - next[p]
    BY <1>3, <1>4
<1>6. b # <<>> /\ b[1] = next[p] + 1 /\ b[1] \in Records
    BY <1>2, <1>3, <1>4, <1>5
<1>7. batch[p] = <<>>
    BY <1>1 DEF TypeInd, LoopInv
<1> QED
    BY <1>1, <1>3, <1>5, <1>6, <1>7

LEMMA PollFetchesTypes ==
    ASSUME TypeInd, NEW p \in Procs, PollFetches(p), UNCHANGED env
    PROVE  TypeInd'
<1>1. PICK upto \in Fetchable(p) :
          /\ batch' = [batch EXCEPT ![p] = [i \in 1..(upto - next[p]) |-> next[p] + i]]
          /\ next' = [next EXCEPT ![p] = upto]
    BY DEF PollFetches
<1> DEFINE b == [i \in 1..(upto - next[p]) |-> next[p] + i]
<1>2. /\ b \in Seq(Records) /\ Len(b) = upto - next[p] /\ b # <<>>
      /\ b[1] = next[p] + 1 /\ b[1] \in Records
      /\ upto \in Nat /\ upto <= Len(log) /\ next[p] < upto
      /\ \A i \in 1..Len(b) : b[i] = next[p] + i
      /\ loop[p] = "poll"
    BY Fetched
<1>3. /\ batch' = [batch EXCEPT ![p] = b] /\ batch'[p] = b
      /\ times' = [times EXCEPT ![b[1]] = @ + 1]
      /\ loop' = [loop EXCEPT ![p] = "handle"]
      /\ UNCHANGED <<life, kafka, attempt, head, fate>>
    BY <1>1 DEF PollFetches, TypeInd, OwnTypes
<1> HIDE DEF b
<1>4. LifeInd'
    BY <1>3, LifeStays DEF TypeInd
<1>5. OwnTypes'
  <2>1. \A q \in Procs : head[q] <= next'[q] /\ next'[q] <= Len(log)
    BY <1>1, <1>2 DEF TypeInd, OwnTypes
  <2>2. times' \in [Records -> Nat] /\ next' \in [Procs -> Nat]
    BY <1>1, <1>2, <1>3 DEF TypeInd, OwnTypes
  <2>3. batch' \in [Procs -> Seq(Records)] /\ loop' \in [Procs -> Loops]
    BY <1>2, <1>3 DEF TypeInd, OwnTypes, Loops
  <2> QED
    BY <1>3, <2>1, <2>2, <2>3 DEF TypeInd, OwnTypes, kafka
<1>6. LoopInv(p)'
  <2>1. next[p] \in Nat /\ Len(log) \in Nat /\ Len(b) \in Nat
    BY <1>2 DEF TypeInd, OwnTypes
  <2>2. \A i \in 1..Len(b) : b[i] \in 1..Len(log)
    BY <1>2, <2>1
  <2>3. \A i, j \in 1..Len(b) : i < j => b[i] < b[j]
    BY <1>2, <2>1
  <2>4. loop'[p] = "handle" /\ phase' = phase /\ log' = log
    BY <1>3 DEF TypeInd, OwnTypes, life, kafka
  <2>5. phase[p] # "down"
    BY <1>2 DEF TypeInd, LoopInv
  <2> QED
    BY <1>2, <1>3, <2>2, <2>3, <2>4, <2>5 DEF LoopInv
<1>7. ASSUME NEW q \in Procs \ {p} PROVE LoopInv(q)'
  <2>1. loop'[q] = loop[q] /\ batch'[q] = batch[q] /\ log' = log /\ phase' = phase
    BY <1>3 DEF TypeInd, OwnTypes, life, kafka
  <2> QED
    BY <2>1, LoopStays DEF TypeInd, OwnTypes
<1> QED
    BY <1>4, <1>5, <1>6, <1>7 DEF TypeInd

LEMMA PollFailsTypes ==
    ASSUME TypeInd, NEW p \in Procs, PollFails(p), UNCHANGED env
    PROVE  TypeInd'
<1>1. PICK upto \in Fetchable(p) :
          /\ next' = [next EXCEPT ![p] = upto]
          /\ head' = [head EXCEPT ![p] = upto]
          /\ fate' = [o \in Records |-> IF o \in (next[p] + 1)..upto
                                          THEN fate[o] \cup {"dropped"} ELSE fate[o]]
    BY DEF PollFails
<1>2. upto \in Nat /\ upto <= Len(log)
    BY Fetched
<1>3. LifeInd'
    BY LifeStays DEF PollFails, TypeInd
<1>4. OwnTypes'
    BY <1>1, <1>2 DEF PollFails, TypeInd, OwnTypes, kafka, work, Fates
<1>5. ASSUME NEW q \in Procs PROVE LoopInv(q)'
    BY LoopStays DEF PollFails, TypeInd, OwnTypes, work, life, kafka
<1> QED
    BY <1>3, <1>4, <1>5 DEF TypeInd

LEMMA ConsumerEndsTypes ==
    ASSUME TypeInd, NEW p \in Procs, ConsumerEnds(p), UNCHANGED env
    PROVE  TypeInd'
<1>1. LifeInd'
    BY LifeStays DEF ConsumerEnds, TypeInd
<1>2. OwnTypes'
    BY DEF ConsumerEnds, TypeInd, OwnTypes, kafka, position, history, Loops
<1>3. LoopInv(p)'
    BY DEF ConsumerEnds, TypeInd, OwnTypes, LoopInv, kafka, life
<1>4. ASSUME NEW q \in Procs \ {p} PROVE LoopInv(q)'
  <2>1. /\ loop'[q] = loop[q] /\ batch' = batch /\ log' = log
        /\ phase' = phase
    BY DEF ConsumerEnds, TypeInd, OwnTypes, kafka, life
  <2> QED
    BY <2>1, LoopStays DEF TypeInd, OwnTypes
<1> QED
    BY <1>1, <1>2, <1>3, <1>4 DEF TypeInd

\* Another attempt, or the last one and the dead letter topic.
LEMMA RetryTypes ==
    ASSUME TypeInd, NEW p \in Procs, NEW l \in {"handle", "dead"},
           NEW a \in 0..RetryCount, loop[p] = "handle",
           loop' = [loop EXCEPT ![p] = l], attempt' = [attempt EXCEPT ![p] = a],
           UNCHANGED <<env, life, kafka, batch, position, history>>
    PROVE  TypeInd'
<1>1. LifeInd'
    BY LifeStays DEF TypeInd
<1>2. OwnTypes'
    BY DEF TypeInd, OwnTypes, kafka, position, history, Loops
<1>3. LoopInv(p)'
    BY DEF TypeInd, OwnTypes, LoopInv, kafka, life
<1>4. ASSUME NEW q \in Procs \ {p} PROVE LoopInv(q)'
  <2>1. /\ loop'[q] = loop[q] /\ batch' = batch /\ log' = log
        /\ phase' = phase
    BY DEF TypeInd, OwnTypes, kafka, life
  <2> QED
    BY <2>1, LoopStays DEF TypeInd, OwnTypes
<1> QED
    BY <1>1, <1>2, <1>3, <1>4 DEF TypeInd


\* The record a handler returns from, and the records that are left.
LEMMA Rest ==
    ASSUME TypeInd, NEW p \in Procs, loop[p] \in {"handle", "dead"}
    PROVE  LET o == Head(batch[p])  t == Tail(batch[p])
           IN  /\ batch[p] \in Seq(Records) /\ Len(batch[p]) \in Nat \ {0}
               /\ o = batch[p][1] /\ o \in Records /\ o \in 1..Len(log)
               /\ t \in Seq(Records) /\ Len(t) = Len(batch[p]) - 1
               /\ \A i \in 1..Len(t) : t[i] = batch[p][i + 1]
               /\ t # <<>> => Head(t) = t[1] /\ Head(t) \in Records
<1>1. batch[p] \in Seq(Records) /\ batch[p] # <<>>
    BY DEF TypeInd, OwnTypes, LoopInv
<1>2. Len(batch[p]) \in Nat \ {0}
    BY <1>1
<1>3. \A i \in 1..Len(batch[p]) : batch[p][i] \in 1..Len(log) /\ batch[p][i] \in Records
    BY <1>1 DEF TypeInd, LoopInv
<1> QED
    BY <1>1, <1>2, <1>3

\* Whichever way HandleMessage returns.
LEMMA ReturnTypes ==
    ASSUME TypeInd, NEW p \in Procs, NEW end \in Fates, loop[p] \in {"handle", "dead"},
           Return(p, end), UNCHANGED env
    PROVE  TypeInd'
<1> DEFINE t == Tail(batch[p])
<1>1. /\ Head(batch[p]) \in Records
      /\ t \in Seq(Records) /\ Len(t) = Len(batch[p]) - 1
      /\ Len(batch[p]) \in Nat \ {0}
      /\ \A i \in 1..Len(t) : t[i] = batch[p][i + 1]
      /\ t # <<>> => Head(t) \in Records
    BY Rest
<1>2. /\ batch' = [batch EXCEPT ![p] = t] /\ batch'[p] = t
      /\ fate' = [fate EXCEPT ![Head(batch[p])] = @ \cup {end}]
      /\ attempt' = [attempt EXCEPT ![p] = 0]
      /\ UNCHANGED <<life, kafka, next>>
    BY DEF Return, Poll, TypeInd, OwnTypes, position
<1>3. \/ /\ t = <<>> /\ loop' = [loop EXCEPT ![p] = "poll"]
         /\ head' = [head EXCEPT ![p] = next[p]] /\ UNCHANGED times
      \/ /\ t # <<>> /\ loop' = [loop EXCEPT ![p] = "handle"]
         /\ UNCHANGED head
         /\ times' = [times EXCEPT ![Head(t)] = @ + 1]
    BY DEF Return, Poll, position
<1>4. phase[p] # "down"
    BY DEF TypeInd, LoopInv
<1> HIDE DEF t
<1>5. LifeInd'
    BY <1>2, LifeStays DEF TypeInd
<1>6. OwnTypes'
  <2>1. fate' \in [Records -> SUBSET Fates]
    BY <1>1, <1>2 DEF TypeInd, OwnTypes
  <2>2. times' \in [Records -> Nat]
    BY <1>1, <1>3 DEF TypeInd, OwnTypes
  <2>3. batch' \in [Procs -> Seq(Records)] /\ loop' \in [Procs -> Loops]
    BY <1>1, <1>2, <1>3 DEF TypeInd, OwnTypes, Loops
  <2>4. /\ head' \in [Procs -> Nat]
        /\ \A q \in Procs : head'[q] <= next[q] /\ next[q] <= Len(log)
    <3>1. /\ head \in [Procs -> Nat] /\ next \in [Procs -> Nat]
          /\ \A q \in Procs : head[q] <= next[q] /\ next[q] <= Len(log)
      BY DEF TypeInd, OwnTypes
    <3>2. CASE UNCHANGED head
      BY <3>1, <3>2
    <3>3. CASE head' = [head EXCEPT ![p] = next[p]]
      BY <3>1, <3>3
    <3> QED
      BY <1>3, <3>2, <3>3
  <2>5. attempt' \in [Procs -> 0..RetryCount]
    BY <1>2, RetryAssumption DEF TypeInd, OwnTypes
  <2> QED
    BY <1>2, <2>1, <2>2, <2>3, <2>4, <2>5 DEF TypeInd, OwnTypes, kafka
<1>7. LoopInv(p)'
  <2>1. \A i \in 1..Len(t) : t[i] \in 1..Len(log)
    BY <1>1 DEF TypeInd, LoopInv
  <2>2. \A i, j \in 1..Len(t) : i < j => t[i] < t[j]
    BY <1>1 DEF TypeInd, LoopInv
  <2>3. loop'[p] \in {"handle", "dead"} <=> t # <<>>
    BY <1>3 DEF TypeInd, OwnTypes
  <2>4. phase' = phase /\ log' = log
    BY <1>2 DEF life, kafka
  <2> QED
    BY <1>2, <1>4, <2>1, <2>2, <2>3, <2>4 DEF LoopInv
<1>8. ASSUME NEW q \in Procs \ {p} PROVE LoopInv(q)'
  <2>1. /\ loop'[q] = loop[q] /\ batch'[q] = batch[q] /\ log' = log
        /\ phase' = phase
    BY <1>2, <1>3 DEF TypeInd, OwnTypes, kafka, life
  <2> QED
    BY <2>1, LoopStays DEF TypeInd, OwnTypes
<1> QED
    BY <1>5, <1>6, <1>7, <1>8 DEF TypeInd

\* A step of HandleMessage is another attempt or a return.
LEMMA HandleSteps ==
    ASSUME TypeInd, NEW p \in Procs, HandleMessage(p)
    PROVE  /\ loop[p] \in {"handle", "dead"}
           /\ \/ \E end \in Fates : Return(p, end)
              \/ \E l \in {"handle", "dead"}, a \in 0..RetryCount :
                    /\ loop[p] = "handle"
                    /\ loop' = [loop EXCEPT ![p] = l]
                    /\ attempt' = [attempt EXCEPT ![p] = a]
                    /\ UNCHANGED <<life, kafka, batch, position, history>>
<1>1. CASE NoHandler(p)
    BY <1>1 DEF NoHandler, Fates
<1>2. CASE Handled(p) \/ Panics(p)
    BY <1>2 DEF Handled, Panics, Processing, Fates
<1>3. CASE AttemptFails(p)
  <2>1. loop[p] = "handle" /\ attempt[p] \in 0..RetryCount
    BY <1>3 DEF AttemptFails, Processing, TypeInd, OwnTypes
  <2>2. CASE attempt[p] < RetryCount
    <3>1. /\ attempt' = [attempt EXCEPT ![p] = attempt[p] + 1]
          /\ UNCHANGED <<life, kafka, loop, batch, position, history>>
      BY <1>3, <2>2 DEF AttemptFails
    <3>2. loop' = [loop EXCEPT ![p] = "handle"] /\ attempt[p] + 1 \in 0..RetryCount
      BY <2>1, <2>2, <3>1, RetryAssumption DEF TypeInd, OwnTypes
    <3> QED
      BY <2>1, <3>1, <3>2
  <2>3. CASE ~(attempt[p] < RetryCount) /\ DeadLetters
    <3>1. /\ loop' = [loop EXCEPT ![p] = "dead"]
          /\ UNCHANGED <<life, kafka, batch, attempt, position, history>>
      BY <1>3, <2>3 DEF AttemptFails
    <3>2. attempt' = [attempt EXCEPT ![p] = attempt[p]]
      BY <3>1 DEF TypeInd, OwnTypes
    <3> QED
      BY <2>1, <3>1, <3>2
  <2>4. CASE ~(attempt[p] < RetryCount) /\ ~DeadLetters
    BY <1>3, <2>1, <2>4 DEF AttemptFails, Fates
  <2> QED
    BY <2>2, <2>3, <2>4
<1>4. CASE DeadLetter(p)
    BY <1>4 DEF DeadLetter, Fates
<1> QED
    BY <1>1, <1>2, <1>3, <1>4 DEF HandleMessage

LEMMA HandleTypes ==
    ASSUME TypeInd, NEW p \in Procs, HandleMessage(p), UNCHANGED env
    PROVE  TypeInd'
BY HandleSteps, ReturnTypes, RetryTypes

LEMMA NextTypes == TypeInd /\ [Next]_<<vars, env>> => TypeInd'
<1> SUFFICES ASSUME TypeInd, [Next]_<<vars, env>> PROVE TypeInd'
    OBVIOUS
<1>1. CASE Produce /\ UNCHANGED env
    BY <1>1, ProduceTypes
<1>2. ASSUME NEW p \in Procs, Life(p), UNCHANGED env PROVE TypeInd'
    BY <1>2, QuietTypes, OpensTypes, ClosesTypes, DiesTypes DEF Life
<1>3. ASSUME NEW p \in Procs, Loop(p), UNCHANGED env PROVE TypeInd'
    BY <1>3, PollFetchesTypes, PollFailsTypes, ConsumerEndsTypes, HandleTypes DEF Loop
<1>4. ASSUME NEW p \in Procs, Group(p), UNCHANGED env PROVE TypeInd'
    BY <1>4, AssignTypes, CommitTypes, RevokeTypes DEF Group
<1>5. CASE UNCHANGED <<vars, env>>
  <2>1. LifeInd' /\ OwnTypes'
    BY <1>5, LifeStays
       DEF TypeInd, OwnTypes, vars, kafka, work, position, history
  <2>2. ASSUME NEW q \in Procs PROVE LoopInv(q)'
    BY <1>5, LoopStays DEF TypeInd, OwnTypes, vars, life, kafka, work
  <2> QED
    BY <2>1, <2>2 DEF TypeInd
<1> QED
    BY <1>1, <1>2, <1>3, <1>4, <1>5 DEF Next

\* Where each process is agrees with its connections, its requests and the partition
\* it thinks it owns.
THEOREM TypeInvariance == Spec => []TypeInd
BY InitTypes, NextTypes, PTL DEF Spec

\* Every variable stays in its domain, whatever crashes, is rebalanced or fails, and
\* the committed offset, the client's position and the log keep their order.
THEOREM TypeCorrect == Spec => []TypeOK
BY TypeInvariance, TypeIndTypes, PTL

\* A request that is being served finds every connection open, from the start of
\* its process to the deadline of the shutdown.
THEOREM GracefulShutdown == Spec => []ServedOpen
<1>1. TypeInd => ServedOpen
  <2> SUFFICES ASSUME TypeInd, NEW p \in Procs, inflight[p] > 0, ~late[p]
               PROVE  conns[p] = AllConns
    BY DEF ServedOpen
  <2> QED
    BY DEF TypeInd, LifeInd, LifeTypeOK, LifeInv, Phases
<1> QED
    BY <1>1, TypeInvariance, PTL

-----------------------------------------------------------------------------
(* What is committed has been met *)

LEMMA InitMet == Init => MetInd
<1> SUFFICES ASSUME Init PROVE MetInd
    OBVIOUS
<1>1. ASSUME NEW p \in Procs PROVE MetInv(p)
    BY DEF Init, MetInv
<1> QED
    BY <1>1 DEF Init, MetInd, CommittedIsMet

\* A loop that does nothing: what has been met stays met.
LEMMA MetStays ==
    ASSUME TypeInd, NEW p \in Procs, MetInv(p),
           \A o \in Records : fate[o] # {} => fate'[o] # {},
           next'[p] = next[p], head'[p] = head[p], batch'[p] = batch[p]
    PROVE  MetInv(p)'
<1>1. 1..next[p] \subseteq Records /\ 1..head[p] \subseteq Records
    BY MaxLogAssumption DEF TypeInd, OwnTypes, Records
<1> QED
    BY <1>1 DEF MetInv, Holds

\* Steps that neither produce nor handle anything.
LEMMA MetSteady ==
    ASSUME TypeInd, MetInd, UNCHANGED <<log, fate>>,
           \A p \in Procs : MetInv(p)',
           \A o \in 1..committed' : fate[o] # {}
    PROVE  MetInd'
BY DEF MetInd, CommittedIsMet

LEMMA ProduceMet ==
    ASSUME TypeInd, MetInd, Produce
    PROVE  MetInd'
<1>1. /\ UNCHANGED <<committed, batch, next, head, fate>>
      /\ Len(log) < MaxLog
    BY DEF Produce, work, position, history
<1>2. PICK decodes \in BOOLEAN : log' = Append(log, decodes)
    BY DEF Produce
<1>3. Len(log') = Len(log) + 1 /\ Len(log) \in Nat
    BY <1>2 DEF TypeInd, OwnTypes
<1>4. ASSUME NEW p \in Procs PROVE MetInv(p)'
    BY <1>1, MetStays DEF MetInd
<1>5. \A o \in Records : o > Len(log') => fate'[o] = {}
    BY <1>1, <1>3 DEF MetInd, Records
<1> QED
    BY <1>1, <1>4, <1>5 DEF MetInd, CommittedIsMet

\* The owner starts from the committed offset, behind which everything was met.
LEMMA AssignMet ==
    ASSUME TypeInd, MetInd, NEW p \in Procs, Assign(p)
    PROVE  MetInd'
<1>1. /\ next'[p] = committed /\ head'[p] = committed
      /\ \A q \in Procs \ {p} : next'[q] = next[q] /\ head'[q] = head[q]
      /\ UNCHANGED <<log, fate, batch, committed>>
    BY DEF Assign, TypeInd, OwnTypes, work, history
<1>2. MetInv(p)'
    BY <1>1 DEF MetInd, CommittedIsMet, MetInv
<1>3. ASSUME NEW q \in Procs \ {p} PROVE MetInv(q)'
    BY <1>1, MetStays DEF MetInd
<1> QED
    BY <1>1, <1>2, <1>3, MetSteady DEF MetInd, CommittedIsMet

\* What is committed, now and then or when the partition is given up, was the head.
LEMMA CommitMet ==
    ASSUME TypeInd, MetInd, NEW p \in Procs,
           committed' = committed \/ committed' = head[p],
           UNCHANGED <<log, fate, batch, next, head>>
    PROVE  MetInd'
<1>1. ASSUME NEW q \in Procs PROVE MetInv(q)'
    BY MetStays DEF MetInd
<1>2. \A o \in 1..committed' : fate[o] # {}
    BY DEF MetInd, MetInv, CommittedIsMet
<1> QED
    BY <1>1, <1>2, MetSteady

LEMMA DiesMet ==
    ASSUME TypeInd, MetInd, NEW p \in Procs, Dies(p)
    PROVE  MetInd'
<1>1. /\ next'[p] = 0 /\ head'[p] = 0
      /\ \A q \in Procs \ {p} : /\ next'[q] = next[q] /\ head'[q] = head[q]
                                /\ batch'[q] = batch[q]
      /\ UNCHANGED <<log, fate, committed>>
    BY DEF Dies, TypeInd, OwnTypes, history
<1>2. MetInv(p)'
    BY <1>1 DEF MetInv
<1>3. ASSUME NEW q \in Procs \ {p} PROVE MetInv(q)'
    BY <1>1, MetStays DEF MetInd
<1> QED
    BY <1>1, <1>2, <1>3, MetSteady DEF MetInd, CommittedIsMet

\* The loop polls with empty hands, and what it is given it holds.
LEMMA PollFetchesMet ==
    ASSUME TypeInd, MetInd, NEW p \in Procs, PollFetches(p)
    PROVE  MetInd'
<1>1. PICK upto \in Fetchable(p) :
          /\ batch' = [batch EXCEPT ![p] = [i \in 1..(upto - next[p]) |-> next[p] + i]]
          /\ next' = [next EXCEPT ![p] = upto]
    BY DEF PollFetches
<1> DEFINE b == [i \in 1..(upto - next[p]) |-> next[p] + i]
<1>2. /\ Len(b) = upto - next[p] /\ next[p] < upto /\ upto \in Nat
      /\ \A i \in 1..Len(b) : b[i] = next[p] + i
      /\ batch[p] = <<>>
    BY Fetched
<1>3. /\ batch'[p] = b /\ next'[p] = upto /\ head'[p] = head[p]
      /\ \A q \in Procs \ {p} : /\ next'[q] = next[q] /\ head'[q] = head[q]
                                /\ batch'[q] = batch[q]
      /\ UNCHANGED <<log, fate, committed>>
    BY <1>1 DEF PollFetches, TypeInd, OwnTypes, kafka
<1> HIDE DEF b
<1>4. MetInv(p)'
  <2>1. next[p] \in Nat
    BY DEF TypeInd, OwnTypes
  <2>2. \A o \in 1..next[p] : fate[o] # {}
    BY <1>2 DEF MetInd, MetInv, Holds
  <2>3. ASSUME NEW o \in 1..upto, o \notin 1..next[p] PROVE Holds(p, o)'
    <3>1. next[p] < o /\ o <= upto /\ o \in Nat
      BY <1>2, <2>1, <2>3
    <3>2. o - next[p] \in 1..Len(b)
      BY <1>2, <2>1, <3>1
    <3>3. next[p] + (o - next[p]) = o
      BY <2>1, <3>1
    <3>4. b[o - next[p]] = o
      BY <1>2, <3>2, <3>3
    <3> QED
      BY <1>3, <3>2, <3>4 DEF Holds
  <2>4. \A o \in 1..head[p] : fate[o] # {}
    BY DEF MetInd, MetInv
  <2> QED
    BY <1>3, <2>2, <2>3, <2>4 DEF MetInv
<1>5. ASSUME NEW q \in Procs \ {p} PROVE MetInv(q)'
    BY <1>3, MetStays DEF MetInd
<1> QED
    BY <1>3, <1>4, <1>5, MetSteady DEF MetInd, CommittedIsMet

\* What the failed fetch held has been met: it is dropped.
LEMMA PollFailsMet ==
    ASSUME TypeInd, MetInd, NEW p \in Procs, PollFails(p)
    PROVE  MetInd'
<1>1. PICK upto \in Fetchable(p) :
          /\ next' = [next EXCEPT ![p] = upto]
          /\ head' = [head EXCEPT ![p] = upto]
          /\ fate' = [o \in Records |-> IF o \in (next[p] + 1)..upto
                                          THEN fate[o] \cup {"dropped"} ELSE fate[o]]
    BY DEF PollFails
<1>2. /\ upto \in Nat /\ upto <= Len(log) /\ next[p] < upto /\ batch[p] = <<>>
      /\ next[p] \in Nat /\ Len(log) \in Nat /\ Len(log) <= MaxLog
  <2>1. /\ upto \in Nat /\ upto <= Len(log) /\ next[p] < upto /\ batch[p] = <<>>
    BY Fetched
  <2>2. next[p] \in Nat /\ Len(log) \in Nat /\ Len(log) <= MaxLog
    BY DEF TypeInd, OwnTypes
  <2> QED
    BY <2>1, <2>2
<1>3. /\ next'[p] = upto /\ head'[p] = upto
      /\ \A q \in Procs \ {p} : next'[q] = next[q] /\ head'[q] = head[q]
      /\ UNCHANGED <<log, batch, committed>>
    BY <1>1 DEF PollFails, TypeInd, OwnTypes, kafka, work
<1>4. \A o \in Records : fate[o] # {} => fate'[o] # {}
    BY <1>1
<1>5. \A o \in 1..upto : fate'[o] # {}
  <2>1. \A o \in 1..next[p] : fate[o] # {}
    BY <1>2 DEF MetInd, MetInv, Holds
  <2>2. \A o \in 1..upto : o \in Records
    BY <1>2, MaxLogAssumption DEF Records
  <2>3. \A o \in 1..upto : o \in 1..next[p] \/ o \in (next[p] + 1)..upto
    BY <1>2
  <2> QED
    BY <1>1, <2>1, <2>2, <2>3
<1>6. MetInv(p)'
    BY <1>3, <1>5 DEF MetInv
<1>7. ASSUME NEW q \in Procs \ {p} PROVE MetInv(q)'
    BY <1>3, <1>4, MetStays DEF MetInd
<1>8. CommittedIsMet'
  <2>1. 1..committed \subseteq Records
    BY MaxLogAssumption DEF TypeInd, OwnTypes, Records
  <2> QED
    BY <1>3, <1>4, <2>1 DEF MetInd, CommittedIsMet
<1>9. (\A o \in Records : o > Len(log) => fate[o] = {})'
    BY <1>1, <1>2, <1>3 DEF MetInd, Records
<1> QED
    BY <1>6, <1>7, <1>8, <1>9 DEF MetInd

\* The record a handler returns from is met, the others are still held; with the
\* last one the position may be committed.
LEMMA ReturnMet ==
    ASSUME TypeInd, MetInd, NEW p \in Procs, NEW end \in Fates,
           loop[p] \in {"handle", "dead"}, Return(p, end)
    PROVE  MetInd'
<1> DEFINE t == Tail(batch[p])
           h == Head(batch[p])
<1>1. /\ h \in Records /\ h \in 1..Len(log) /\ h = batch[p][1]
      /\ t \in Seq(Records) /\ Len(t) = Len(batch[p]) - 1
      /\ Len(batch[p]) \in Nat \ {0}
      /\ \A i \in 1..Len(t) : t[i] = batch[p][i + 1]
    BY Rest
<1>2. /\ batch'[p] = t
      /\ \A q \in Procs \ {p} : batch'[q] = batch[q] /\ head'[q] = head[q]
      /\ fate' = [fate EXCEPT ![h] = @ \cup {end}]
      /\ UNCHANGED <<log, committed, next>>
      /\ head'[p] = head[p] \/ (t = <<>> /\ head'[p] = next[p])
    BY DEF Return, Poll, TypeInd, OwnTypes, position, kafka
<1> HIDE DEF t, h
<1>4. /\ fate'[h] = fate[h] \cup {end}
      /\ \A o \in Records : o # h => fate'[o] = fate[o]
    BY <1>1, <1>2 DEF TypeInd, OwnTypes
<1>5. \A o \in Records : fate[o] # {} => fate'[o] # {}
    BY <1>4
<1>6. MetInv(p)'
  <2>1. 1..next[p] \subseteq Records /\ 1..head[p] \subseteq Records
    BY MaxLogAssumption DEF TypeInd, OwnTypes, Records
  <2>2. ASSUME NEW o \in 1..next[p], fate'[o] = {} PROVE Holds(p, o)'
    <3>1. fate[o] = {} /\ o # h
      BY <1>4, <1>5, <2>1, <2>2
    <3>2. PICK i \in 1..Len(batch[p]) : batch[p][i] = o
      BY <3>1 DEF MetInd, MetInv, Holds
    <3>3. i # 1
      BY <1>1, <3>1, <3>2
    <3>4. i - 1 \in 1..Len(t) /\ t[i - 1] = o
      BY <1>1, <3>2, <3>3
    <3> QED
      BY <1>2, <3>4 DEF Holds
  <2>3. t = <<>> => \A o \in 1..next[p] : fate'[o] # {}
    BY <1>2, <2>2 DEF Holds
  <2>4. \A o \in 1..head[p] : fate'[o] # {}
    BY <1>5, <2>1 DEF MetInd, MetInv
  <2> QED
    BY <1>2, <2>2, <2>3, <2>4 DEF MetInv
<1>7. ASSUME NEW q \in Procs \ {p} PROVE MetInv(q)'
    BY <1>2, <1>5, MetStays DEF MetInd
<1>8. CommittedIsMet'
  <2>1. 1..committed \subseteq Records
    BY MaxLogAssumption DEF TypeInd, OwnTypes, Records
  <2> QED
    BY <1>2, <1>5, <2>1 DEF MetInd, CommittedIsMet
<1>9. (\A o \in Records : o > Len(log) => fate[o] = {})'
  <2>1. h <= Len(log) /\ Len(log) \in Nat
    BY <1>1 DEF TypeInd, OwnTypes
  <2> QED
    BY <1>2, <1>4, <2>1 DEF MetInd, Records
<1> QED
    BY <1>6, <1>7, <1>8, <1>9 DEF MetInd

\* Everything else.
LEMMA QuietMet ==
    ASSUME TypeInd, MetInd, UNCHANGED <<log, committed, batch, position, fate>>
    PROVE  MetInd'
<1>1. ASSUME NEW q \in Procs PROVE MetInv(q)'
    BY MetStays DEF MetInd, position
<1> QED
    BY <1>1, MetSteady DEF MetInd, CommittedIsMet

LEMMA NextMet == TypeInd /\ MetInd /\ [Next]_<<vars, env>> => MetInd'
<1> SUFFICES ASSUME TypeInd, MetInd, [Next]_<<vars, env>> PROVE MetInd'
    OBVIOUS
<1>1. CASE Produce
    BY <1>1, ProduceMet
<1>2. ASSUME NEW p \in Procs, Life(p) PROVE MetInd'
  <2>1. CASE Closes(p)
    BY <2>1, GiveUpTypes, CommitMet DEF Closes, work, position, history
  <2>2. CASE Opens(p)
    BY <2>2, QuietMet DEF Opens, kafka, history
  <2>3. CASE UNCHANGED idle
    BY <2>3, QuietMet DEF idle, kafka, work, history
  <2> QED
    BY <1>2, <2>1, <2>2, <2>3, DiesMet DEF Life
<1>3. ASSUME NEW p \in Procs, Loop(p) PROVE MetInd'
  <2>1. CASE ConsumerEnds(p)
    BY <2>1, QuietMet DEF ConsumerEnds, kafka, history
  <2>2. CASE HandleMessage(p)
    <3>1. CASE UNCHANGED <<life, kafka, batch, position, history>>
      BY <3>1, QuietMet DEF kafka, history
    <3> QED
      BY <2>2, <3>1, HandleSteps, ReturnMet
  <2> QED
    BY <1>3, <2>1, <2>2, PollFetchesMet, PollFailsMet DEF Loop
<1>4. ASSUME NEW p \in Procs, Group(p) PROVE MetInd'
  <2>1. CASE Commit(p)
    BY <2>1, CommitMet DEF Commit, work, position, history
  <2>2. CASE Revoke(p)
    BY <2>2, GiveUpTypes, CommitMet DEF Revoke, work, position, history
  <2> QED
    BY <1>4, <2>1, <2>2, AssignMet DEF Group
<1>5. CASE UNCHANGED vars
    BY <1>5, QuietMet DEF vars, kafka, work, history
<1> QED
    BY <1>1, <1>2, <1>3, <1>4, <1>5 DEF Next

\* What the client was given has a fate or is still in its batch, and what may be
\* committed has a fate.
THEOREM MetInvariance == Spec => []MetInd
BY InitMet, NextMet, TypeInvariance, PTL DEF Spec

\* Whatever crashes, is closed or is rebalanced in the middle of a batch, the group
\* never commits a record whose handling has not ended somewhere.
THEOREM NothingSkipped == Spec => []CommittedIsMet
<1>1. MetInd => CommittedIsMet
    BY DEF MetInd
<1> QED
    BY <1>1, MetInvariance, PTL

-----------------------------------------------------------------------------
(* Records are handed out once in every assignment *)

LEMMA InitOnce == Init => OnceInd
<1> SUFFICES ASSUME Init, NEW o \in Records PROVE OnceInv(o)
    BY DEF OnceInd
<1>1. Waiting(o) = {} /\ Owed(o) = 0
    BY DEF Init, Waiting, Owed
<1> QED
    BY <1>1, FS_EmptySet DEF Init, OnceInv

\* Nothing more is promised than before.
LEMMA NoMoreOnce ==
    ASSUME TypeInd, NEW o \in Records, OnceInv(o), Waiting(o)' \subseteq Waiting(o),
           Owed(o)' \in 0..Owed(o), UNCHANGED <<times, assigns>>
    PROVE  OnceInv(o)'
<1>1. /\ IsFiniteSet(Waiting(o)')
      /\ Cardinality(Waiting(o)') <= Cardinality(Waiting(o))
    BY FS_Subset DEF OnceInv
<1>2. Cardinality(Waiting(o)) \in Nat /\ Cardinality(Waiting(o)') \in Nat
    BY <1>1, FS_CardinalityType DEF OnceInv
<1>3. Owed(o) \in 0..1 /\ times[o] \in Nat /\ assigns \in Nat
    BY DEF Owed, TypeInd, OwnTypes
<1> QED
    BY <1>1, <1>2, <1>3 DEF OnceInv

\* A record of a batch is handed out.
LEMMA HandsOutWaiting ==
    ASSUME TypeInd, NEW o \in Records, OnceInv(o),
           NEW p \in Waiting(o), Waiting(o)' = Waiting(o) \ {p},
           times'[o] = times[o] + 1, Owed(o)' = Owed(o), UNCHANGED assigns
    PROVE  OnceInv(o)'
<1>1. /\ IsFiniteSet(Waiting(o)')
      /\ Cardinality(Waiting(o)') = Cardinality(Waiting(o)) - 1
    BY FS_RemoveElement DEF OnceInv
<1>2. Cardinality(Waiting(o)) \in Nat
    BY FS_CardinalityType DEF OnceInv
<1>3. Owed(o) \in 0..1 /\ times[o] \in Nat /\ assigns \in Nat
    BY DEF Owed, TypeInd, OwnTypes
<1> QED
    BY <1>1, <1>2, <1>3 DEF OnceInv

\* The first record of a poll.
LEMMA HandsOutFirst ==
    ASSUME TypeInd, NEW o \in Records, OnceInv(o), Waiting(o)' = Waiting(o),
           times'[o] = times[o] + 1, Owed(o) = 1, Owed(o)' = 0, UNCHANGED assigns
    PROVE  OnceInv(o)'
<1>1. Cardinality(Waiting(o)) \in Nat
    BY FS_CardinalityType DEF OnceInv
<1>2. times[o] \in Nat /\ assigns \in Nat
    BY DEF TypeInd, OwnTypes
<1> QED
    BY <1>1, <1>2 DEF OnceInv

\* The other records of a poll.
LEMMA BeginsToWait ==
    ASSUME TypeInd, NEW o \in Records, OnceInv(o),
           NEW p, p \notin Waiting(o), Waiting(o)' = Waiting(o) \cup {p},
           times'[o] = times[o], Owed(o) = 1, Owed(o)' = 0, UNCHANGED assigns
    PROVE  OnceInv(o)'
<1>1. /\ IsFiniteSet(Waiting(o)')
      /\ Cardinality(Waiting(o)') = Cardinality(Waiting(o)) + 1
    BY FS_AddElement DEF OnceInv
<1>2. Cardinality(Waiting(o)) \in Nat
    BY FS_CardinalityType DEF OnceInv
<1>3. times[o] \in Nat /\ assigns \in Nat
    BY DEF TypeInd, OwnTypes
<1> QED
    BY <1>1, <1>2, <1>3 DEF OnceInv

\* Steps outside the loop: the owner stays, or nobody owns the partition.
LEMMA QuietOnce ==
    ASSUME TypeInd, OnceInd, UNCHANGED <<batch, next, times, assigns>>,
           owner' \in {owner, NoProc}
    PROVE  OnceInd'
<1> SUFFICES ASSUME NEW o \in Records PROVE OnceInv(o)'
    BY DEF OnceInd
<1>1. Waiting(o)' = Waiting(o)
    BY DEF Waiting
<1>2. Owed(o)' \in 0..Owed(o)
    BY DEF Owed
<1> QED
    BY <1>1, <1>2, NoMoreOnce DEF OnceInd

LEMMA AssignOnce ==
    ASSUME TypeInd, OnceInd, NEW p \in Procs, Assign(p)
    PROVE  OnceInd'
<1> SUFFICES ASSUME NEW o \in Records PROVE OnceInv(o)'
    BY DEF OnceInd
<1>1. Waiting(o)' = Waiting(o)
    BY DEF Assign, work, Waiting
<1>2. Owed(o) = 0 /\ Owed(o)' \in 0..1
    BY DEF Assign, Owed
<1>3. times' = times /\ assigns' = assigns + 1 /\ times[o] \in Nat /\ assigns \in Nat
    BY DEF Assign, history, TypeInd, OwnTypes
<1>4. OnceInv(o) /\ Cardinality(Waiting(o)) \in Nat
    BY FS_CardinalityType DEF OnceInd, OnceInv
<1> QED
    BY <1>1, <1>2, <1>3, <1>4 DEF OnceInv

\* What a process that dies had not handed out, it will not.
LEMMA DiesOnce ==
    ASSUME TypeInd, OnceInd, NEW p \in Procs, Dies(p)
    PROVE  OnceInd'
<1> SUFFICES ASSUME NEW o \in Records PROVE OnceInv(o)'
    BY DEF OnceInd
<1>1. /\ batch'[p] = <<>>
      /\ \A q \in Procs \ {p} : batch'[q] = batch[q] /\ next'[q] = next[q]
      /\ owner' = IF owner = p THEN NoProc ELSE owner
      /\ UNCHANGED <<times, assigns>>
    BY DEF Dies, TypeInd, OwnTypes, history
<1>2. Waiting(o)' \subseteq Waiting(o)
    BY <1>1 DEF Waiting
<1>3. Owed(o)' \in 0..Owed(o)
    BY <1>1 DEF Owed, TypeInd, OwnTypes
<1> QED
    BY <1>1, <1>2, <1>3, NoMoreOnce DEF OnceInd

LEMMA PollFailsOnce ==
    ASSUME TypeInd, OnceInd, NEW p \in Procs, PollFails(p)
    PROVE  OnceInd'
<1> SUFFICES ASSUME NEW o \in Records PROVE OnceInv(o)'
    BY DEF OnceInd
<1>1. PICK upto \in Fetchable(p) : next' = [next EXCEPT ![p] = upto]
    BY DEF PollFails
<1>2. upto \in Nat /\ next[p] < upto /\ owner = p
    BY Fetched
<1>3. /\ next'[p] = upto /\ next[p] \in Nat /\ o \in Nat
      /\ UNCHANGED <<batch, times, assigns, owner>>
    BY <1>1 DEF PollFails, TypeInd, OwnTypes, kafka, work, Records
<1>4. Waiting(o)' = Waiting(o)
    BY <1>3 DEF Waiting
<1>5. Owed(o)' \in 0..Owed(o)
    BY <1>2, <1>3 DEF Owed
<1> QED
    BY <1>3, <1>4, <1>5, NoMoreOnce DEF OnceInd

\* The owner spends its permission for every record of a poll: the first is handed
\* out, the others wait in its batch.
LEMMA PollFetchesOnce ==
    ASSUME TypeInd, OnceInd, NEW p \in Procs, PollFetches(p)
    PROVE  OnceInd'
<1>1. PICK upto \in Fetchable(p) :
          /\ batch' = [batch EXCEPT ![p] = [i \in 1..(upto - next[p]) |-> next[p] + i]]
          /\ next' = [next EXCEPT ![p] = upto]
    BY DEF PollFetches
<1> DEFINE b == [i \in 1..(upto - next[p]) |-> next[p] + i]
<1>2. /\ Len(b) = upto - next[p] /\ next[p] < upto /\ upto \in Nat
      /\ b[1] = next[p] + 1 /\ b[1] \in Records
      /\ \A i \in 1..Len(b) : b[i] = next[p] + i
      /\ batch[p] = <<>> /\ owner = p
    BY Fetched
<1>3. /\ batch'[p] = b /\ next'[p] = upto
      /\ \A q \in Procs \ {p} : batch'[q] = batch[q]
      /\ times' = [times EXCEPT ![b[1]] = @ + 1]
      /\ UNCHANGED <<owner, assigns>>
    BY <1>1 DEF PollFetches, TypeInd, OwnTypes, kafka
<1> HIDE DEF b
<1>4. next[p] \in Nat /\ p # NoProc
    BY NoProcAssumption DEF TypeInd, OwnTypes
<1> SUFFICES ASSUME NEW o \in Records PROVE OnceInv(o)'
    BY DEF OnceInd
<1>5. o \in Nat /\ OnceInv(o) /\ p \notin Waiting(o)
    BY <1>2 DEF OnceInd, Records, Waiting
<1>6. /\ Owed(o) = IF o > next[p] THEN 1 ELSE 0
      /\ Owed(o)' = IF o > upto THEN 1 ELSE 0
    BY <1>2, <1>3, <1>4 DEF Owed
<1>7. Waiting(o)' = IF \E i \in 2..Len(b) : b[i] = o THEN Waiting(o) \cup {p}
                                                    ELSE Waiting(o)
    BY <1>3, <1>5 DEF Waiting
<1>8. (\E i \in 2..Len(b) : b[i] = o) <=> o \in (next[p] + 2)..upto
  <2>1. ASSUME NEW i \in 2..Len(b), b[i] = o PROVE o \in (next[p] + 2)..upto
    BY <1>2, <1>4, <2>1
  <2>2. ASSUME o \in (next[p] + 2)..upto PROVE \E i \in 2..Len(b) : b[i] = o
    <3>1. o - next[p] \in 2..Len(b) /\ o - next[p] \in 1..Len(b)
      BY <1>2, <1>4, <1>5, <2>2
    <3>2. next[p] + (o - next[p]) = o
      BY <1>4, <1>5
    <3>3. b[o - next[p]] = o
      BY <1>2, <3>1, <3>2
    <3> QED
      BY <3>1, <3>3
  <2> QED
    BY <2>1, <2>2
<1>9. times'[o] = IF o = next[p] + 1 THEN times[o] + 1 ELSE times[o]
    BY <1>2, <1>3 DEF TypeInd, OwnTypes
<1>10. CASE o = next[p] + 1
  <2>1. Owed(o) = 1 /\ Owed(o)' = 0 /\ o \notin (next[p] + 2)..upto
    BY <1>2, <1>4, <1>6, <1>10
  <2>2. Waiting(o)' = Waiting(o)
    BY <1>7, <1>8, <2>1
  <2> QED
    BY <1>3, <1>5, <1>9, <1>10, <2>1, <2>2, HandsOutFirst
<1>11. CASE o \in (next[p] + 2)..upto
  <2>1. Owed(o) = 1 /\ Owed(o)' = 0 /\ o # next[p] + 1
    BY <1>2, <1>4, <1>6, <1>11
  <2>2. Waiting(o)' = Waiting(o) \cup {p}
    BY <1>7, <1>8, <1>11
  <2> QED
    BY <1>3, <1>5, <1>9, <2>1, <2>2, BeginsToWait
<1>12. CASE o \notin (next[p] + 1)..upto
  <2>1. Owed(o)' = Owed(o) /\ o # next[p] + 1 /\ o \notin (next[p] + 2)..upto
    BY <1>2, <1>4, <1>5, <1>6, <1>12
  <2>2. Waiting(o)' = Waiting(o) /\ times'[o] = times[o]
    BY <1>7, <1>8, <1>9, <2>1
  <2>3. Cardinality(Waiting(o)') = Cardinality(Waiting(o)) /\ IsFiniteSet(Waiting(o)')
    BY <1>5, <2>2 DEF OnceInv
  <2> QED
    BY <1>3, <1>5, <2>1, <2>2, <2>3 DEF OnceInv
<1> QED
    BY <1>4, <1>5, <1>10, <1>11, <1>12

\* The next record of the batch is handed out, and no longer waits.
LEMMA ReturnOnce ==
    ASSUME TypeInd, OnceInd, NEW p \in Procs, NEW end \in Fates,
           loop[p] \in {"handle", "dead"}, Return(p, end)
    PROVE  OnceInd'
<1> DEFINE t == Tail(batch[p])
<1>1. /\ t \in Seq(Records) /\ Len(t) = Len(batch[p]) - 1
      /\ Len(batch[p]) \in Nat \ {0}
      /\ \A i \in 1..Len(t) : t[i] = batch[p][i + 1]
      /\ t # <<>> => Head(t) = t[1] /\ Head(t) \in Records
    BY Rest
<1>2. /\ batch'[p] = t
      /\ \A q \in Procs \ {p} : batch'[q] = batch[q]
      /\ IF t = <<>> THEN UNCHANGED times
                     ELSE times' = [times EXCEPT ![Head(t)] = @ + 1]
      /\ UNCHANGED <<owner, assigns, next>>
    BY DEF Return, Poll, TypeInd, OwnTypes, position, kafka
<1>3. \A i, j \in 1..Len(batch[p]) : i < j => batch[p][i] < batch[p][j]
    BY DEF TypeInd, LoopInv
<1>4. \A i \in 1..Len(batch[p]) : batch[p][i] \in Nat
    BY DEF TypeInd, LoopInv
<1> HIDE DEF t
<1> SUFFICES ASSUME NEW o \in Records PROVE OnceInv(o)'
    BY DEF OnceInd
<1>5. OnceInv(o) /\ Owed(o)' = Owed(o) /\ Owed(o) \in 0..1
    BY <1>2 DEF OnceInd, Owed
<1>6. CASE t # <<>> /\ o = Head(t)
  <2>1. Len(batch[p]) >= 2 /\ batch[p][2] = o
    BY <1>1, <1>6
  <2>2. p \in Waiting(o)
    BY <1>1, <2>1 DEF Waiting
  <2>3. \A i \in 2..Len(t) : t[i] # o
    BY <1>1, <1>3, <1>4, <2>1
  <2>4. Waiting(o)' = Waiting(o) \ {p}
    BY <1>2, <2>3 DEF Waiting
  <2>5. times'[o] = times[o] + 1
    BY <1>2, <1>6 DEF TypeInd, OwnTypes
  <2> QED
    BY <1>2, <1>5, <2>2, <2>4, <2>5, HandsOutWaiting
<1>7. CASE ~(t # <<>> /\ o = Head(t))
  <2>1. times'[o] = times[o]
    BY <1>1, <1>2, <1>7 DEF TypeInd, OwnTypes
  <2>2. Waiting(o)' \subseteq Waiting(o)
    <3>1. ASSUME NEW i \in 2..Len(t), t[i] = o
          PROVE  \E j \in 2..Len(batch[p]) : batch[p][j] = o
      BY <1>1, <3>1
    <3> QED
      BY <1>2, <3>1 DEF Waiting
  <2>3. /\ IsFiniteSet(Waiting(o)')
        /\ Cardinality(Waiting(o)') <= Cardinality(Waiting(o))
    BY <1>5, <2>2, FS_Subset DEF OnceInv
  <2>4. Cardinality(Waiting(o)) \in Nat /\ Cardinality(Waiting(o)') \in Nat
    BY <1>5, <2>3, FS_CardinalityType DEF OnceInv
  <2>5. times[o] \in Nat /\ assigns \in Nat
    BY DEF TypeInd, OwnTypes
  <2> QED
    BY <1>2, <1>5, <2>1, <2>3, <2>4, <2>5 DEF OnceInv
<1> QED
    BY <1>6, <1>7

LEMMA NextOnce == TypeInd /\ OnceInd /\ [Next]_<<vars, env>> => OnceInd'
<1> SUFFICES ASSUME TypeInd, OnceInd, [Next]_<<vars, env>> PROVE OnceInd'
    OBVIOUS
<1>1. CASE Produce
    BY <1>1, QuietOnce DEF Produce, work, position, history
<1>2. ASSUME NEW p \in Procs, Life(p) PROVE OnceInd'
  <2>1. CASE Closes(p)
    BY <2>1, GiveUpTypes, QuietOnce DEF Closes, work, position, history
  <2>2. CASE Opens(p)
    BY <2>2, QuietOnce DEF Opens, kafka, position, history
  <2>3. CASE UNCHANGED idle
    BY <2>3, QuietOnce DEF idle, kafka, work, position, history
  <2> QED
    BY <1>2, <2>1, <2>2, <2>3, DiesOnce DEF Life
<1>3. ASSUME NEW p \in Procs, Loop(p) PROVE OnceInd'
  <2>1. CASE ConsumerEnds(p)
    BY <2>1, QuietOnce DEF ConsumerEnds, kafka, position, history
  <2>2. CASE HandleMessage(p)
    <3>1. CASE UNCHANGED <<life, kafka, batch, position, history>>
      BY <3>1, QuietOnce DEF kafka, position, history
    <3> QED
      BY <2>2, <3>1, HandleSteps, ReturnOnce
  <2> QED
    BY <1>3, <2>1, <2>2, PollFetchesOnce, PollFailsOnce DEF Loop
<1>4. ASSUME NEW p \in Procs, Group(p) PROVE OnceInd'
  <2>1. CASE Commit(p)
    BY <2>1, QuietOnce DEF Commit, work, position, history
  <2>2. CASE Revoke(p)
    BY <2>2, GiveUpTypes, QuietOnce DEF Revoke, work, position, history
  <2> QED
    BY <1>4, <2>1, <2>2, AssignOnce DEF Group
<1>5. CASE UNCHANGED vars
    BY <1>5, QuietOnce DEF vars, kafka, work, position, history
<1> QED
    BY <1>1, <1>2, <1>3, <1>4, <1>5 DEF Next

\* How often a record was handed out, what is still to come included, is accounted
\* for by the assignments of the partition.
THEOREM OnceInvariance == Spec => []OnceInd
BY InitOnce, NextOnce, TypeInvariance, PTL DEF Spec

\* A record is handed out again only when the partition has changed hands: never
\* more often than it was assigned, whatever was lost on the way.
THEOREM HandedOutOnce == Spec => []OncePerAssignment
<1>1. TypeInd /\ OnceInd => OncePerAssignment
  <2> SUFFICES ASSUME TypeInd, OnceInd, NEW o \in Records
               PROVE  times[o] <= assigns
    BY DEF OncePerAssignment
  <2>1. OnceInv(o) /\ Owed(o) \in 0..1 /\ times[o] \in Nat /\ assigns \in Nat
    BY DEF OnceInd, Owed, TypeInd, OwnTypes
  <2>2. Cardinality(Waiting(o)) \in Nat
    BY <2>1, FS_CardinalityType DEF OnceInv
  <2> QED
    BY <2>1, <2>2 DEF OnceInv
<1> QED
    BY <1>1, TypeInvariance, OnceInvariance, PTL

=============================================================================
