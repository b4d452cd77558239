------------------------------ MODULE Consumer ------------------------------
(***************************************************************************)
(* The inbound events: KafkaService.StartConsumer, which polls and hands   *)
(* each record to Consumer.HandleMessage with its retries, its recovered   *)
(* panics and its dead letters, in every process of LifeCycle.             *)
(*                                                                         *)
(* The topic has one partition, whose records are numbered from 1.  The    *)
(* consumer group and its offsets are Kafka's and the client's (franz-go). *)
(* With the client's defaults a record becomes committable when the poll   *)
(* after the one that returned it begins; what is committable is committed *)
(* every few seconds and when the partition is given up.  Only the owner   *)
(* of the partition can commit.                                            *)
(***************************************************************************)
EXTENDS LifeCycle, Sequences

CONSTANTS
    Envs,           \* the environments it may be configured for, "" for none
    RetryCount,     \* ConsumerOptions.RetryCount (3 by default)
    DeadLetters,    \* is a dead letter topic configured?  (not by default)
    MaxLog,         \* how many records are produced
    NoProc          \* nobody owns the partition

ASSUME RetryAssumption == RetryCount \in Nat
ASSUME DeadLettersAssumption == DeadLetters \in BOOLEAN
ASSUME MaxLogAssumption == MaxLog \in Nat
ASSUME NoProcAssumption == NoProc \notin Procs

VARIABLES
    env,            \* KafkaService.env, which prefixes topic names
    log,            \* the records: does the payload decode?
    committed,      \* how many of them the group has committed
    owner,          \* who is assigned the partition
    loop,           \* where each consumer loop is
    batch,          \* the records of its last poll that are not handled yet
    attempt,        \* HandleMessage's loop variable
    next,           \* how many records the client has been given
    head,           \* how many of them may be committed
    \* History variables, which no action reads:
    fate,           \* how the handling of each record has ended, so far
    times,          \* how often a record was handed to HandleMessage
    assigns         \* how often the partition was assigned

kafka == <<log, committed, owner, assigns>>
work == <<loop, batch, attempt>>
position == <<next, head>>
history == <<fate, times>>
vars == <<life, kafka, work, position, history>>

Loops == {"off", "poll", "handle", "dead", "ended"}
Fates == {"ok", "dead", "dropped", "unhandled"}

Records == 1..MaxLog

-----------------------------------------------------------------------------
(* Topics *)

\* A topic name is the sequence of its parts.
GetTopicWithEnv(e, topic) == IF e = "" THEN topic ELSE <<e>> \o topic

TopicMessagesInbound == <<"chat.messages.inbound">>

\* Consumer.handlers, keyed by the name RegisterHandler was given.
handlers == {TopicMessagesInbound}

\* The topics StartConsumer subscribes to, and so those of the records it gets.
topics == {GetTopicWithEnv(env, t) : t \in handlers}

\* Is there a handler for the inbound records in HandleMessage?
Registered == topics \subseteq handlers

-----------------------------------------------------------------------------
Init ==
    /\ LifeInit
    /\ env \in Envs
    /\ log = <<>>
    /\ committed = 0
    /\ owner = NoProc
    /\ loop = [p \in Procs |-> "off"]
    /\ batch = [p \in Procs |-> <<>>]
    /\ attempt = [p \in Procs |-> 0]
    /\ next = [p \in Procs |-> 0]
    /\ head = [p \in Procs |-> 0]
    /\ fate = [o \in Records |-> {}]
    /\ times = [o \in Records |-> 0]
    /\ assigns = 0

Produce ==
    /\ Len(log) < MaxLog
    /\ \E decodes \in BOOLEAN : log' = Append(log, decodes)
    /\ UNCHANGED <<life, committed, owner, assigns, work, position, history>>

-----------------------------------------------------------------------------
(* The client library *)

\* The members of the group: their clients are open and have subscribed.
InGroup(p) == "kafka" \in conns[p] /\ loop[p] # "off"

Assign(p) ==
    /\ owner = NoProc
    /\ InGroup(p)
    /\ owner' = p
    /\ assigns' = assigns + 1
    /\ next' = [next EXCEPT ![p] = committed]
    /\ head' = [head EXCEPT ![p] = committed]
    /\ UNCHANGED <<life, log, committed, work, history>>

Commit(p) ==
    /\ owner = p
    /\ committed < head[p]
    /\ committed' = head[p]
    /\ UNCHANGED <<life, log, owner, assigns, work, position, history>>

\* The partition is given up: what may be committed is, unless that fails.
GiveUp(p) ==
    IF owner = p
      THEN /\ owner' = NoProc
           /\ committed' \in {committed, head[p]}
      ELSE UNCHANGED <<owner, committed>>

\* A rebalance; the loop goes on with the records it has.
Revoke(p) ==
    /\ owner = p
    /\ Spend
    /\ GiveUp(p)
    /\ UNCHANGED <<phase, conns, inflight, late, log, assigns, work, position,
                   history>>

-----------------------------------------------------------------------------
(* StartConsumer *)

Poll_OffByOne(p) ==                  \* mutant: the offset after the next one
    /\ loop' = [loop EXCEPT ![p] = "poll"]
    /\ head' = [head EXCEPT ![p] = next[p] + 1]
    /\ UNCHANGED next

\* The next poll begins.
Poll(p) ==
    /\ loop' = [loop EXCEPT ![p] = "poll"]
    /\ head' = [head EXCEPT ![p] = next[p]]
    /\ UNCHANGED next

Fetchable(p) ==
    IF loop[p] = "poll" /\ owner = p /\ "kafka" \in conns[p]
      THEN (next[p] + 1)..Len(log) ELSE {}

PollFetches_Again(p) ==              \* mutant: one record is given twice
    /\ \E upto \in Fetchable(p) :
          /\ batch' = [batch EXCEPT ![p] = [i \in 1..(upto - next[p]) |-> next[p] + i]]
          /\ next' = [next EXCEPT ![p] = upto - 1]
    /\ loop' = [loop EXCEPT ![p] = "handle"]
    /\ times' = [times EXCEPT ![batch'[p][1]] = @ + 1]
    /\ UNCHANGED <<life, kafka, attempt, head, fate>>

PollFetches_Greedy(p) ==             \* mutant: committed as soon as it is polled
    /\ \E upto \in Fetchable(p) :
          /\ batch' = [batch EXCEPT ![p] = [i \in 1..(upto - next[p]) |-> next[p] + i]]
          /\ next' = [next EXCEPT ![p] = upto]
          /\ head' = [head EXCEPT ![p] = upto]
    /\ loop' = [loop EXCEPT ![p] = "handle"]
    /\ times' = [times EXCEPT ![batch'[p][1]] = @ + 1]
    /\ UNCHANGED <<life, kafka, attempt, fate>>

\* PollFetches returns records.  It does so after the context was cancelled, too,
\* when the client has some.
PollFetches(p) ==
    /\ \E upto \in Fetchable(p) :
          /\ batch' = [batch EXCEPT ![p] = [i \in 1..(upto - next[p]) |-> next[p] + i]]
          /\ next' = [next EXCEPT ![p] = upto]
    /\ loop' = [loop EXCEPT ![p] = "handle"]
    /\ times' = [times EXCEPT ![batch'[p][1]] = @ + 1]
    /\ UNCHANGED <<life, kafka, attempt, head, fate>>

\* fetches.Err() tells of an error although the fetches hold records, too (of
\* another partition, say): the loop sleeps and polls again without them.
PollFails(p) ==
    /\ phase[p] = "serving"
    /\ \E upto \in Fetchable(p) :
          /\ next' = [next EXCEPT ![p] = upto]
          /\ head' = [head EXCEPT ![p] = upto]
          /\ fate' = [o \in Records |-> IF o \in (next[p] + 1)..upto
                                          THEN fate[o] \cup {"dropped"} ELSE fate[o]]
    /\ UNCHANGED <<life, kafka, work, times>>

\* The context is cancelled and the client has nothing, or is closed.
ConsumerEnds(p) ==
    /\ loop[p] = "poll"
    /\ phase[p] \in {"stopping", "closing"}
    /\ loop' = [loop EXCEPT ![p] = "ended"]
    /\ UNCHANGED <<life, kafka, batch, attempt, position, history>>

-----------------------------------------------------------------------------
(* HandleMessage *)

\* It returns: the error is logged, and the loop goes on with the next record.
Return(p, end) ==
    /\ fate' = [fate EXCEPT ![Head(batch[p])] = @ \cup {end}]
    /\ batch' = [batch EXCEPT ![p] = Tail(@)]
    /\ attempt' = [attempt EXCEPT ![p] = 0]
    /\ IF Tail(batch[p]) = <<>>
         THEN Poll(p) /\ UNCHANGED times
         ELSE /\ loop' = [loop EXCEPT ![p] = "handle"]
              /\ times' = [times EXCEPT ![Head(Tail(batch[p]))] = @ + 1]
              /\ UNCHANGED position
    /\ UNCHANGED <<life, kafka>>

NoHandler(p) ==
    /\ loop[p] = "handle"
    /\ ~Registered
    /\ Return(p, "unhandled")

Processing(p) == loop[p] = "handle" /\ Registered

Decodes(p) == log[Head(batch[p])]

Handled(p) == Processing(p) /\ Decodes(p) /\ Return(p, "ok")

\* The deferred recover makes processMessage return nil.
Panics(p) == Processing(p) /\ Decodes(p) /\ Return(p, "ok")

AttemptFails_Forever(p) ==           \* mutant: a record is tried until it succeeds
    /\ Processing(p)
    /\ attempt' = [attempt EXCEPT ![p] = IF @ < RetryCount THEN @ + 1 ELSE 0]
    /\ UNCHANGED <<life, kafka, loop, batch, position, history>>

\* The payload does not decode, or the handler returns an error: another attempt
\* after a pause, or none any more.
AttemptFails(p) ==
    /\ Processing(p)
    /\ IF attempt[p] < RetryCount
         THEN /\ attempt' = [attempt EXCEPT ![p] = @ + 1]
              /\ UNCHANGED <<life, kafka, loop, batch, position, history>>
         ELSE IF DeadLetters
           THEN /\ loop' = [loop EXCEPT ![p] = "dead"]
                /\ UNCHANGED <<life, kafka, batch, attempt, position, history>>
           ELSE Return(p, "dropped")

\* sendToDeadLetterTopic, whose error is only logged.
DeadLetter(p) ==
    /\ loop[p] = "dead"
    /\ \/ "kafka" \in conns[p] /\ Return(p, "dead")
       \/ Return(p, "dropped")

HandleMessage(p) ==
    NoHandler(p) \/ Handled(p) \/ Panics(p) \/ AttemptFails(p) \/ DeadLetter(p)

-----------------------------------------------------------------------------
(* The process around the loop *)

idle == <<kafka, work, position, history>>

\* The consumer goroutine starts, and subscribes, with the process.
Opens(p) ==
    /\ Start(p)
    /\ loop' = [loop EXCEPT ![p] = "poll"]
    /\ UNCHANGED <<kafka, batch, attempt, position, history>>

\* The client leaves the group when it is closed.
Closes(p) ==
    /\ CloseKafka(p)
    /\ GiveUp(p)
    /\ UNCHANGED <<log, assigns, work, position, history>>

\* A process that is gone has forgotten what it had polled; Kafka misses it soon.
Dies(p) ==
    /\ Crash(p) \/ Exit(p)
    /\ loop' = [loop EXCEPT ![p] = "off"]
    /\ batch' = [batch EXCEPT ![p] = <<>>]
    /\ attempt' = [attempt EXCEPT ![p] = 0]
    /\ next' = [next EXCEPT ![p] = 0]
    /\ head' = [head EXCEPT ![p] = 0]
    /\ owner' = IF owner = p THEN NoProc ELSE owner
    /\ UNCHANGED <<log, committed, assigns, history>>

Life(p) ==
    \/ (Signal(p) \/ Deadline(p)) /\ UNCHANGED idle
    \/ (Accept(p) \/ Respond(p)) /\ UNCHANGED idle
    \/ Opens(p)
    \/ Closes(p)
    \/ Dies(p)

Loop(p) == PollFetches(p) \/ PollFails(p) \/ ConsumerEnds(p) \/ HandleMessage(p)

Group(p) == Assign(p) \/ Commit(p) \/ Revoke(p)

Next ==
    /\ Produce \/ \E p \in Procs : Life(p) \/ Loop(p) \/ Group(p)
    /\ UNCHANGED env

Spec == Init /\ [][Next]_<<vars, env>>

\* What main does without being asked.
Main(p) ==
    \/ Opens(p)
    \/ Deadline(p) /\ UNCHANGED idle
    \/ Closes(p)
    \/ phase[p] = "closing" /\ Dies(p)

\* Whoever runs the service starts it again and its connections come up; the
\* deadline comes; main goes on; the loop's calls return; Kafka assigns the
\* partition and takes the periodic commits.  Nothing is assumed of requests,
\* signals or crashes.
FairSpec ==
    /\ Spec
    /\ \A p \in Procs :
          /\ WF_vars(Main(p))
          /\ WF_vars(PollFetches(p) \/ HandleMessage(p))
          /\ WF_vars(Commit(p))
    /\ WF_vars(\E p \in Procs : Assign(p))

-----------------------------------------------------------------------------
(* Properties *)

\* Every variable stays in its domain, and nothing is committed that was not
\* produced.
TypeOK ==
    /\ LifeTypeOK
    /\ env \in Envs
    /\ log \in Seq(BOOLEAN) /\ Len(log) <= MaxLog
    /\ committed \in 0..Len(log)
    /\ owner \in Procs \cup {NoProc}
    /\ loop \in [Procs -> Loops]
    /\ \A p \in Procs : batch[p] \in Seq(Records)
    /\ attempt \in [Procs -> 0..RetryCount]
    /\ \A p \in Procs : head[p] <= next[p] /\ next[p] <= Len(log)
    /\ fate \in [Records -> SUBSET Fates]
    /\ times \in [Records -> Nat]
    /\ assigns \in Nat

\* Whatever crashes, is closed or is rebalanced in the middle of a batch, the
\* group never commits a record whose handling has not ended in some process,
\* unless it came in a fetch that also reported an error.
CommittedIsMet == \A o \in 1..committed : fate[o] # {}

\* Records are handed out twice only when the partition changes hands: never more
\* often than it was assigned.
OncePerAssignment == \A o \in Records : times[o] <= assigns

\* The committed offset at last catches up with the log: neither an event that
\* always fails, nor a consumer that stops with records in its hands, holds up
\* the ones after it.
Drains == <>[](committed = Len(log))

-----------------------------------------------------------------------------
(* A statement of the documentation that the code does not keep *)

\* "dispatching each record to registered handlers": no record ends for want of a
\* handler.
Dispatched == \A o \in Records : "unhandled" \notin fate[o]

=============================================================================
