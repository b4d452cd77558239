# Verification of the Modami chat service

TLA+ specifications of `be-modami-chat-service`, TLC configurations that check
them on small instances, and TLAPS proofs of all their safety properties. Paths
below are relative to the repository.

## 1. The system

A Go service for one-to-one and group chat. Every HTTP request runs as a
goroutine of its own, in one of several identical processes; there is no lock
and no transaction above a single statement. What requests share is outside the
process: ScyllaDB, Redis, Kafka and Centrifugo.

| component | source | state it keeps | operations |
|---|---|---|---|
| conversations | `internal/service/create_conversation.go`, `chat_service.go`, `internal/adapter/repository/conversation_repo.go`, `internal/domain/conversation.go` | tables `conversations` (participants as one JSON column), `direct_conversations`, `user_conversations`, `conversation_participants` | open a direct chat, create a group, add and remove a participant, mark as read |
| messages | `internal/service/send_message.go`, `chat_service.go`, `message_repo.go`, `internal/domain/message.go`, `cache_store.go` | tables `messages` (reactions as one JSON column), `messages_by_id`; column `last_message`; unread counters in Redis | send, edit, delete, react, take a reaction back, mark as read |
| paged lists | `FindByConversation`, `FindByUser`, `internal/domain/cursor.go`, list handlers | none; a cursor travels with the client | list messages, list conversations |
| rate limiter | `internal/adapter/cache/rate_limiter.go` | one Redis counter with a lifetime per user | `AllowMessage` |
| events | `internal/adapter/messaging/producer.go`, `pkg/centrifugo/publisher.go`, `pkg/kafka` | Kafka topics, Centrifugo rooms | publish after every change, best effort |
| presence, typing | `internal/adapter/cache/presence_store.go` | Redis sorted sets | set, clear, clean up every 30 s |
| Kafka consumer | `pkg/kafka/consumer.go`, `kafka_service.go` | what was polled; the group's offsets are Kafka's | poll, retry, dead letters |
| Centrifugo proxy | `internal/adapter/handler/centrifugo_proxy.go` | none; subscriptions are Centrifugo's | may a client subscribe, publish |
| token validation | `internal/adapter/handler/middleware/auth.go` | cache of public keys under a RWMutex | validate, refresh |
| life cycle | `cmd/server` | connections | start, shut down |

What is hard here, and what the properties are for (`PROJECT.json`, "hazards",
has the lines):

* two statements of one request with anybody else's between them: read, change
  and write back a whole column or row, with a check made on yet another copy;
* a failure between two statements, which leaves a claimed key without a row, a
  row without index entries, or a message without its lookup entry, and the
  retry that meets what is left;
* orders nobody forces: stamping against inserting against updating
  `last_message`, pushing against counting, reading against clearing;
* limits tested on stale copies; a window that never closes; keys that move
  while a client pages by them;
* a lock held while another service is asked, and a cache that several requests
  refresh at once while the keys behind it change;
* a process that stops, dies or loses its partition in the middle of a batch, and
  requests that are running when it closes its connections;
* an answer that comes after whoever asked has given up; commands that arrive
  late; a second command that is lost.

What makes each component correct: a pair of users has one chat, and everybody
is given that one; only who was admitted is in a conversation; what was
acknowledged can be found; nothing is announced before it is stored; texts are
their author's and a deleted message has none; limits hold; a reader who follows
the cursors sees everything once; only members hear of messages, and what the
room shows is what is stored; only keys of the issuer open the door; a committed
event was handled; a process that was told to stop does. Where the code keeps less
than that, the properties say how much it keeps, and section 3 what it does not.

## 2. Modules

```
DirectChatRegistry          what opening a direct chat promises
   ^ refinement
Conversations  <- MCConversations      <- ConversationsProofs
Messages       <- MCMessages           <- MessagesProofs
   ^ extended and composed with             ^ extended
   | the proxy, subscriptions, membership   |
Realtime       <- MCRealtime           <- RealtimeProofs
Lists          <- MCLists              <- ListsProofs
RateLimiter    <- MCRateLimiter        <- RateLimiterProofs
Presence       <- MCPresence           <- PresenceProofs
KeyCache       <- MCKeyCache           <- KeyCacheProofs
LifeCycle
   ^ extended and composed with the consumer
Consumer       <- MCConsumer           <- ConsumerProofs
```

The modules on the left are the model, those in the middle the instances TLC
checks (section 3), those on the right what TLAPS proves (section 4).

In `Conversations`, `Messages` and `Realtime` one action is one call to a store or
a broker together with the Go code that runs up to the next one; the variables
`pc`, `call`, `view`, `todo`, `res` are a request's program counter, arguments, in-memory copy, loop variable
and answer. An id made by `idGen.NewID()` is fresh and is named by the request
that made it. `Fault` ends a request before any statement, with its earlier
writes left as they are: an error from the driver, a cancelled context or the end
of the process. A statement that was applied although its caller saw an error is
the action followed by `Fault`; for the last statement of a request the answer
`"error"` is one more choice (`Acks`).

**Conversations.** `LookupDirect`, `FetchDirect`, `ClaimDirectKey`, `InsertRow`,
`IndexUser`, `IndexConv` are the statements of `CreateDirectChat` and
`ConversationRepo.Create`; `Check` is the service's own read and its tests,
`Reread` the repository's second read, and `AddWrite`, `RemoveWrite`,
`CursorWrite` write the whole participants column back from that copy.
`FindDirectChatFails` is the swallowed error: a failed lookup goes on to create.
Abstractions: the key of a pair is the set of its two ids (ids contain no colon);
the participants are a set of entries, told apart by the request that appended
them, so their order is dropped and a cursor goes to some entry of the user where
the code takes the first; names, avatars, times and settings are left out.
`call` keeps the members a `CreateGroup` request named, so that properties can say
who was asked into a conversation: its `Founders`, or whom an addition by its
creator wrote into it (`Joined`).

**DirectChatRegistry.** A register per pair that is written once, and answers that
agree with it. `Conversations!ImplementsRegistry` maps a pair to the conversation
its key points at once that row exists.

**Messages.** `InsertMessage`, `IndexMessage`, `UpdateLastMessage`, `Emit`, `Push`,
`CountUnread` are the calls of `SendMessage`, in order; `UpdateMessage`,
`ReadReactions`, `WriteReactions`, `ClearUnread` those of the others, whose
checks are in `EditMessage` and its siblings: the reads before a check (the
conversation, the message, or both) are one step, and so is `MarkAsRead`'s write
of the cursor, which `Conversations` models. A text is named by the request that wrote it, so a property can say whose
it is. `BestEffortFails` is the calls whose errors are only logged. The outcome of
the rate limiter is a free choice here. The list of participants is kept as the
number of entries of each user, which is what the loop of `SendMessage` is about:
`todo` starts as the list that was read, without the sender, and `CountUnread` takes
one entry at a time, so a user whom two racing additions put into the list twice
is counted twice; the order of the list is dropped. Who is in a conversation does
not change in `Messages` itself: `Realtime` adds that. `OnlyAdminsCanSend` is never set by any operation, so its test is left out; mentions, replies and
forwards ride along unchanged. The two reads of `MessageRepo.FindByID` are one,
because a lookup entry is written after its row and neither is ever deleted.

**Realtime.** Who hears what, over all of `Messages`, its failures included: `Logged` is a
call whose error is only logged (`lost` remembers which), after which the request
goes on and answers as if nothing had happened, `CutOff` a request that ends with
an error. `ChangeMembers` is any write of the participants column by `Conversations`,
seen as one: any list with up to `MaxEntries` entries of each user may be there next.
`SendMessage` counts for the list it read at the start. `HandleSubscribe` and `HandlePublish` are the two proxy
handlers; between `HandleSubscribe`'s answer (`granted`) and the subscription
(`subs`) anything may happen, a removal included, and nothing in the service ever
ends a subscription: a member who is removed goes on hearing the room until the
client leaves (`Unsubscribe`). A publication is a `SendMessage` without media.
`FanOut` is Centrifugo letting the client's own payload into the room, which it
does because `ProxyPublishResult` carries no data (`centrifugo_proxy.go:112`): the
room gets every such message twice, once as the service's `message.new`, once
raw. `ProxyTimeout` is Centrifugo giving up, which cancels `r.Context()`: the request
runs on, and each call to come fails or gets through as calls do (`Logged`, `CutOff`,
or the call itself), but its answer reaches nobody. A client that then publishes
again is another request, and its message another message. `heard`, `most`, `met`
and `lost` are history variables.

**Lists.** One reader pages through the messages of a room (one statement a page)
or through its conversations (one statement for the index, one for each
conversation, then sort and cut), while messages are stamped, inserted and moved
into `updated_at`, and participants change. `Stored` cuts a time off to the
milliseconds a CQL timestamp has, so ties happen. `before` is a history variable:
the ids that were there at the first page and were not written to since.

**RateLimiter.** One user's counter. `Incr` and `Expire` are the two commands of the
pipeline, between which time may pass, the key may die and other calls may run;
`Break` is a connection lost in between.

**Presence.** The sorted set of who is online, with `CleanupStalePresence` at every
tick of `Application.Start`'s ticker, and the typing set of one conversation with
its lifetime. Redis commands are atomic; the time a command carries was read
up to `MaxDelay` earlier. `ExpireTyping` and `ExpireLost` are the second command
of `SetTyping` and its loss, which the code does not notice. No handler calls
`SetOnline` or `SetOffline` yet (`port/cache.go:16`), so online calls come from
whoever will.

**KeyCache.** `Lookup`, `RefreshLock`, `FetchAnswered`/`FetchFails`, `RefreshStore` and
`LookupAgain` are the stretches of `jwksCache.get` and `refresh` between two waits;
`lock` is the writer of the RWMutex. `Rotate` is Keycloak changing what it
publishes; `Merge` only adds, so a withdrawn key goes on opening the door until
the process ends. Without a JWKS address (`dev`) tokens are believed. A token is a
key id, the key it was signed with, and whether the rest of it is in order.

**LifeCycle.** main, `NewConnections`, `Start`, `Shutdown` and `Connections.Close` of several
processes, each started again when it is gone; requests are counted only.
`Signal` is the cancellation and the listener's end, `Deadline` the ten seconds of
`main.go:69` (the configured `shutdown_timeout` is not used), `CloseKafka` the end
of `Shutdown`, which does not wait for the consumer.

**Consumer.** The consumer loop in those processes. `PollFetches` hands out any number of
records beyond the last one; `PollFails` is a fetch with an error in it, whose
other records are lost (fate `"dropped"`, as after a dead letter that could not be
written); `Handled`, `Panics`, `AttemptFails`, `DeadLetter`,
`NoHandler` are the outcomes of `HandleMessage`. A panic is recovered with a nil
error (`consumer.go:146`) and counts as processed; whether a record decodes is a
property of the record, so every attempt fails alike, as every event with a
payload does, since `KafkaEventBase.Payload` is an interface
(`event_base.go:41`). Assignment, commits and rebalances are Kafka's and franz-go's
with its defaults: the records of one poll may be committed once the next begins.
A process that lost its partition goes on with the records in its hands.
The environment (`kafka.env`), which `GetTopicWithEnv` puts before topics, is chosen at the
start: with one no handler is found, without one handlers run, and both occur in
`consumer`. `fate`, `times`, `assigns` are history variables.

Common to all: a Scylla statement is atomic and sees the latest write of its row;
replica lag, clock skew between nodes and the mixing of lightweight with plain
timestamps are not modelled.

## 3. Runs

Deadlock is not checked in any run: every request is answered once, time and faults
are bounded, and the system may then rest.

| run | instance | checks |
|---|---|---|
| `groups` | 3 users, `MaxGroup` 3; 1 request creates, 2 add, remove or read; failures | `MembersAdmitted`, `IndexBehindRow`, `AckListed` |
| `registry` | 2 users; 3 requests open, one of them may remove; failures; fair | `TypeOK`, `DirectChatUnique`, `SameChat`, `IndexBehindRow`, `ImplementsRegistry`, `ClaimCompletes` |
| `messages` | 2 users, 2 emojis, limits of 1; 1 sends, 2 edit, delete, react, take back or read; failures | `TypeOK`, `StoredBeforeAnnounced`, `AckedIsResolvable`, `OnlyAuthorSpeaks`, `DeletedIsCleared`, `ReactionLimits` |
| `rooms` | 2 users, one of them connected and at first a stranger; 1 sends over the proxy or HTTP, 1 edits; 2 writes of the participants, with up to 2 entries of a user; failures and Centrifugo's timeout | `HeardByMembers`, `RawIsStored`, `UnreadBounded` |
| `agreement` | 2 users; 2 send or edit, 1 deletes or reads; failures | `RoomAgrees`, `ReadClears`, `StoredIsDelivered` |
| `lists` | 3 conversations with a message each, 2 messages sent, 1 change of participants, pages of 1 and 2 | `TypeOK`, `NewestFirst`, `NothingMissed` |
| `rate_limiter` | 4 calls, 2 per window of 2 ticks, 5 ticks; broken pipelines | `TypeOK`, `WindowLimit` |
| `keys` | 2 key ids, 2 keys, 2 requests; 1 rotation; failed and empty answers; fair | `TypeOK`, `AcceptedWasIssued`, `LiveKeyAccepted`, `EveryoneAnswered` |
| `consumer` | 2 processes, 2 records, 1 retry, dead letters, with and without an environment; 1 signal, crash or rebalance; fair | `TypeOK`, `CommittedIsMet`, `OncePerAssignment`, `ServedOpen`, `Drains`, `StopEnds` |
| `presence` | 2 users, 3 calls, 8 ticks; stale after 3, ticker every 2, typing lives 2, delay 1 | `TypeOK`, `FreshStays`, `StaleGoes`, `TypingForgotten` |

Why the bounds are enough: every race in this code is between one request that
read a copy and one or two that write meanwhile, so three requests on one
conversation or message reach each of them, the failed first attempt with its
retry and a rival included. The limits are 1 to 3 so that they are reached. Five
ticks hold two and a half windows. Two readings of the clock share a millisecond,
and a list is at least one longer than a page. In `rooms` one connected user who
becomes a member, or stops being one, reaches every order of answer,
subscription, change and message, and two entries of a user (`MaxEntries`) are the
list that two racing additions leave. In `agreement` the participants stay: two
senders race for `last_message`, the sender, an edit and a delete of one message
come one after the other or overlap, and a read comes during or after each of two
sendings. In `keys` one rotation withdraws, adds or replaces a key under requests at
every point of a refresh. In `consumer` two records make a
batch with one record done and one not, and two processes one that gave the
partition up and one that took it over; the stop may strike at each point of
either. That more stops, one during the recovery from another, break no safety
property is left to the proofs. In `presence` eight ticks hold four clean-ups, two
of which may fail in a row for an entry that is stale. Symmetry is used in runs that
check invariants only, over users and over requests or calls of the same kind;
`lists` has none, since ids are ordered, nor has `rooms`, where one user is a
stranger.

Fairness. `registry`: weak fairness of each request's own steps (a goroutine that has
started keeps running and its calls return). `keys`: the same, which here means
that the mutex lets those who wait in at last and that a fetch ends, as
`http.Client.Timeout` sees to; Go's RWMutex does not starve a waiting writer or
reader. `consumer`: main goes on, the deadline comes, the process is started
again and its connections open; the calls of the consumer loop return; Kafka
assigns a free partition and takes the periodic commits. None is assumed of
arrivals, signals, crashes, rebalances, failures, requests that are being served,
or clients: `StopEnds` holds although a request may never end.

What the properties except, because the code does not keep more:

* `ClaimCompletes`: a request that was told of a failure.
* `StoredIsDelivered`: a message whose request was cut off, and of the others the calls
  that failed and were logged: `last_message`, a Scylla write, as well as Kafka and
  the push (`send_message.go:79-91`). It says that such a failure stops none of the
  other calls. Of two messages sent at the same time either may be in `last_message`.
* `RawIsStored`: a push that failed and was logged, after which the payload that follows
  the answer is the first the room hears of the message.
* `RoomAgrees`: writers that overlapped (`met`) or were cut off, and, of what the room
  shows, a push that failed and was logged (`send_message.go:89`,
  `chat_service.go:158,187`).
* `ReadClears`: an `HDEL` that failed and was logged (`chat_service.go:108`), and a
  message that was being sent while the read ran.
* `UnreadBounded`: counts a message once for every entry its user has had in the list.

* `HeardByMembers`: whoever has been a member, even if they are no more.
* `AcceptedWasIssued`: a key that was withdrawn since. `LiveKeyAccepted`: a key id that
  was issued with two different keys.
* `CommittedIsMet`: a record ends when it is dropped with a failed fetch, or with a dead
  letter that could not be written. It forbids any other loss, and
  `OncePerAssignment` bounds redelivery: a handler must expect an event again, and
  nothing in this code removes duplicates.
* `ServedOpen`: requests that run on after the deadline.
* `TypingForgotten`: a lost `EXPIRE`.
* `WindowLimit`: calls whose `EXPIRE` did not run in the tick of their `INCR`. A pipeline
  that is split by the end of the key's life leaves a key without an expiry or starts
  a new window, and such calls are not counted.

### What the code does not keep

Two runs expect a violation: each states a sentence of the repository, and TLC
finds a behaviour of the code that contradicts it.

| run | sentence | behaviour |
|---|---|---|
| `duplicate_means_chat` | "direct conversation already exists" (`errors.go:13`) | the process stops between claiming the key and inserting the row; every later request of the pair is answered so, and there is no conversation |
| `dispatch` | "dispatching each record to registered handlers" (`kafka_service.go:228`) | records carry the topic with the environment in front, `HandleMessage` looks it up among names without (`consumer.go:101`); with the default environment `local` no record is ever handled |

### Disagreements without a run

Met while modelling, by the same mechanisms or at a single line. The models have
these behaviours, and the properties leave room for them:

* a read cursor written from a copy that was read before a removal puts the removed
  user back after the removal was acknowledged (`conversation_repo.go:440`, against
  "Removes a user from a group.", `chat_handler.go:461`);
* two additions pass the test of the group's limit together and both append
  (`conversation_repo.go:454`, against "Max group size is 50.", `chat_handler.go:427`);
* the number of members is tested before repeated ids and the creator's own are
  dropped (`domain/conversation.go:98`), so a group of one can be made, against
  "Requires at least 1 additional member" (`chat_handler.go:226`);
* `RemoveParticipant` never asks the domain, so a direct chat can lose one of its two
  members (`create_conversation.go:86` against `domain/conversation.go:180`);
* an edit that read a message before a delete brings the text back and clears the
  flag after the delete was acknowledged (`message_repo.go:329`), and a delete
  leaves the text in `last_message` (`chat_service.go:175`), against "content is
  cleared" (`chat_handler.go:522`); `RoomAgrees` says that the first takes an overlap;
* a reader who marks the newest message as read before the sender's loop reaches the
  counter keeps an unread message (`send_message.go:98`, against
  `chat_handler.go:362`); `ReadClears` holds without such an overlap;
* a removed member stays in the room until the client leaves
  (`centrifugo_proxy.go:42`, against "Room members", `docs/websocket-centrifugo.md:37`);
* two edits may be stored in one order and pushed in the other; `RoomAgrees` holds
  without such an overlap;
* a push, a Kafka event, a write of `last_message` or a clearing of a counter that fails
  is only logged, and the request is answered ok; nothing makes up for it later
  (`send_message.go:79-91`, `chat_service.go:108-123,154-160,183-192`);
* the loser of two racing `CreateDirectChat` is answered 409 although it "creates or
  returns an existing direct conversation" (`create_conversation.go:23,36`);
* two additions of the same user both succeed (`conversation_repo.go:454`), after which
  each message is counted for them twice (`send_message.go:94`); two
  members' read cursors overwrite each other (`conversation_repo.go:440`), two
  reactions too (`message_repo.go:386`);
* a create that failed after its row was stored is found by the retry, but its
  missing index entry is never written (`conversation_repo.go:153`);
* a lookup entry that was not written leaves a message no id resolves
  (`message_repo.go:125`);
* of two senders the one that stamped first may write `last_message` last
  (`send_message.go:79`);
* an edit may make a text message empty (`chat_service.go:143`), and a media object
  without an URL is read back as none (`message_repo.go:445`);
* every call renews the rate limiter's window (`rate_limiter.go:32`), so a user who
  writes steadily is denied below the rate.

## 4. Proofs

Every safety property that a passing run checks is also proved with TLAPS, for every value
of the constants: any number of users, conversations, requests, processes,
records and ticks, any limits, with and without failures, those that are only
logged among them. One `*Proofs` module
belongs to each component (that of `Consumer` also covers the life cycle it
extends).

Each proof goes the same way. Hardly any of the properties is inductive: whether
it can be broken depends on what the requests still running carry in memory. So an
inductive invariant says, per request, what its program counter tells about its
call, its copy and its earlier writes; there is a lemma for each action, or for
each kind of step, and the theorem `Invariance` joins them; the properties follow
with PTL. Every inductive invariant was checked with TLC on the instance of the
component's run before it was proved.

| module | theorem | states |
|---|---|---|
| `ConversationsProofs` | `TypeCorrect`, `DirectChatsUnique`, `OneChatPerPair`, `OnlyAdmitted` | `[]TypeOK`, `[]DirectChatUnique`, `[]SameChat`, `[]MembersAdmitted` |
| | `EntriesBehindRows`, `AcknowledgedIsListed` | `[]IndexBehindRow`, `[]AckListed` |
| | `RegistryImplemented` | `Spec => ImplementsRegistry` |
| `MessagesProofs` | `TypeCorrect`, `PersistBeforeBroadcast`, `AcknowledgedResolves` | `[]TypeOK`, `[]StoredBeforeAnnounced`, `[]AckedIsResolvable` |
| | `AuthorsAlone`, `NeverHalfDeleted`, `ReactionsLimited` | `[]OnlyAuthorSpeaks`, `[]DeletedIsCleared`, `[]ReactionLimits` |
| `RealtimeProofs` | `MembersHear`, `PayloadAfterStore`, `CountedOnce` | `[]HeardByMembers`, `[]RawIsStored`, `[]UnreadBounded` |
| | `StoredThenDelivered`, `ReadLeavesNothing`, `RoomShowsStored` | `[]StoredIsDelivered`, `[]ReadClears`, `[]RoomAgrees` |
| `ListsProofs` | `TypeCorrect`, `NewestComesFirst`, `ReaderGetsAll` | `[]TypeOK`, `[]NewestFirst`, `[]NothingMissed` |
| `RateLimiterProofs` | `TypeCorrect`, `AtMostMax` | `[]TypeOK`, `[]WindowLimit` |
| `PresenceProofs` | `TypeCorrect`, `TypingEnds`, `FreshListed`, `StaleRemoved` | `[]TypeOK`, `[]TypingForgotten`, `[]FreshStays`, `[]StaleGoes` |
| `KeyCacheProofs` | `TypeCorrect`, `OnlyIssuedKeys`, `RefreshHelps` | `[]TypeOK`, `[]AcceptedWasIssued`, `[]LiveKeyAccepted` |
| `ConsumerProofs` | `TypeCorrect`, `GracefulShutdown`, `NothingSkipped` | `[]TypeOK`, `[]ServedOpen`, `[]CommittedIsMet` |
| | `HandedOutOnce` | `[]OncePerAssignment` |

**Conversations.** `Ind`: a request about to insert a direct chat holds the claim of
its pair, and the copy it will write back has only entries that were admitted to
that conversation (`CallInv`, `FlowInv`); a stored row is of the kind its maker
asked for (`RowInv`); a claimed key names the request that claimed it, whose call
is of that pair (`ClaimInv`). A second row would need a second claim, which
`ClaimApplies` refuses.
`IndexInd` rests on `Ind` and follows the writers of index entries: a founder of a
conversation is still to be listed by its maker, listed in both indexes, removed,
or the maker was cut off, and this is said of every copy of the participants
column, however old, since any of them may be written back (`IndexInv`).
The refinement maps the register of a pair to the conversation its key points at
once that row exists. `NextRefines` shows that an insert is `Publish` of the
register, the last step of a request its `Answer`, and every other step a stutter.

**Messages.** `Ind` says of *every* copy of a message, stored or in the memory of a
request and however old, that it is a `GoodCopy`: its sender's, not half deleted,
with limited reactions. That is what makes it safe that `Update` writes back every
column of an old copy. `RowInv`, `KnownStored`, `CallInv` and `FlowInv` add what was
written before what. None of these lemmas asks that the participants stay.

**Realtime.** `RoomInd` takes `Ind` over, while people come and go, and adds who may be
in a room (`RoomsInv`), how a request came (`ViaInv`), how far a send has got, each call
behind it being made or in `lost` (`SentInv`), and that a counter is at most the
number of pairs of a message and an entry that can have been counted (`UnreadInv`):
of a send's own message those entries that are not in its `todo` any more.
`OrderInd` is about time: requests that run together know of each other, and a read
that never met a sending found it finished or was finished before it was stamped
(`OverlapInv`); no copy moves a message in time (`StampInv`); so a read with nothing
newer behind it leaves its counter at zero, or has logged that it could not
(`ReadInv`), and `last_message` is not behind a message that was offered to it
(`LastInv`).
`AgreeInd` is about the writers of one message that come one after the other:
whoever has stored and not yet pushed finds in the table what is in its hands
(`WriterInv`), and while nobody is between the table and the room the room shows
the table, unless a push is in `lost` (`ShownInv`). Proved from it, `RoomAgrees` needs neither that the writers be
three nor that the membership rest.

**Lists.** `IsPage` is what the two ways of cutting a page have in common, proved of
sort-and-cut (`CutPage`) and of a limit of one more (`ReadPage`). `Ind`: what is owed
to the reader is on a page or beyond the cursor (`Kept`), and while conversations
are fetched one by one it is fetched or still to be (`BeforeInv`); everything given
is at or before the cursor (`CursorInv`).

**RateLimiter.** A count of calls in a window cannot be carried along by induction,
so `Ind` says it of pairs: two prompt calls less than a window apart hold different
tickets (`Apart`), because the key they counted on outlives the first of them
(`KeyInv`). Allowed calls hold tickets from `1..Max`, so a window has at most `Max`.

**Presence.** The age of what is listed is bounded through the clean-ups: `Horizon` is
the cutoff of the last one that was done, computed from the ticker, the clean-up on
its way and the misses since (`StaleInv`); what a late command writes is at most
`MaxDelay` older than the newest (`FreshInv`).

**KeyCache.** `Ind`: every key that is published, cached or about to be stored was
published once (`AllKnown`), and a request has no answer before it is done
(`AnsweredLast`). `LiveInd`: the lock is held from before the fetch until the answer
is stored, so no refresh that runs between a request's own and its second look can
bring an older answer and replace a key that stayed published (`LiveInv`).

**Consumer.** `TypeInd` ties a process's phase, connections, requests and batch
together. `MetInd`: what the client was given has a fate or is in the batch, and what
may be committed has a fate. `OnceInd`: each assignment of the partition is one
permission to hand a record out, which is spent (`times`), waiting in a batch
(`Waiting`), or still the owner's (`Owed`); the sum never exceeds `assigns`.

Assumptions. The proofs use the named `ASSUME`s of the modules and nothing else,
and TLC evaluates them in every run: the kinds of calls that a request may make, the
types of the numbers, limits and periods above zero where the code's constants are,
member lists made of users, and values for "none" (`None`, `NoRow`, `NoProc`, `Never`,
`Hidden`, `Unseen`, ...) that are none of the values they stand beside. Three
carry more: `Earlier` in `Lists` gives every conversation an old message whose id is no
new one; `Msgs` and `Convs` there are finite sets of numbers, since ids are ordered; and
in `Presence` a command takes less time to arrive than the clean-up's period and the
cutoff (30 s and 5 minutes in the code, against the timeouts of a Redis client).

Only model-checked are the liveness properties `ClaimCompletes`, `EveryoneAnswered`,
`Drains` and `StopEnds`: fairness and ENABLED are out of the prover's reach. The
violations of section 3 need a counterexample and no proof.

## 5. Not modelled

Of the HTTP layer only arguments and answers are modelled: status codes, bodies,
CORS, the size limit and routing are not, nor roles and permissions, which no
route asks for. `ConversationRepo.Update`, `Conversation.RemoveParticipant`,
`Conversation.UpdateLastMessage`, `KafkaService.EmitAsync`, `SendMessages`,
`EnsureTopics` and `Ping`, `Client.Broadcast` and `Ping`, `PublishToUser` and the
stand-alone consumer of `consumer.go:17` are never called. The one handler of
inbound events only logs, so what it does is not modelled. Configuration,
event envelopes, trace propagation, the schema statements and the generated API
documentation have no state of their own. The signatures of tokens and the
parsing of keys are libraries'.

## 6. Plan

1. An abstract specification of the consumer (each record handled at least once,
   in order within an assignment) and the refinement that shows it, checked and
   then proved from `MetInd` and `OnceInd`.
2. `Conversations` composed with `Realtime` in place of `ChangeMembers`, so that the
   read cursor's write brings a removed member back into the room.
