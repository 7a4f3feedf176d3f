# Verification of omniqueue

omniqueue is a queue abstraction for Rust: a `Producer` sends payloads, a
`Consumer` receives `Delivery` values and acks or nacks them, and a backend does
the work. For SQS, RabbitMQ, Google Pub/Sub and Azure the queue itself is a
remote service and the backend a thin client. For Redis omniqueue **is** the
queue: deadlines, retries, dead letters, scheduled messages and the locks
between processes are its own code, spread over clients that share nothing but
a Redis server. That part carries the risk, and this project starts there.

Modules are TLA+; TLC checks them on small instances (`PROJECT.json` lists the
runs), TLAPS proves every safety property of the passing runs, and that the
backends implement the abstract queue, for all instances.

    cd tla
    tlc -workers 2 -config streams.cfg MCRedisStreams
    tlapm RedisStreamsProofs.tla

## Inventory

Paths are below `src/omniqueue/src/`.

| component | state | operations | hard behaviour |
|---|---|---|---|
| Redis streams queue, `backends/redis/streams.rs` | the stream and its consumer group on the server; `Delivery` values; the batch of the background task | `send_raw`, `receive`, `receive_all`, `ack`, `nack`, `background_task_pending` (`reenqueue_timed_out_messages`, `send_to_dlq`) | several processes re-queue the same entries; pipelines are not transactions; late acks; failure between two commands |
| Redis list queue, `backends/redis/fallback.rs` | main and processing list; `Delivery` values; the batch of the background task | the same | the same, on lists; deadlines derived from ksuids |
| Redis delayed queue, `backends/redis/mod.rs` | sorted set, lock key | `send_raw_scheduled`, `background_task_delayed` | lock with a time to live, whole seconds, crashes between add and remove |
| Redis dead letter queue, `backends/redis/mod.rs` | a list | `send_to_dlq`, `redrive_dlq` | concurrent redrives, removal by value |
| Redis payload codec, `backends/redis/mod.rs` | none | `internal_from_list`, `internal_to_list_payload` | separators inside payloads, a format that must read older keys |
| Redis builders, cluster, sentinel | configuration; the background tasks, shared by the halves of a build | `build_pair`, `build_producer`, `build_consumer`, dropping a half | settings lost on the way, tasks that end too early or for good |
| `Delivery`, ackers, `queue/mod.rs`, `queue/acker.rs` | "already acked or nacked" | `ack`, `nack`, `set_ack_deadline` | retry after a failure |
| dynamic producers and consumers, `queue/`, `scheduled/` | none | delegation, clamping of `max_messages`, sequential batches | partial batches |
| in-memory, `backends/in_memory.rs` | an mpsc channel, sleeping tasks | send, scheduled send, receive, nack | a dropped `Delivery` is lost |
| SQS, `backends/sqs.rs` | in the service | batches in chunks of ten | partial failure |
| RabbitMQ, `backends/rabbitmq.rs` | in the broker | `receive_all`, acker | retry of a failed ack, half-finished `receive_all` |
| Pub/Sub, `backends/gcp_pubsub.rs`; Azure, `backends/azure_queue_storage.rs` | in the service | send, receive, ack | a timeout drops an answer; receipts outlive leases |

How they interact. `start_background_tasks` (mod.rs:518) spawns, in every process
that has a Redis producer or consumer, one delayed scheduler and one re-queueing
task. The scheduler and `redrive_dlq` feed the main queue through
`add_to_main_queue`; `nack` and the re-queueing task feed the dead letter list
through `send_to_dlq`; consumers and tasks meet only in Redis. Nothing is shared
in memory, and no Redis transaction is used: every command can be followed by a
command of another client or by a failure.

What makes each of them correct:

* main queue (both forms): no message whose send returned Ok is lost; no copy of
  a message is handed out beyond `max_receives`, and none is dead-lettered
  before it was handed out that often; duplicates only after a missed deadline
  or a send in doubt; every message is acked or dead-lettered in the end.
* delayed queue: nothing early, nothing lost, nothing twice as long as the lock
  is honoured, everything eventually.
* dead letter queue: a redrive loses nothing, moves things once, and ends.
* clients of one Redis queue: payloads and counts survive the text format, all
  clients use the same form of the queue, background tasks live as long as a
  client does, and what is sent stays where somebody gets at it.
* the other backends: what the service took is not lost, Ok means sent, a
  refused batch leaves nothing behind, delays and prolonged leases are kept, and
  a `Delivery` returned by a failed call can be retried, up to exceptions named
  below.
* all of them: at-least-once delivery, stated once in `AtLeastOnceQueue`.

## Modules

Every module takes its sizes as CONSTANTS with a named ASSUME. In the Redis
modules a step is one Redis command, together with the local code up to the next one; a
loop body without a command joins the step next to it where no other client can
see the difference. Variables marked *history* are read by no action, only by
properties. An operator just above another with the same parameters
(`XackBatchBeforeXadd` above `XackBatch`) is a faulty variant of it: the mutants
of `PROJECT.json` put it in its place and expect TLC to notice.

### AtLeastOnceQueue

What every backend promises, in the caller's terms: messages `promised` (a send
returned Ok), `held`, `acked` and `dead` (given up), and how often each was
received. `Send`, `HandOut`, `Ack`, `GiveUp`, `Forget` and `Requeue` say how these
may change. `RedisStreams`, `RedisFallback` and `Brokers` each have an INSTANCE of it,
`Abstract`, with a refinement mapping; the runs check, and the proofs show,
`Implements == Abstract!Spec`: every step of every client is a step of the abstract queue or
changes nothing a caller can tell. Held is, for streams, the payloads of entries
that can still be read or claimed; for lists, of the keys on either list; for
the services, what is delayed, ready or leased. `Requeue` is there because of
tasks that put back what was acked meanwhile: without it none of the Redis
forms would implement the specification.

### RedisStreams

State: the stream as a set of entries `[id, payload, num_receives]` with growing
ids, the group's `lastDelivered` id, the pending list `pel`, and `stale`, the
pending ids whose idle time has reached `ack_deadline_ms` (all that the code asks
of time); `dlq`; the `deliveries` consumers hold, each with the point its ack or
nack has reached; and for each background task its `pc`, the claimed `batch`,
the `todo` part of it and the pipeline `pipe` of XADDs.

| action | code |
|---|---|
| `Send`, `SendReplyLost` | `send_raw`; the latter returns an error after the XADD ran |
| `Receive(n)` | `receive`, `receive_all`: XREADGROUP; one undecodable entry fails the call |
| `Ack`, `AckXdel`, `AckReplyLost` | the two commands of `ack` |
| `Nack`; `NackExhausted`, `NackRpush`, `NackXack`, then `AckXdel` | `nack` below and at `max_receives` |
| `CallFails`, `Drop` | the `Delivery` is handed back for a retry, or is gone |
| `Autoclaim`, `Enpipe`, `FindExhausted`, `WorkerRpush`, `AbortBatch`, `XaddCopy`, `XackBatch`, `XdelBatch` | `reenqueue_timed_out_messages`, in order |
| `WorkerFails` | an error ends the call; the loop of `background_task_pending` starts another |
| `Deadline` | time |
| `ForeignAdd` | other software writes an entry without the payload field |

A message is known by its payload: payloads are sent once, apart from the retry
of a send in doubt.

### RedisFallback

The same on two lists, kept as sequences from head to tail because their order
decides: BRPOPLPUSH takes the end of the main list, the task looks at the end of
the processing list first. A key's ksuid is a number; `aged` is the set of ksuids
that sort before `now - ack_deadline`. Ksuids made in the same second sort at
random (`delayed_key_id` makes a `Ksuid` of whole seconds, `validity_limit` is a
`KsuidMs`), so keys may age in any order. `Deadline` is the event a reader of the
documentation would call a timeout, the deadline counted from the receive; no
code reads it. The dead letter list is the set of payloads on it.

### RedisDelayed

A shared clock in ticks, `TicksPerSecond` to the second; the sorted set; the lock
as the time left of its key; for each task its `pc` and what it has read. `lease`
and `overrun` are history: what is left of the time to live each task was given,
and whether a task was ever in its critical section longer. `MaxLag` is how long a
producer may take between computing a score and its ZADD.

### RedisRedrive

The dead letter list as a sequence in which equal payloads are not told apart,
since LREM does not; calls of `redrive_dlq` by several producers, command by
command; dead letters that keep arriving. The main queue is a count per payload.
LRANGE 0 BATCH_SIZE is inclusive, so a batch has BATCH_SIZE + 1 elements: the
constant is the length of a batch.

### ListPayload and RedisClients

`ListPayload` is the text format of keys in the delayed set and on the lists:
values are sequences of bytes, of which the separators, digits and others are
told apart. `InternalFromList` returns ok, an error or, as the Rust slice does, a
panic. The base of the digits is a constant, so that counts of two digits come
within reach (10 in the code, 2 in the run).

`RedisClients` is the Redis backend as processes see it that share a queue: which
form (`usesStreams`) each has been built with, which halves of a build are left,
which background tasks run, and what keys one client writes and another reads.
As in the other Redis modules a task reads, writes and removes in commands of their
own: another process may re-queue or move the same message between them, each may
fail, and dropping the last half stops the task wherever it is. It works on one
message at a time; batches, dead letters and the lock of the delayed set are left to
the modules about them. The history variable `torn` has the messages of which a task
has made a second copy: it failed or was stopped before it removed what it had
read, or another task was at the same message.

| definition | code |
|---|---|
| `Build`, `UseRedisStreams`, `StartBackgroundTasks` | the static and dynamic `build_*` methods and `start_background_tasks` |
| `Drop` | the `Arc<JoinSet>` shared by the halves |
| `SendRaw`, `SendRawScheduled`, `AddToMainQueue` | the producer and the choice between streams and lists |
| `Receive` (`ReceiveEntry`, `ReceiveKey`), `Ack` | the consumer |
| `Claim` (`ClaimEntry`, `ClaimKey`), `PutBack`, `RemoveRead` | the re-queueing task: XAUTOCLAIM or LRANGE; XADD or RPUSH; XACK and XDEL or LREM |
| `Schedule` (`FetchDue`, `AddDue`, `RemoveDue`) | the scheduler: ZRANGEBYSCORE; `add_to_main_queue`; ZREM |
| `FetchDuePanics`, `Dies` | a key that cannot be read ends the task |
| `WrongType`, `BreakOff`, `LetGo` | a command of a task fails, because of the other form of the queue or for any reason; what it has written stays |

Keys of an older version, without a count, may be in the delayed set or on the
list from the beginning.

### Brokers

The other five backends in one module: what they share is said once, and
`backend`, chosen in `Init`, selects where they differ; `dyn` says whether the
producer is type-erased. The service behind a backend is external: a message is
kept back (`waiting`), or `ready`, or out under a numbered lease, or deleted; a
delete under a lease that has ended works only while nobody has received the
message again. In memory there is no service, and the lease is the copy of the
payload in the `Delivery`. Time is counted down in ticks, `TicksPerSecond` to the
second, for leases, delays and deadlines; leases of RabbitMQ end with the channel,
at any time.

| definition | code |
|---|---|
| `SendBatch`, `TooLarge`, `Refuse` | the batch methods; SQS checks all sizes first, a `DynProducer` each in its turn. A single send is a batch of one |
| `RequestSize`, `Request` | chunks (SQS), everything (Pub/Sub `publish_bulk`), one by one (the others, and every `DynProducer`) |
| `Publish`, `PublishFails`, `PublishToClosed` | a request succeeds, or fails after the service took none, some or all of it; in memory the receiver is gone |
| `PublishPartly` | the answer is Ok but messages are missing: failed entries (SQS), no confirm awaited (RabbitMQ) |
| `SendScheduled`, `SendScheduledFails`, `Due` | `send_raw_scheduled`; in memory a task that sleeps |
| `Receive`, `ReceiveBare`, `ReceiveFails`, `Capacity` | `receive`, `receive_all`; a lost answer, Pub/Sub's timeout, the `?` in RabbitMQ's loop; the clamp of `DynConsumer`. `ReceiveBare`: SQS messages without a receipt handle, which is an `Option` in the code |
| `CloseConsumer` | in memory: the consumer is dropped, and the channel with it |
| `Ack`, `AckTooLate`, `AckFails`, `AckBare`, `AckRefused` | the ackers' `ack`, and the `Delivery` handed back on failure (`HandBack`) |
| `Nack`, `NackFails`, `NackToClosed`, `NackEffect` | the ackers' `nack`: a no-op (SQS, Azure), requeue or discard (RabbitMQ by `requeue_on_nack`), release (Pub/Sub), a send to the channel (in memory) |
| `SetAckDeadline`, `SetAckDeadlineFails` | `set_ack_deadline` of SQS and Pub/Sub, in whole seconds |
| `Drop`, `LeaseEnds`, `Tick` | the consumer lets go of a `Delivery`; time, or a closed channel |

`spent` of a `Delivery` is the state in which its acker answers
`CannotAckOrNackTwice`. `Delivery::ack` and `nack` promise that on failure "`self` is
returned alongside the error to allow retrying" (queue/mod.rs:98); `Retryable` says
that the `Delivery` handed back is not spent, with three exceptions:

* RabbitMQ `take()`s the acker before the call that may fail;
* in memory, a nack sets its flag and takes the payload before it finds the
  receiver gone (in_memory.rs:181-188);
* SQS, an ack of a message without a receipt handle sets the flag and then
  returns the error (sqs.rs:224-233).

Whatever became of the `Delivery`, the message itself is accounted for: it is
settled, or the service has it and gives it out again, or, in memory, it is gone
with the channel.

## Runs

| run | instance | checks |
|---|---|---|
| `streams` | a message and an undecodable entry, two background tasks, batches of two, three entries, one fault | `StreamsInv`, `NoLoss`, `ReceivesBounded`, `DeadLetterNotEarly`, `OnceWhenTimely`, `Implements` |
| `streams_settled` | one message, four entries, one fault, fairness | `EventuallySettled`, `TimedOutRequeued` |
| `streams_poison` (violation) | a message and an undecodable entry, fairness | `TimedOutRequeued` |
| `delayed` | two messages and a malformed member, two tasks, one fault, fairness | `DelayedInv`, `NotPremature`, `NotLost`, `MovedOnce`, `EventuallyMoved` |
| `delayed_lease` (violation) | two tasks | `LeaseExclusion` |
| `fallback_safety` | two messages and a malformed key, two tasks, one fault | `FallbackInv`, `NoLoss`, `ReceivesBounded`, `DeadLetterNotEarly`, `FreshInOrder`, `Implements` |
| `fallback_settled` | one message, four keys, one fault, fairness | `EventuallySettled` |
| `fallback_deadline` (violation) | two messages, one task | `RequeuedOnlyWhenLate` |
| `redrive` | two payloads, three dead letters, two calls, one fault, fairness | `RedriveInv`, `RedriveLosesNothing`, `RedrivenOnce`, `RedriveEnds` |
| `brokers` | all five backends, type-erased or not, a message and an unsendable one, three receives, two faults, two ticks to the second | `BrokersInv`, `NoLoss`, `Retryable`, `RefusedWhole`, `NotPremature`, `DeadlineKept`, `Implements` |
| `brokers_entries` (violation) | SQS | `OkMeansSent` |
| `clients` | two processes, one message, new or of an older version, or a new one beside an old one that cannot be read, two receives, one fault | `ClientsInv`, `PayloadIntact`, `CountsTrue`, `TypesAgree`, `TasksLive`, `InReach` |

Bounds. With `max_receives` 2 a message goes through its whole life in an entry
and one copy; the third entry (or key) is the duplicate that two tasks, a retried
send or a failure between push and removal can make. The liveness runs have a
fourth, so that no behaviour is stuck at the bound: a retried send gives two
entries, each with one copy. Batches of two are enough to have one entry handled
and one not. One fault reaches every single point of failure; the proofs cover
any number. In `RedisDelayed` two ticks to the second show the rounding, a lock of
two or three ticks can expire at each step, and a message is scheduled early
enough to be due before the clock stops. `EventuallyMoved` leaves out behaviours in
which a malformed member stays in the sorted set: it ends every round that reads
it. In `Brokers` two messages and chunks of one make a batch of two requests,
a second receive of a message lets a stale `Delivery` meet a newer lease, and
delays and deadlines of one and three ticks, half a second and one and a half, show
the rounding on both sides of a second. `streams` has one payload that decodes,
so that two tasks, batches and a fault fit into one run; the proofs cover any
number. In `clients` the new payload reads like the end of a key, one of the
old payloads holds a `#`, and putting a message back after its second receive
writes a count of two digits in base 2. Two processes and one fault move or put
back a message twice, and after two receives of a scheduled message that was
moved twice its `Delivery` is told of one. Three receives, the least with which
a message put back twice is told too little, are left to the proof and to the
modules of the two queues. Deadlock
checking is off because a bounded instance
ends when everything sent is settled.

Symmetry (interchangeable messages and tasks) is used in the safety runs of
`RedisStreams` and `RedisFallback` only.

Fairness. Weak fairness of the background tasks (the loops run on the runtime
until the process ends), of time, and of a consumer that polls with `receive`.
Nothing is assumed of the code that holds a `Delivery`: it may keep or drop it
for ever. In `redrive` only calls that were made have to proceed.

### What the violations show

* **streams_poison.** `reenqueue_timed_out_messages` decodes inside the loop with
  `?` and sends its pipeline after the loop. An entry without the payload field,
  claimed together with others, ends every call before anything is re-queued
  (streams.rs:389), although the task "scoops up messages that have been claimed
  but not handled by a deadline, then re-queues them" (288). Claiming also resets
  the idle time, so the same happens an ack deadline later, for ever. Exhausted
  messages before it are pushed to the dead letter list again each time.
* **delayed_lease.** The lock is deleted without looking whose it is (mod.rs:682):
  a task that overran its five seconds frees the lock of the second, and may itself
  take it again on its next round; then two tasks, both within their time, work
  side by side. `MovedOnce` holds only without overruns;
  `NotLost` and `NotPremature` hold regardless.
* **fallback_deadline.** The deadline of the list backend runs from the making of
  the key (fallback.rs:250), so a message that waited on the main list for
  longer is re-queued right after it is received.

* **brokers_entries.** `send_batch_inner` drops the output of `send_message_batch`
  (sqs.rs:361), which names the entries the service rejected while it answered
  Ok. The sequential default it replaces returns an error in that case.

### What the properties leave out, and why

Some properties hold only with an exception, which they name:

* `InReach` and `TasksLive` except keys of the old form with a `#` in the
  payload. The comment "This should be backward-compatible with messages that
  don't include `num_receives`" (mod.rs:182) does not hold for them: the first `#`
  is looked for in the whole key, the slice from it to the `|` before it panics,
  and the task that met it is gone until the process builds a new client. In the
  delayed set such a key stops the schedulers of all processes, one after the
  other. `PayloadIntact` is not affected: such a key is never received.
* `TypesAgree` and `InReach` except dynamic builders after
  `use_redis_streams(false)`: the setting is dropped (mod.rs:594) and these clients
  use streams, on a key others may use as a list.
* `InReach` excepts scheduled messages where `delayed_queue_key` is empty
  (mod.rs:523): sends return Ok and nothing moves the message.
* `CountsTrue` excepts `torn` messages from being told the exact number of receives.
  Both copies of a message that was put back twice carry the same count
  (fallback.rs:247-281, streams.rs:366-446), so a later receive is told too few. It
  is never told too many, and so never dead-lettered early.
* `RefusedWhole` excepts a `DynProducer`, which sends one by one and refuses a
  batch after a part of it was sent.
* `DeadlineKept` and `NotPremature` allow for the second that `as_secs()` cuts off.
* `FreshInOrder` is about first receives only. A timed-out key is RPUSHed to the end
  of the list that is received next (fallback.rs:275) and overtakes the fresh ones.
  The module documentation's "reinserted at the back of the queue" (mod.rs:16) is said of
  consumer groups and the pending queue, that is of streams, where XADD does put it
  at the back; of lists nothing is promised.
* `Retryable` has the three exceptions listed under *Brokers*.
* `NoLoss` of `Brokers` excepts what a service drops after it answered Ok, and what the
  in-memory consumer drops or leaves behind. `Implements` counts the latter as held.
* `RedriveEnds` is about finitely many dead letters: while more arrive than a
  `redrive_dlq` moves, it goes on.
* `EventuallySettled` of lists is checked without a malformed key, which ends every
  round of the task that meets it.

## Proofs

For every value of the constants that satisfies the named assumptions, TLAPS
proves that all invariants the passing runs check hold of `Spec`, and the three
refinements. Bounds are constants too, so the theorems hold for any number of
messages, copies, tasks, processes and faults. Each module has an invariant
(`StreamsInv`, `FallbackInv`, `DelayedInv`, `RedriveInv`, `BrokersInv`,
`ClientsInv`) that is inductive, is checked by a run, and from which the
properties follow; its parts are at the end of the module under *Why the
invariants hold*.

| module | theorems |
|---|---|
| `AtLeastOnceQueueProofs` | `PromisesKept`, `SettledAfterReceive` |
| `RedisStreamsProofs` | `TypeCorrect`, `StreamsInvariant`, `NoMessageLost`, `CopiesBounded`, `NoEarlyDeadLetter`, `TimelyHandedOutOnce`, `StreamImplementsQueue` |
| `RedisFallbackProofs` | `FallbackInvariant`, `NoMessageLost`, `AttemptsBounded`, `NoEarlyDeadLetter`, `FirstReceivesInOrder`, `ListsImplementQueue` |
| `RedisDelayedProofs` | `DelayedInvariant`, `NeverPremature`, `NoScheduledMessageLost`, `MovedOnceUnderLock` |
| `RedisRedriveProofs` | `RedriveInvariant`, `NoDeadLetterLost`, `EachRedrivenOnce` |
| `BrokersProofs` | `BrokersInvariant`, `NoMessageLost`, `FailedCallsRetryable`, `RefusedBatchesWhole`, `ScheduledNotPremature`, `DeadlineHonoured`, `BackendsImplementQueue` |
| `RedisClientsProofs` | `RoundTrip`, `OldTrip`, `ClientsInvariant`, `PayloadsIntact`, `CountsAreTrue`, `FormsAgree`, `TasksStayLive`, `MessagesInReach` |

`ListLemmas` has what they share: what pushing to and popping from either end, a
slice and LREM leave at which place of a list, which of its members stay, and
when a recursively defined function exists.

**The abstract queue.** `PromisesKept` (what was promised is held until acked or
given up) and `SettledAfterReceive` (nothing is acked or given up that was not
received, the latter often enough) are inductive as they stand. By the three
refinement theorems they hold of streams, of lists and of the five other
backends.

**Streams.** `NoLoss` is not inductive: after XADD of the copy, XACK of the
original is safe only because the copy is still there, and another task may have
claimed, copied and acknowledged the copy meanwhile. `Covered` makes it
inductive: what a task need no longer copy is settled, or is in a live entry with
an id **above every id of the batch**. Another task that acknowledges that entry
has, by its own `Covered`, left a copy above its own batch, which contains the
entry, and so above the first batch too (`PlacedStep`). `IdsOK`, `BatchOK` and
`DeliveriesOK` say that ids are unique, that XDEL only ever follows XACK, and
that entries remembered by clients are what the server holds (`PlacementNext`).
`CountsOK` gives `DeadLetterNotEarly`, `RetriesOK` gives `ReceivesBounded`, and
`TimelyOK` (a timely message has one entry, which nobody has claimed) gives
`OnceWhenTimely`.

**Lists.** The same argument on lists is `Moved`: the key a task is about to LREM
is of a message that is settled or in a key made later. It needs `KeysOK` (a key
is on one list, once, and never returns to the main list, so that LREM finds
what was read or nothing), `TasksOK` and `DeliveriesOK` (what is remembered of a
key is what the lists hold), and `CountsOK` for the two properties about counts.
`FreshInOrder` is inductive with `KeysOK`: LPUSH puts a key with a new, largest ksuid
at the head, what is RPUSHed is not fresh, and BRPOPLPUSH takes the end.

**Delayed.** `DueOK` carries the arithmetic: a query's `asOf` second has ended
(`TimestampEnded`), and a time whose second is at most `asOf` lies before that
end (`RoundedDownBefore`). `KeysOK` gives `NotLost`. `LockOK` and `AddedOK`, both
conditional on no overrun, give `MovedOnce`.

**Redrive.** A call removes by value what it has added before, while others add
and remove the same values, so no single call can be followed on its own.
`Covered` counts over all of them: copies in the main queue and dead letters
together exceed what was ever dead-lettered by at least the removals the running
calls still owe. Adding a copy raises both sides, an LREM lowers both or, when
another call was faster, only the right. `AloneOK` makes the count exact as long
as calls neither overlap nor fail.

**Brokers.** `SendsOK`, `ReceiptsOK` and `SubmittedOK` say where the messages of a
send in progress, and those once received, can be, and that a lease belongs to one
receive. `SpentOK` says which calls spend a `Delivery`; with `SubmittedOK`, which places its
message, it gives `Retryable`. `RefusalsOK`,
`DelaysOK` and `DeadlinesOK` strengthen `RefusedWhole`, `NotPremature` and
`DeadlineKept` to what holds while a call, a delay or a lease is under way.

**Clients and the codec.** `RoundTrip` is about `usize::to_string`, `parse`, the
search for separators and the slices: for every payload and every count the
reader returns what was written. `OldTrip` says for which keys of the old form it
panics: exactly those with a `#` in the payload. What `Text` and `Parse` compute is
proved without an induction rule, by looking at the least number for which
`Parse(Text[n])` is not n (`LeastNumber`), and that these recursions define functions
at all is `RecursionExists`. On this rests `ClientsInv`. There may be several copies of
a message; what every one of them, in Redis or in the hands of a task, says is at
most the number of receives (`CopiesOK`). Exactness needs more: `Live` are the copies
that no task is about to remove, and of a message that is not `torn` there is at most one,
which says the truth (`LiveOK`). Together they give `CountsTrue`. `PlacesOK` and
`HandsOK` say that copies can be told apart, also by the tasks that remove them;
this is where the codec is needed. `NoneLost` (what was not received waits or
is in the delayed set, and what a scheduler is about to remove waits) gives `InReach`,
`FormsOK` gives `TypesAgree`, and that keys which
cannot be read never leave the lists (`PanicKeysStay`) gives `TasksLive`. The
assumption is that payloads are sequences over some set `Bytes`, nothing more.

Only model-checked: the liveness properties (`EventuallySettled`,
`TimedOutRequeued`, `EventuallyMoved`, `RedriveEnds`), which are
outside what the prover handles.

## Not modelled

Connection pools, cluster and sentinel set-up, the eviction policy warning
(I/O); serialization; logging. `send_serde_json*` are `send_raw*` after
serialization. Retention and time to live of messages in the services, and the
order in which a service or the in-memory channel gives messages out. A
`max_messages` above a backend's maximum passed to its own consumer is refused by
the service. Waiting inside a receive: the in-memory consumer holds a sender of
its own channel (in_memory.rs:104), so that `receive` waits for ever once all
producers are gone. Redis itself is taken as a single server that keeps what it
acknowledged: no failover.

## Plan

1. *(done)* `RedisStreams`, `RedisDelayed`, their proofs; `RedisFallback`,
   `RedisRedrive`.
2. *(done)* `Brokers`: the other backends, the retry contract of `Delivery`
   (queue/mod.rs:74), scheduled sends and `set_ack_deadline`.
3. *(done)* `AtLeastOnceQueue`, and `RedisStreams`, `RedisFallback` and `Brokers` shown
   to implement it; `ListPayload`; `RedisClients`, which composes the delayed queue,
   both main queues and the builders.
4. *(done)* Proofs of `FallbackInv`, `RedriveInv` and `BrokersInv`, of the codec and
   `ClientsInv`, and of the three refinements.
5. *(done)* `RedisClients` command by command, with tasks that overlap, fail and are
   stopped; SQS messages without a receipt handle.
6. What is left is deeper rather than wider: batches and dead letters in
   `RedisClients`, and a formal relation between it and `RedisStreams` and
   `RedisFallback`, which know more of each queue and less of clients; action
   properties of the Redis modules beyond the refinements.
