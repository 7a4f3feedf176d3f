------------------------------- MODULE Brokers -------------------------------
(***************************************************************************)
(* The backends whose queue is a service or a channel: in_memory, rabbitmq,*)
(* sqs, gcp_pubsub and azure.  A producer sends a batch, or one message to *)
(* be delivered later; a consumer receives Deliveries and acks or nacks    *)
(* each through the backend's Acker, which gets the Delivery back when the *)
(* call fails and may try again, or asks for more time.  What the backends *)
(* share is stated once; where they differ a definition says how.          *)
(*                                                                         *)
(* The service is external: it gives out a ready message under a lease     *)
(* (visibility timeout, ack deadline, unacked delivery of a channel), takes*)
(* the message back when the lease ends and forgets it when the holder of  *)
(* the lease deletes it.  In memory the lease is the copy of the payload   *)
(* in the Acker.  Services expire messages (retention, message_ttl); that  *)
(* is left out.                                                            *)
(*                                                                         *)
(* Time is counted down: a lease, a delayed message and a deadline know    *)
(* how many ticks they have left.  A tick is a part of a second, so that a *)
(* Duration can be lost to as_secs().                                      *)
(*                                                                         *)
(* A definition written just above another with the same parameters is a   *)
(* faulty variant of it, used only to see that the properties notice.      *)
(***************************************************************************)
EXTENDS Integers, Sequences, FiniteSets

CONSTANTS
    Messages,
    Unsendable,      \* messages a send refuses where it looks: longer than
                     \* MAX_PAYLOAD_SIZE (sqs), or bytes that are no UTF-8 (azure)
    Backends,        \* the backends of this instance
    ChunkSize,       \* MAX_BATCH_SIZE of sqs.rs
    MaxMessages,     \* largest max_messages a caller passes
    BackendMax,      \* QueueConsumer::max_messages of sqs and azure
    TicksPerSecond,
    LeaseTicks,      \* length of a lease in sqs, gcp_pubsub and azure
    Delays,          \* Durations of scheduled sends, in ticks
    Deadlines,       \* Durations passed to set_ack_deadline, in ticks
    MaxLeases,       \* bound: how often a message is received
    MaxFaults        \* bound: failed calls and lost replies

ASSUME BrokersAssumption ==
    /\ Unsendable \subseteq Messages
    /\ Backends \subseteq {"in_memory", "rabbitmq", "sqs", "gcp_pubsub", "azure"}
    /\ ChunkSize \in Nat \ {0}
    /\ MaxMessages \in Nat \ {0}
    /\ BackendMax \in Nat \ {0}
    /\ TicksPerSecond \in Nat \ {0}
    /\ LeaseTicks \in Nat
    /\ Delays \subseteq Nat
    /\ Deadlines \subseteq Nat
    /\ MaxLeases \in Nat
    /\ MaxFaults \in Nat

VARIABLES
    backend,     \* the backend in use; never changes
    requeue,     \* requeue_on_nack of RabbitMqConfig; never changes
    dyn,         \* is the producer a DynProducer? never changes
    batch,       \* messages of the send in progress that were not submitted
    calling,     \* all messages of the send in progress
    waiting,     \* messages sent with a delay that is not over
    ready,       \* messages the service can give out
    leases,      \* messages it has given out, with the number of the receive
    deliveries,  \* Delivery values in the hands of the consumer
    closed,      \* in memory: the consumer, and with it the channel's rx, is gone
    faults,      \* faults so far
    tried,       \* messages some send was called with: each is sent once
    receives,    \* how often each message was given out
    \* history
    sent,        \* messages whose send returned Ok
    refused,     \* messages of sends that found one of them unsendable
    acked,       \* messages deleted by an ack
    swallowed,   \* messages the service did not take though its answer was Ok
    discarded,   \* messages the broker took back for good on a nack
    dropped,     \* in memory: messages whose Delivery was dropped
    gone,        \* in memory: messages sent to a channel without a receiver
    notBefore    \* ticks left of the delay each message was sent with

config      == <<backend, requeue, dyn>>
sendVars    == <<batch, calling, tried, sent, refused, swallowed>>
delayVars   == <<waiting, notBefore>>
historyVars == <<acked, discarded, dropped, gone>>
vars == <<config, sendVars, delayVars, ready, leases, deliveries, closed, faults,
          historyVars, receives>>

Lease == [msg : Messages, n : Nat, left : Nat]

Waiting == [msg : Messages, left : Nat]

\* spent: the Acker answers CannotAckOrNackTwice from now on.  receipt: is there
\* a receipt_handle in it (only that of sqs may be None)?  asked, history: ticks
\* left of the last deadline that was set with Ok.
Delivery ==
    [msg : Messages, n : Nat, spent : BOOLEAN, receipt : BOOLEAN, asked : Nat]

\* The types of the variables; a send is in progress exactly as long as
\* messages of it wait to be submitted.
TypeOK ==
    /\ backend \in Backends
    /\ requeue \in BOOLEAN
    /\ dyn \in BOOLEAN
    /\ batch \in Seq(Messages)
    /\ calling \subseteq Messages
    /\ calling = {} <=> batch = <<>>
    /\ waiting \subseteq Waiting
    /\ ready \subseteq Messages
    /\ leases \subseteq Lease
    /\ deliveries \subseteq Delivery
    /\ closed \in BOOLEAN
    /\ closed => backend = "in_memory" /\ ready = {}
    /\ faults \in 0..MaxFaults
    /\ tried \subseteq Messages
    /\ sent \cup refused \subseteq tried
    /\ acked \cup discarded \cup dropped \cup gone \cup swallowed \subseteq tried
    /\ receives \in [Messages -> 0..MaxLeases]
    /\ notBefore \in [Messages -> Nat]

IsLeaseOf(l, d) == l.msg = d.msg /\ l.n = d.n

\* The lease the Delivery was received under has not ended.
Valid(d) == \E l \in leases : IsLeaseOf(l, d)

LeasesBut(d) == {l \in leases : ~IsLeaseOf(l, d)}

Leased == {l.msg : l \in leases}

Delayed == {w.msg : w \in waiting}

\* Duration::as_secs, in ticks: the services count whole seconds.
PartOfSecond(t) == t % TicksPerSecond
WholeSeconds(t) == (t \div TicksPerSecond) * TicksPerSecond

\* What a caller passes as max_messages reaches sqs and azure only up to their
\* maximum: DynConsumer clamps it, and the services refuse a larger number.
Capacity ==
    IF backend \in {"sqs", "azure"} /\ MaxMessages > BackendMax THEN BackendMax ELSE MaxMessages

Fault ==
    /\ faults < MaxFaults
    /\ faults' = faults + 1

-----------------------------------------------------------------------------
Init ==
    /\ backend \in Backends
    /\ requeue \in BOOLEAN
    /\ backend # "rabbitmq" => requeue
    /\ dyn \in BOOLEAN
    /\ batch = <<>>
    /\ calling = {}
    /\ waiting = {}
    /\ ready = {}
    /\ leases = {}
    /\ deliveries = {}
    /\ closed = FALSE
    /\ faults = 0
    /\ tried = {}
    /\ sent = {}
    /\ refused = {}
    /\ swallowed = {}
    /\ acked = {}
    /\ discarded = {}
    /\ dropped = {}
    /\ gone = {}
    /\ receives = [m \in Messages |-> 0]
    /\ notBefore = [m \in Messages |-> 0]

(* Producers *)

\* send_raw_batch, send_bytes_batch and send_serde_json_batch are called;
\* send_raw is a batch of one.
SendBatch(s) ==
    /\ calling = {}
    /\ \A i \in DOMAIN s : s[i] \notin tried
    /\ batch' = s
    /\ calling' = {s[i] : i \in DOMAIN s}
    /\ tried' = tried \cup calling'
    /\ UNCHANGED <<config, delayVars, ready, leases, deliveries, closed, faults,
                   sent, refused, swallowed, historyVars, receives>>

\* The messages that go into the next request: a chunk for sqs, everything for
\* Pub/Sub's publish_bulk, one by one for the others and for a DynProducer, which
\* has only the default send_raw_batch.
RequestSize ==
    CASE ~dyn /\ backend = "sqs" /\ Len(batch) > ChunkSize -> ChunkSize
      [] ~dyn /\ backend \in {"sqs", "gcp_pubsub"} -> Len(batch)
      [] OTHER -> 1

Request == {batch[i] : i \in 1..RequestSize}

\* Does the call find a message it cannot send?  The batch methods of the
\* backends convert every payload, and send_batch_inner of sqs looks at every
\* size, before anything is submitted; a DynProducer comes to a message when all
\* before it are sent.
TooLargeInRequest ==
    /\ batch # <<>>
    /\ backend \in {"sqs", "azure"}
    /\ Request \cap Unsendable # {}
TooLarge ==
    /\ batch # <<>>
    /\ backend \in {"sqs", "azure"}
    /\ IF dyn THEN batch[1] \in Unsendable
              ELSE \E i \in DOMAIN batch : batch[i] \in Unsendable

\* The call returns PayloadTooLarge, or the error of from_utf8.
Refuse ==
    /\ TooLarge
    /\ batch' = <<>>
    /\ calling' = {}
    /\ refused' = refused \cup calling
    /\ UNCHANGED <<config, delayVars, ready, leases, deliveries, closed, faults,
                   tried, sent, swallowed, historyVars, receives>>

\* The request has been answered: drop it from the batch, and return Ok after
\* the last one.
AdvanceOneTooFar ==
    /\ batch' = SubSeq(batch, RequestSize + 2, Len(batch))
    /\ IF batch' = <<>>
       THEN sent' = sent \cup calling /\ calling' = {}
       ELSE UNCHANGED <<sent, calling>>
Advance ==
    /\ batch' = SubSeq(batch, RequestSize + 1, Len(batch))
    /\ IF batch' = <<>>
       THEN sent' = sent \cup calling /\ calling' = {}
       ELSE UNCHANGED <<sent, calling>>

\* The service takes every message of the request and answers Ok.
Publish ==
    /\ batch # <<>>
    /\ ~TooLarge
    /\ ~closed
    /\ ready' = ready \cup Request
    /\ Advance
    /\ UNCHANGED <<config, delayVars, leases, deliveries, closed, faults, tried,
                   refused, swallowed, historyVars, receives>>

\* The answer is Ok but some messages are not taken: send_message_batch names
\* the entries it rejected in a part of its output that the backend does not
\* read, and basic_publish is done when the frames are written, the confirm it
\* returns is not awaited.
PublishPartly ==
    /\ batch # <<>>
    /\ ~TooLarge
    /\ backend = "rabbitmq" \/ (backend = "sqs" /\ ~dyn)
    /\ Fault
    /\ \E lost \in SUBSET Request \ {{}} :
          /\ ready' = ready \cup (Request \ lost)
          /\ swallowed' = swallowed \cup lost
    /\ Advance
    /\ UNCHANGED <<config, delayVars, leases, deliveries, closed, tried, refused,
                   historyVars, receives>>

\* The request fails, before or after the service took some of it: the call
\* returns an error and what came before stays sent.
PublishFails ==
    /\ batch # <<>>
    /\ ~TooLarge
    /\ backend # "in_memory"
    /\ Fault
    /\ \E accepted \in SUBSET Request : ready' = ready \cup accepted
    /\ batch' = <<>>
    /\ calling' = {}
    /\ UNCHANGED <<config, delayVars, leases, deliveries, closed, tried, sent,
                   refused, swallowed, historyVars, receives>>

\* In memory, and the channel's receiver is gone.
PublishToClosed ==
    /\ batch # <<>>
    /\ closed
    /\ batch' = <<>>
    /\ calling' = {}
    /\ UNCHANGED <<config, delayVars, ready, leases, deliveries, closed, faults, tried,
                   sent, refused, swallowed, historyVars, receives>>

\* How long the message is kept back: sqs takes delay_seconds and azure a
\* visibility timeout in seconds, rabbitmq milliseconds in the x-delay header;
\* in memory a spawned task sleeps.
DelayTicksNone(t) == 0
DelayTicks(t) == IF backend \in {"sqs", "azure"} THEN WholeSeconds(t) ELSE t

\* The guard of send_raw_scheduled; Pub/Sub has no scheduled sends.
MaySchedule(m) ==
    /\ calling = {}
    /\ m \notin tried
    /\ backend # "gcp_pubsub"
    /\ backend \in {"sqs", "azure"} => m \notin Unsendable
    /\ tried' = tried \cup {m}

Keep(m, t) ==
    /\ waiting' = waiting \cup {[msg |-> m, left |-> DelayTicks(t)]}
    /\ notBefore' = [notBefore EXCEPT ![m] = t]

\* send_raw_scheduled returns Ok.
SendScheduled(m, t) ==
    /\ MaySchedule(m)
    /\ Keep(m, t)
    /\ sent' = sent \cup {m}
    /\ UNCHANGED <<config, batch, calling, ready, leases, deliveries, closed, faults,
                   refused, swallowed, historyVars, receives>>

\* The request fails, before or after the service took the message; or it is
\* the publish of rabbitmq that is not confirmed.
SendScheduledFails(m, t) ==
    /\ backend # "in_memory"
    /\ MaySchedule(m)
    /\ Fault
    /\ \/ Keep(m, t) /\ UNCHANGED <<sent, swallowed>>
       \/ UNCHANGED <<delayVars, sent, swallowed>>
       \/ /\ backend = "rabbitmq"
          /\ sent' = sent \cup {m}
          /\ swallowed' = swallowed \cup {m}
          /\ UNCHANGED delayVars
    /\ UNCHANGED <<config, batch, calling, ready, leases, deliveries, closed,
                   refused, historyVars, receives>>

\* The delay is over.  In memory the sleeping task finds the channel closed and
\* only logs it.
Due(w) ==
    /\ w.left = 0
    /\ waiting' = waiting \ {w}
    /\ IF closed
       THEN gone' = gone \cup {w.msg} /\ UNCHANGED ready
       ELSE ready' = ready \cup {w.msg} /\ UNCHANGED gone
    /\ UNCHANGED <<config, sendVars, notBefore, leases, deliveries, closed, faults,
                   acked, discarded, dropped, receives>>

(* Consumers *)

LeaseLength == IF backend \in {"in_memory", "rabbitmq"} THEN 0 ELSE LeaseTicks

GiveOutForGood(S) ==
    /\ S # {}
    /\ Cardinality(S) <= Capacity
    /\ \A m \in S : receives[m] < MaxLeases
    /\ ready' = ready \ S
    /\ UNCHANGED leases
    /\ receives' = [m \in Messages |-> IF m \in S THEN receives[m] + 1 ELSE receives[m]]
GiveOut(S) ==
    /\ S # {}
    /\ Cardinality(S) <= Capacity
    /\ \A m \in S : receives[m] < MaxLeases
    /\ ready' = ready \ S
    /\ leases' = leases \cup
         {[msg |-> m, n |-> receives[m] + 1, left |-> LeaseLength] : m \in S}
    /\ receives' = [m \in Messages |-> IF m \in S THEN receives[m] + 1 ELSE receives[m]]

\* The Deliveries of S; those of B come without a receipt.
Wrap(S, B) ==
    deliveries' = deliveries \cup
        {[msg |-> m, n |-> receives[m] + 1, spent |-> FALSE, receipt |-> m \notin B,
          asked |-> 0] : m \in S}

\* receive and receive_all.  The loops of rabbitmq and in_memory do not await
\* after their first message.
Receive(S) ==
    /\ GiveOut(S)
    /\ Wrap(S, {})
    /\ UNCHANGED <<config, sendVars, delayVars, closed, faults, historyVars>>

\* wrap_message of sqs takes a message without a receipt handle as it is.
ReceiveBare(S) ==
    /\ backend = "sqs"
    /\ Fault
    /\ GiveOut(S)
    /\ \E B \in (SUBSET S) \ {{}} : Wrap(S, B)
    /\ UNCHANGED <<config, sendVars, delayVars, closed, historyVars>>

\* The answer is lost or comes after the deadline; in rabbitmq an error in the
\* middle of receive_all drops what was collected.
ReceiveFails(S) ==
    /\ backend # "in_memory"
    /\ Fault
    /\ GiveOut(S)
    /\ UNCHANGED <<config, sendVars, delayVars, deliveries, closed, historyVars>>

\* A visibility timeout or ack deadline has passed, or rabbitmq's channel closes.
LeaseEnds(l) ==
    /\ backend # "in_memory"
    /\ l.left = 0
    /\ leases' = leases \ {l}
    /\ ready' = ready \cup {l.msg}
    /\ UNCHANGED <<config, sendVars, delayVars, deliveries, closed, faults, historyVars,
                   receives>>

\* In memory: the consumer is dropped, and what is in the channel with it.
CloseConsumer ==
    /\ backend = "in_memory"
    /\ ~closed
    /\ closed' = TRUE
    /\ gone' = gone \cup ready
    /\ ready' = {}
    /\ UNCHANGED <<config, sendVars, delayVars, leases, deliveries, faults, acked,
                   discarded, dropped, receives>>

(* Ackers *)

\* Does the Acker mark itself before its call?  RabbitMqAcker take()s the acker
\* and InMemoryAcker sets its flag, SqsAcker and AqsAcker set theirs afterwards,
\* GcpPubSubAcker has none.
SpentByAnyCall == backend \in {"rabbitmq", "in_memory", "sqs"}
SpentByFailure == backend \in {"rabbitmq", "in_memory"}

\* What happens to the message when nack reaches the service: nothing in sqs
\* and azure, where nack makes no call.
NackForgets == IF backend = "in_memory" THEN "nothing" ELSE "released"
NackEffect ==
    CASE backend \in {"sqs", "azure"} -> "nothing"
      [] backend = "rabbitmq" /\ ~requeue -> "discarded"
      [] OTHER -> "released"

\* The service deletes the message of d: the holder of the lease asks, or,
\* where a receipt outlives its lease, nobody has received the message since.
Delete(d) ==
    /\ \/ /\ Valid(d)
          /\ leases' = LeasesBut(d)
          /\ UNCHANGED ready
       \/ /\ ~Valid(d)
          /\ backend \in {"sqs", "gcp_pubsub", "azure"}
          /\ d.msg \in ready
          /\ ready' = ready \ {d.msg}
          /\ UNCHANGED leases
    /\ acked' = acked \cup {d.msg}

\* InMemoryAcker::ack, RabbitMqAcker::ack, SqsAcker::ack, GcpPubSubAcker::ack and
\* AqsAcker::ack, when all goes well.
Ack(d) ==
    /\ ~d.spent
    /\ d.receipt
    /\ Delete(d)
    /\ deliveries' = deliveries \ {d}
    /\ UNCHANGED <<config, sendVars, delayVars, closed, faults, discarded, dropped, gone,
                   receives>>

\* Under a lease that has ended sqs and Pub/Sub may answer Ok and do nothing.
AckTooLate(d) ==
    /\ ~d.spent
    /\ d.receipt
    /\ ~Valid(d)
    /\ backend \in {"sqs", "gcp_pubsub"}
    /\ deliveries' = deliveries \ {d}
    /\ UNCHANGED <<config, sendVars, delayVars, ready, leases, closed, faults, historyVars,
                   receives>>

\* The caller gets the Delivery back with the error.
HandBack(d, spent) ==
    deliveries' = (deliveries \ {d}) \cup {[d EXCEPT !.spent = spent, !.asked = 0]}

\* The call fails, before or after the service deleted the message.
AckFails(d) ==
    /\ ~d.spent
    /\ d.receipt
    /\ backend # "in_memory"
    /\ Fault
    /\ HandBack(d, SpentByFailure)
    /\ Delete(d) \/ UNCHANGED <<ready, leases, acked>>
    /\ UNCHANGED <<config, sendVars, delayVars, closed, discarded, dropped, gone, receives>>

\* A lease that has ended is an error in azure (the pop receipt) and in
\* rabbitmq (the channel), every time.
AckRefused(d) ==
    /\ ~d.spent
    /\ ~Valid(d)
    /\ backend \in {"azure", "rabbitmq"}
    /\ HandBack(d, SpentByFailure)
    /\ UNCHANGED <<config, sendVars, delayVars, ready, leases, closed, faults, historyVars,
                   receives>>

\* Without a receipt handle SqsAcker::ack sets its flag, makes no call and returns
\* an error.
AckBare(d) ==
    /\ ~d.spent
    /\ ~d.receipt
    /\ HandBack(d, TRUE)
    /\ UNCHANGED <<config, sendVars, delayVars, ready, leases, closed, faults, historyVars,
                   receives>>

Discards(d) ==
    discarded' = IF NackEffect = "discarded" THEN discarded \cup {d.msg} ELSE discarded

\* nack returns Ok.  Without a valid lease the service does nothing.  In memory
\* the copy in the Acker goes with the Delivery.  SqsAcker::nack does not look at
\* the flag.
Nack(d) ==
    /\ d.spent => backend = "sqs"
    /\ ~closed
    /\ NackEffect = "nothing" \/ Valid(d) \/ backend = "gcp_pubsub"
    /\ deliveries' = deliveries \ {d}
    /\ leases' = IF NackEffect = "nothing" /\ backend # "in_memory" THEN leases ELSE LeasesBut(d)
    /\ ready' = IF NackEffect = "released" /\ Valid(d) THEN ready \cup {d.msg} ELSE ready
    /\ Discards(d)
    /\ UNCHANGED <<config, sendVars, delayVars, closed, faults, acked, dropped, gone, receives>>

\* nack fails on the way; if the service heard it, it did its part.
NackFails(d) ==
    /\ ~d.spent
    /\ NackEffect # "nothing"
    /\ backend # "in_memory"
    /\ Fault
    /\ HandBack(d, SpentByFailure)
    /\ \/ UNCHANGED <<leases, ready, discarded>>
       \/ /\ Valid(d)
          /\ leases' = LeasesBut(d)
          /\ ready' = IF NackEffect = "released" THEN ready \cup {d.msg} ELSE ready
          /\ Discards(d)
    /\ UNCHANGED <<config, sendVars, delayVars, closed, acked, dropped, gone, receives>>

\* In memory, without a receiver: the flag is set and the copy taken before the
\* send fails, so the Delivery that comes back is of no use.
NackToClosed(d) ==
    /\ ~d.spent
    /\ closed
    /\ HandBack(d, SpentByFailure)
    /\ leases' = LeasesBut(d)
    /\ gone' = gone \cup {d.msg}
    /\ UNCHANGED <<config, sendVars, delayVars, ready, closed, faults, acked, discarded,
                   dropped, receives>>

\* The consumer drops a Delivery without ack or nack.
Drop(d) ==
    /\ deliveries' = deliveries \ {d}
    /\ IF backend = "in_memory" /\ Valid(d)
       THEN leases' = LeasesBut(d) /\ dropped' = dropped \cup {d.msg}
       ELSE UNCHANGED <<leases, dropped>>
    /\ UNCHANGED <<config, sendVars, delayVars, ready, closed, faults, acked, discarded, gone,
                   receives>>

\* The lease of d from now on, if the service hears of it.
Relet(d, t) ==
    leases' = LeasesBut(d) \cup {[msg |-> d.msg, n |-> d.n, left |-> WholeSeconds(t)]}

Asks(d, t) == deliveries' = (deliveries \ {d}) \cup {[d EXCEPT !.asked = t]}

\* set_ack_deadline of SqsAcker and GcpPubSubAcker, where as_secs() makes whole
\* seconds of the duration; the others answer Unsupported.  After the lease has
\* ended, and without a receipt, the call changes nothing.
SetAckDeadline(d, t) ==
    /\ backend \in {"sqs", "gcp_pubsub"}
    /\ d.receipt
    /\ Valid(d)
    /\ Relet(d, t)
    /\ Asks(d, t)
    /\ UNCHANGED <<config, sendVars, delayVars, ready, closed, faults, historyVars, receives>>

\* The call fails; the service may have heard it.
SetAckDeadlineFails(d, t) ==
    /\ backend \in {"sqs", "gcp_pubsub"}
    /\ d.receipt
    /\ Valid(d)
    /\ Fault
    /\ Relet(d, t) \/ UNCHANGED leases
    /\ Asks(d, 0)
    /\ UNCHANGED <<config, sendVars, delayVars, ready, closed, historyVars, receives>>

(* Time *)

Less(t) == IF t = 0 THEN 0 ELSE t - 1

Tick ==
    /\ \/ \E x \in leases \cup waiting : x.left > 0
       \/ \E m \in Messages : notBefore[m] > 0
       \/ \E d \in deliveries : d.asked > 0
    /\ leases' = {[l EXCEPT !.left = Less(@)] : l \in leases}
    /\ waiting' = {[w EXCEPT !.left = Less(@)] : w \in waiting}
    /\ deliveries' = {[d EXCEPT !.asked = Less(@)] : d \in deliveries}
    /\ notBefore' = [m \in Messages |-> Less(notBefore[m])]
    /\ UNCHANGED <<config, sendVars, ready, closed, faults, historyVars, receives>>

-----------------------------------------------------------------------------
\* What a producer may pass to send_raw_batch: each message once.
Batches ==
    {s \in UNION {[1..n -> Messages] : n \in 1..Cardinality(Messages)} :
        \A i, j \in DOMAIN s : s[i] = s[j] => i = j}

Handle(d) ==
    \/ Ack(d) \/ AckTooLate(d) \/ AckFails(d) \/ AckRefused(d) \/ AckBare(d)
    \/ Nack(d) \/ NackFails(d) \/ NackToClosed(d) \/ Drop(d)
    \/ \E t \in Deadlines : SetAckDeadline(d, t) \/ SetAckDeadlineFails(d, t)

Next ==
    \/ \E s \in Batches : SendBatch(s)
    \/ Refuse \/ Publish \/ PublishPartly \/ PublishFails \/ PublishToClosed
    \/ \E m \in Messages, t \in Delays : SendScheduled(m, t) \/ SendScheduledFails(m, t)
    \/ \E w \in waiting : Due(w)
    \/ \E S \in SUBSET ready : Receive(S) \/ ReceiveBare(S) \/ ReceiveFails(S)
    \/ \E l \in leases : LeaseEnds(l)
    \/ CloseConsumer
    \/ \E d \in deliveries : Handle(d)
    \/ Tick

Spec == Init /\ [][Next]_vars

-----------------------------------------------------------------------------
(* Properties *)

\* Messages that some consumer was handed, or that were lost on the way to it.
Received == {m \in Messages : receives[m] > 0}

\* Where the messages the service took can be.
Placed ==
    acked \cup discarded \cup dropped \cup gone \cup Delayed \cup ready \cup Leased

\* No message is lost: if a send returned Ok and the service took all of it, each
\* message was acked or rejected, or can still be received: it waits for its
\* time, is ready, or is leased by a service that takes it back (in memory: by
\* a Delivery that can be nacked).  So was or can every message that was ever
\* received, though its send may have failed.  The exceptions are what a service
\* swallowed, and in memory what the consumer drops or leaves behind.
NoLoss == (sent \ swallowed) \cup Received \subseteq Placed

\* send_raw_batch "is overwritten for the SQS backend to be more efficient than
\* the default of sequentially publishing": as there, Ok means that every
\* message was sent.
OkMeansSent ==
    sent \cap swallowed = {}

\* "On failure, self is returned alongside the error to allow retrying": the
\* Delivery that ack or nack returned with an error, however often, can be acked or
\* nacked again.  There are three exceptions, in which it answers nothing but
\* CannotAckOrNackTwice: in rabbitmq the acker is taken by the call that failed;
\* in memory a nack after the consumer is gone has used up the flag and the copy;
\* in sqs an ack without a receipt handle sets the flag.  Even then the message
\* does not depend on the Delivery: it is settled or can be received again (in
\* memory: it is gone, with the channel).
Retryable ==
    \A d \in deliveries : d.spent =>
        /\ backend = "rabbitmq" \/ closed \/ ~d.receipt
        /\ d.msg \in Placed

\* What the service has or had.
Taken == Delayed \cup ready \cup Received

\* A batch that is refused because of one message leaves nothing at the service,
\* however many requests it would have taken; through a DynProducer, which sends
\* one message after the other, only the refused message itself stays out.
RefusedWhole ==
    backend \in {"sqs", "azure"} =>
        Taken \cap (Unsendable \cup IF dyn THEN {} ELSE refused) = {}

\* A message is early by less than this.
EarlyBy == IF backend \in {"sqs", "azure"} THEN TicksPerSecond ELSE 1

\* A scheduled message cannot be received before its time: to the tick in memory
\* and in rabbitmq, less than a second early in sqs and azure, whose delays are
\* whole seconds.
NotPremature ==
    \A m \in ready \cup Leased : notBefore[m] < EarlyBy

\* set_ack_deadline "ensures that the same message will not be reprocessed if
\* ack() is called within an interval of duration": true up to the last second
\* of the interval, if the lease had not ended before the call and as long as the
\* caller has not tried to ack or nack.  Of a duration below a second nothing is
\* left, and the lease may end at once.
DeadlineKept ==
    \A d \in deliveries : d.asked >= TicksPerSecond => Valid(d)

-----------------------------------------------------------------------------
(* Why the invariants hold *)

Unsubmitted == {batch[i] : i \in DOMAIN batch}

\* A send in progress is the first its messages are in, and nothing is known of a
\* message before its send.
SendsOK ==
    /\ Unsubmitted \subseteq calling
    /\ calling \subseteq tried
    /\ calling \cap (sent \cup refused) = {}
    /\ Taken \subseteq tried
    /\ \A m \in (Messages \ tried) \cup calling : notBefore[m] = 0

\* A lease and a Delivery are of a receive that took place; no two Deliveries are
\* of the same one.
ReceiptsOK ==
    /\ \A x \in leases \cup deliveries : 1 <= x.n /\ x.n <= receives[x.msg]
    /\ \A d, e \in deliveries : IsLeaseOf(d, e) => d = e

\* What is no longer waiting to be submitted was swallowed or is placed, though the
\* send has not returned; and what was received is placed.
SubmittedOK ==
    /\ sent \cup (calling \ Unsubmitted) \subseteq Placed \cup swallowed
    /\ Received \subseteq Placed

\* Only sqs gives out messages without a receipt, and a Delivery is spent only in
\* the exceptions of Retryable.
SpentOK ==
    \A d \in deliveries :
        /\ ~d.receipt => backend = "sqs"
        /\ d.spent => backend = "rabbitmq" \/ closed \/ ~d.receipt

\* As long as the call may still refuse, it has submitted nothing.
RefusalsOK ==
    backend \in {"sqs", "azure"} /\ ~dyn /\ TooLarge => calling \cap Taken = {}

\* The service waits almost as long as it was asked to.
DelaysOK == \A w \in waiting : notBefore[w.msg] < w.left + EarlyBy

\* A lease lasts almost as long as the deadline that was set.
DeadlinesOK ==
    \A d \in deliveries : d.asked >= TicksPerSecond =>
        \E l \in leases : IsLeaseOf(l, d) /\ d.asked < l.left + TicksPerSecond

\* What callers, Ackers and the service know of each message fits together, and
\* with it the safety properties above.
BrokersInv ==
    /\ TypeOK
    /\ SendsOK
    /\ ReceiptsOK
    /\ SubmittedOK
    /\ SpentOK
    /\ RefusalsOK
    /\ RefusedWhole
    /\ DelaysOK
    /\ NotPremature
    /\ DeadlinesOK

-----------------------------------------------------------------------------
(* What the backends implement *)

Abstract == INSTANCE AtLeastOnceQueue
    WITH GiveUpAfter <- 1, promised <- sent \ swallowed,
         held <- Delayed \cup ready \cup Leased \cup gone,
         dead <- discarded \cup dropped

\* Every backend is an at-least-once queue that gives a message up only when a
\* Delivery of it is rejected for good or dropped in memory.  What is left in a
\* channel without a receiver counts as held: nobody will be handed it.
Implements == Abstract!Spec

=============================================================================
