---------------------------- MODULE RedisStreams ----------------------------
(***************************************************************************)
(* The main queue of the Redis backend on top of a Redis stream            *)
(* (backends/redis/streams.rs): producers XADD entries, consumers          *)
(* XREADGROUP them into the group's pending list and ack or nack them, and *)
(* one background task per process claims the pending entries whose ack    *)
(* deadline has passed and puts them back on the stream, or on the dead    *)
(* letter list once they have been received too often.                     *)
(*                                                                         *)
(* Every step is one Redis command, the unit in which clients interleave:  *)
(* the pipelines of the code (redis::pipe() without atomic()) are batches  *)
(* on the wire, not transactions.  A call that fails, or whose reply is    *)
(* lost, is charged to a budget of faults.  The idle time of a pending     *)
(* entry is reduced to the one fact the code uses, whether it has reached  *)
(* ack_deadline_ms.                                                        *)
(*                                                                         *)
(* A definition written just above another with the same parameters        *)
(* (XackIgnored above Xack) is a faulty variant of it, used only to see    *)
(* that the properties notice the fault.                                   *)
(***************************************************************************)
EXTENDS Integers, Sequences, FiniteSets

CONSTANTS
    Payloads,          \* the payloads of messages; a message is known by its payload
    Undecodable,       \* payloads of entries other software wrote without the payload field
    Workers,           \* the processes' background_task_pending tasks
    UseDlq,            \* is dlq_config set?
    MaxReceives,       \* dlq_config.max_receives
    PendingBatchSize,  \* the COUNT of XAUTOCLAIM
    MaxMessages,       \* largest max_messages a consumer asks for
    MaxEntries,        \* bound: entries ever added to the stream
    MaxDeadLetters,    \* bound: length of the dead letter list
    MaxFaults          \* bound: failed calls and lost replies

ASSUME StreamsAssumption ==
    /\ Undecodable \subseteq Payloads
    /\ UseDlq \in BOOLEAN
    /\ MaxReceives \in Nat
    /\ PendingBatchSize \in Nat \ {0}
    /\ MaxMessages \in Nat \ {0}
    /\ MaxEntries \in Nat
    /\ MaxDeadLetters \in Nat
    /\ MaxFaults \in Nat

VARIABLES
    \* the Redis server
    stream,         \* entries of the stream; their ids give the order
    lastId,         \* the last id XADD * generated
    lastDelivered,  \* the consumer group's last-delivered-id
    pel,            \* ids in the group's pending entries list
    stale,          \* pending ids idle for at least ack_deadline_ms
    dlq,            \* the dead letter list
    \* the processes
    deliveries,     \* Delivery values in the hands of consumers
    pc,             \* where each background task is
    batch,          \* what its last XAUTOCLAIM returned
    todo,           \* the part of batch its loop has not reached
    pipe,           \* the entries waiting in its pipeline of XADDs
    faults,         \* faults so far
    \* history: records the past, read by no action
    sent,           \* payloads whose send returned Ok
    acked,          \* payloads for which the XACK of a consumer's ack ran
    receives,       \* how often XREADGROUP handed out each payload
    late            \* payloads that missed a deadline or whose send was in doubt

serverVars  == <<stream, lastId, lastDelivered, pel, stale, dlq>>
workerVars  == <<pc, batch, todo, pipe>>
historyVars == <<sent, acked, receives, late>>
vars == <<stream, lastId, lastDelivered, pel, stale, dlq, deliveries,
          pc, batch, todo, pipe, faults, sent, acked, receives, late>>

-----------------------------------------------------------------------------
(* Values *)

Entry == [id : Nat \ {0}, payload : Payloads, num_receives : Nat]

\* held:  with the caller, no call in progress (also after a call that failed)
\* rpush: nack has read the entry and is about to push it to the dead letter list
\* xack:  nack is about to acknowledge the entry
\* xdel:  acknowledged, about to delete the entry
Phase == {"held", "rpush", "xack", "xdel"}

Delivery == [id : Nat \ {0}, payload : Payloads, num_receives : Nat \ {0}, phase : Phase]

WorkerState == {"idle", "scan", "rpush", "xdel"}

TypeOK ==
    /\ stream \subseteq Entry
    /\ IsFiniteSet(stream)
    /\ lastId \in Nat
    /\ lastDelivered \in Nat
    /\ pel \subseteq Nat
    /\ stale \subseteq pel
    /\ dlq \in Seq(Payloads)
    /\ deliveries \subseteq Delivery
    /\ pc \in [Workers -> WorkerState]
    /\ batch \in [Workers -> SUBSET Entry]
    /\ todo \in [Workers -> SUBSET Entry]
    /\ pipe \in [Workers -> SUBSET Entry]
    /\ faults \in 0..MaxFaults
    /\ sent \subseteq Payloads
    /\ acked \subseteq Payloads
    /\ receives \in [Payloads -> Nat]
    /\ late \subseteq Payloads

Ids(S) == {e.id : e \in S}

\* The n entries of S with the lowest ids: Redis walks a stream, and a pending
\* list, in the order of the ids.
FirstOf(S, n) == {e \in S : Cardinality({f \in S : f.id < e.id}) < n}

IsOldest(e, S) == e \in S /\ \A f \in S : e.id <= f.id

DeadLetters == {dlq[i] : i \in DOMAIN dlq}

\* DeadLetterQueueConfig::max_retries_reached, FALSE without a dlq_config.
MaxRetriesExceeded(n) == UseDlq /\ n > MaxReceives
MaxRetriesReached(n) == UseDlq /\ n >= MaxReceives

\* internal_from_stream: the number of receives, this one included.  An entry
\* without the num_receives field counts like one that stores 0.
NumReceivesAhead(e) == e.num_receives + 2
NumReceivesStored(e) == e.num_receives
NumReceives(e) == e.num_receives + 1

Decodable(e) == e.payload \notin Undecodable

\* An entry XREADGROUP has yet to hand out, or XAUTOCLAIM can still claim.
Live(e) == e.id > lastDelivered \/ e.id \in pel

\* What XREADGROUP ">" looks at, and XAUTOCLAIM with ack_deadline_ms.
Fresh == {e \in stream : e.id > lastDelivered}
TimedOutAnyIdleTime == {e \in stream : e.id \in pel}
TimedOut == {e \in stream : e.id \in stale}

-----------------------------------------------------------------------------
(* Redis commands *)

Xadd(p, n) ==
    /\ lastId < MaxEntries
    /\ lastId' = lastId + 1
    /\ stream' = stream \cup {[id |-> lastId + 1, payload |-> p, num_receives |-> n]}

XackIgnored(ids) == UNCHANGED <<pel, stale>>
Xack(ids) ==
    /\ pel' = pel \ ids
    /\ stale' = stale \ ids

Xdel(ids) == stream' = {e \in stream : e.id \notin ids}

Rpush(p) ==
    /\ Len(dlq) < MaxDeadLetters
    /\ dlq' = Append(dlq, p)

InStream(i) == \E e \in stream : e.id = i

Fault ==
    /\ faults < MaxFaults
    /\ faults' = faults + 1

-----------------------------------------------------------------------------
Init ==
    /\ stream = {}
    /\ lastId = 0
    /\ lastDelivered = 0
    /\ pel = {}
    /\ stale = {}
    /\ dlq = <<>>
    /\ deliveries = {}
    /\ pc = [w \in Workers |-> "idle"]
    /\ batch = [w \in Workers |-> {}]
    /\ todo = [w \in Workers |-> {}]
    /\ pipe = [w \in Workers |-> {}]
    /\ faults = 0
    /\ sent = {}
    /\ acked = {}
    /\ receives = [p \in Payloads |-> 0]
    /\ late = {}

(* Producers *)

\* send_raw returns Ok.
Send(p) ==
    /\ p \notin Undecodable \cup sent
    /\ Xadd(p, 0)
    /\ sent' = sent \cup {p}
    /\ UNCHANGED <<lastDelivered, pel, stale, dlq, deliveries, workerVars,
                   faults, acked, receives, late>>

\* send_raw returns an error after Redis ran the XADD; the caller may try again.
SendReplyLost(p) ==
    /\ p \notin Undecodable \cup sent
    /\ Fault
    /\ Xadd(p, 0)
    /\ late' = late \cup {p}
    /\ UNCHANGED <<lastDelivered, pel, stale, dlq, deliveries, workerVars,
                   sent, acked, receives>>

\* Other software adds an entry the consumers cannot decode.
ForeignAdd(p) ==
    /\ p \in Undecodable
    /\ \A e \in stream : e.payload # p
    /\ Xadd(p, 0)
    /\ UNCHANGED <<lastDelivered, pel, stale, dlq, deliveries, workerVars,
                   faults, historyVars>>

(* Consumers *)

\* receive (n = 1) and receive_all: one XREADGROUP ">" COUNT n.  An entry that
\* does not decode fails the whole call: everything read is pending then and
\* the caller has nothing.  A lost reply is this step followed by Drop.
Receive(n) ==
    LET new == FirstOf(Fresh, n)
    IN  \E last \in new :
          /\ \A e \in new : e.id <= last.id
          /\ lastDelivered' = last.id
          /\ pel' = pel \cup Ids(new)
          /\ deliveries' =
               IF \A e \in new : Decodable(e)
               THEN deliveries \cup
                    {[id |-> e.id, payload |-> e.payload,
                      num_receives |-> NumReceives(e), phase |-> "held"] : e \in new}
               ELSE deliveries
          /\ receives' = [p \in Payloads |->
                            receives[p] + Cardinality({e \in new : e.payload = p})]
          /\ UNCHANGED <<stream, lastId, stale, dlq, workerVars, faults,
                         sent, acked, late>>

SetPhase(d, ph) ==
    deliveries' = (deliveries \ {d}) \cup {[d EXCEPT !.phase = ph]}

\* ack: XACK, then XDEL.
Ack(d) ==
    /\ d.phase = "held"
    /\ Xack({d.id})
    /\ acked' = acked \cup {d.payload}
    /\ SetPhase(d, "xdel")
    /\ UNCHANGED <<stream, lastId, lastDelivered, dlq, workerVars, faults,
                   sent, receives, late>>

\* The XDEL that ends ack, and the nack of an exhausted message: the call
\* returns Ok and the Delivery is consumed.
AckXdel(d) ==
    /\ d.phase = "xdel"
    /\ Xdel({d.id})
    /\ deliveries' = deliveries \ {d}
    /\ UNCHANGED <<lastId, lastDelivered, pel, stale, dlq, workerVars, faults,
                   historyVars>>

\* nack below max_receives: only the flag of the acker is set, and the Delivery
\* is consumed; the entry waits for its deadline.
Nack(d) ==
    /\ d.phase = "held"
    /\ ~MaxRetriesReached(d.num_receives)
    /\ deliveries' = deliveries \ {d}
    /\ UNCHANGED <<serverVars, workerVars, faults, historyVars>>

\* nack at max_receives: send_to_dlq reads the entry (XRANGE).  If it is gone
\* the call returns NoData and changes nothing.
NackExhaustedAcksFirst(d) ==
    /\ d.phase = "held"
    /\ MaxRetriesReached(d.num_receives)
    /\ InStream(d.id)
    /\ SetPhase(d, "xack")
    /\ UNCHANGED <<serverVars, workerVars, faults, historyVars>>
NackExhausted(d) ==
    /\ d.phase = "held"
    /\ MaxRetriesReached(d.num_receives)
    /\ InStream(d.id)
    /\ SetPhase(d, "rpush")
    /\ UNCHANGED <<serverVars, workerVars, faults, historyVars>>

NackRpush(d) ==
    /\ d.phase = "rpush"
    /\ Rpush(d.payload)
    /\ SetPhase(d, "xack")
    /\ UNCHANGED <<stream, lastId, lastDelivered, pel, stale, workerVars,
                   faults, historyVars>>

NackXack(d) ==
    /\ d.phase = "xack"
    /\ Xack({d.id})
    /\ SetPhase(d, "xdel")
    /\ UNCHANGED <<stream, lastId, lastDelivered, dlq, workerVars, faults,
                   historyVars>>

\* ack or nack fails half way: the caller gets the Delivery back to retry.
CallFails(d) ==
    /\ d.phase # "held"
    /\ Fault
    /\ SetPhase(d, "held")
    /\ UNCHANGED <<serverVars, workerVars, historyVars>>

\* The XDEL ran and its reply is lost.
AckReplyLost(d) ==
    /\ d.phase = "xdel"
    /\ Fault
    /\ Xdel({d.id})
    /\ SetPhase(d, "held")
    /\ UNCHANGED <<lastId, lastDelivered, pel, stale, dlq, workerVars, historyVars>>

\* The consumer crashes, drops the Delivery, or cancels the call it is in.
Drop(d) ==
    /\ deliveries' = deliveries \ {d}
    /\ UNCHANGED <<serverVars, workerVars, faults, historyVars>>

\* A pending entry has been idle for ack_deadline_ms.
Deadline(i) ==
    \E e \in stream :
        /\ e.id = i
        /\ i \in pel \ stale
        /\ stale' = stale \cup {i}
        /\ late' = late \cup {e.payload}
        /\ UNCHANGED <<stream, lastId, lastDelivered, pel, dlq, deliveries,
                       workerVars, faults, sent, acked, receives>>

(* reenqueue_timed_out_messages, run in a loop by background_task_pending *)

\* The call returns, with Ok or with an error that is only logged: all its
\* state is local and goes.
RestartKeepsPipe(w) ==
    /\ pc' = [pc EXCEPT ![w] = "idle"]
    /\ batch' = [batch EXCEPT ![w] = {}]
    /\ todo' = [todo EXCEPT ![w] = {}]
    /\ UNCHANGED pipe
Restart(w) ==
    /\ pc' = [pc EXCEPT ![w] = "idle"]
    /\ batch' = [batch EXCEPT ![w] = {}]
    /\ todo' = [todo EXCEPT ![w] = {}]
    /\ pipe' = [pipe EXCEPT ![w] = {}]

\* XAUTOCLAIM from "-": claiming resets the idle time.  With nothing to claim
\* the task sleeps and asks again, which changes nothing.
Autoclaim(w) ==
    LET claimed == FirstOf(TimedOut, PendingBatchSize)
    IN  /\ pc[w] = "idle"
        /\ claimed # {}
        /\ stale' = stale \ Ids(claimed)
        /\ pc' = [pc EXCEPT ![w] = "scan"]
        /\ batch' = [batch EXCEPT ![w] = claimed]
        /\ todo' = [todo EXCEPT ![w] = claimed]
        /\ UNCHANGED <<stream, lastId, lastDelivered, pel, dlq, deliveries,
                       pipe, faults, historyVars>>

\* The loop puts a message that may be retried into the pipeline.
Enpipe(w) ==
    \E e \in todo[w] :
        /\ pc[w] = "scan"
        /\ IsOldest(e, todo[w])
        /\ Decodable(e)
        /\ ~MaxRetriesReached(NumReceives(e))
        /\ pipe' = [pipe EXCEPT ![w] = @ \cup {e}]
        /\ todo' = [todo EXCEPT ![w] = @ \ {e}]
        /\ UNCHANGED <<serverVars, deliveries, pc, batch, faults, historyVars>>

\* The loop finds an exhausted message; send_to_dlq reads it back (XRANGE).
FindExhausted(w) ==
    \E e \in todo[w] :
        /\ pc[w] = "scan"
        /\ IsOldest(e, todo[w])
        /\ Decodable(e)
        /\ MaxRetriesReached(NumReceives(e))
        /\ InStream(e.id)
        /\ pc' = [pc EXCEPT ![w] = "rpush"]
        /\ UNCHANGED <<serverVars, deliveries, batch, todo, pipe, faults, historyVars>>

\* send_to_dlq pushes it (RPUSH) and the loop goes on.
WorkerRpush(w) ==
    \E e \in todo[w] :
        /\ pc[w] = "rpush"
        /\ IsOldest(e, todo[w])
        /\ Rpush(e.payload)
        /\ todo' = [todo EXCEPT ![w] = @ \ {e}]
        /\ pc' = [pc EXCEPT ![w] = "scan"]
        /\ UNCHANGED <<stream, lastId, lastDelivered, pel, stale, deliveries,
                       batch, pipe, faults, historyVars>>

\* One entry that does not decode, or that is gone when send_to_dlq looks for
\* it, ends the call with an error before anything in the pipeline is sent.
AbortBatch(w) ==
    \E e \in todo[w] :
        /\ pc[w] = "scan"
        /\ IsOldest(e, todo[w])
        /\ \/ ~Decodable(e)
           \/ MaxRetriesReached(NumReceives(e)) /\ ~InStream(e.id)
        /\ Restart(w)
        /\ UNCHANGED <<serverVars, deliveries, faults, historyVars>>

\* After the loop, the pipelined XADDs: a new entry with the receives so far.
XaddCopy(w) ==
    \E e \in pipe[w] :
        /\ pc[w] = "scan"
        /\ todo[w] = {}
        /\ IsOldest(e, pipe[w])
        /\ Xadd(e.payload, NumReceives(e))
        /\ pipe' = [pipe EXCEPT ![w] = @ \ {e}]
        /\ UNCHANGED <<lastDelivered, pel, stale, dlq, deliveries, pc, batch,
                       todo, faults, historyVars>>

\* Then one XACK of every claimed id.
XackBatchBeforeXadd(w) ==
    /\ pc[w] = "scan"
    /\ todo[w] = {}
    /\ Xack(Ids(batch[w]))
    /\ pc' = [pc EXCEPT ![w] = "xdel"]
    /\ UNCHANGED <<stream, lastId, lastDelivered, dlq, deliveries, batch, todo,
                   pipe, faults, historyVars>>
XackBatch(w) ==
    /\ pc[w] = "scan"
    /\ todo[w] = {}
    /\ pipe[w] = {}
    /\ Xack(Ids(batch[w]))
    /\ pc' = [pc EXCEPT ![w] = "xdel"]
    /\ UNCHANGED <<stream, lastId, lastDelivered, dlq, deliveries, batch, todo,
                   pipe, faults, historyVars>>

\* And one XDEL.
XdelBatch(w) ==
    /\ pc[w] = "xdel"
    /\ Xdel(Ids(batch[w]))
    /\ Restart(w)
    /\ UNCHANGED <<lastId, lastDelivered, pel, stale, dlq, deliveries, faults,
                   historyVars>>

\* A command of the task fails, or its process crashes and is started again.
WorkerFails(w) ==
    /\ pc[w] # "idle"
    /\ Fault
    /\ Restart(w)
    /\ UNCHANGED <<serverVars, deliveries, historyVars>>

-----------------------------------------------------------------------------
Producer(p) == Send(p) \/ SendReplyLost(p) \/ ForeignAdd(p)

Handle(d) ==
    \/ Ack(d) \/ AckXdel(d) \/ AckReplyLost(d)
    \/ Nack(d) \/ NackExhausted(d) \/ NackRpush(d) \/ NackXack(d)
    \/ CallFails(d) \/ Drop(d)

Worker(w) ==
    \/ Autoclaim(w) \/ Enpipe(w) \/ FindExhausted(w) \/ WorkerRpush(w)
    \/ AbortBatch(w) \/ XaddCopy(w) \/ XackBatch(w) \/ XdelBatch(w)

Next ==
    \/ \E p \in Payloads : Producer(p)
    \/ \E n \in 1..MaxMessages : Receive(n)
    \/ \E d \in deliveries : Handle(d)
    \/ \E i \in pel : Deadline(i)
    \/ \E w \in Workers : Worker(w) \/ WorkerFails(w)

Spec == Init /\ [][Next]_vars

\* Time passes, a consumer polls, and the background tasks are scheduled.
\* Nothing is asked of the code that holds a Delivery: it may sit on it.
Fairness ==
    /\ WF_vars(Receive(1))
    /\ \A i \in 1..MaxEntries : WF_vars(i \in pel /\ Deadline(i))
    /\ \A w \in Workers : WF_vars(Worker(w))

FairSpec == Spec /\ Fairness

-----------------------------------------------------------------------------
(* Properties *)

\* Nobody has to do anything for the message any more.
Settled(p) == p \in acked \/ p \in DeadLetters

\* No message is lost: a message whose send returned Ok has been acked by a
\* consumer, is on the dead letter list, or is in an entry that is still to be
\* delivered or can still be claimed.  It holds across failed calls and crashes
\* because reenqueue_timed_out_messages and nack write the new place of a
\* message before they XACK the old one.
NoLoss ==
    \A p \in sent :
        Settled(p) \/ \E e \in stream : e.payload = p /\ Live(e)

\* max_receives is a bound on the attempts of every copy of a message: no
\* Delivery is handed out whose count exceeds it, whichever of nack and the
\* background task saw the message last.
ReceivesBounded ==
    UseDlq => \A d \in deliveries : d.num_receives <= MaxReceives \/ d.num_receives = 1

\* A message is on the dead letter list only if Redis handed it out
\* max_receives times: num_receives, carried from copy to copy, never runs
\* ahead of the receives that took place.
DeadLetterNotEarly ==
    \A p \in DeadLetters : receives[p] >= MaxReceives

\* Duplicates have a cause: a message that never missed its ack deadline, and
\* whose send was not in doubt, is handed out at most once.
OnceWhenTimely ==
    \A p \in sent \ late : receives[p] <= 1

\* background_task_pending "scoops up messages that have been claimed but not
\* handled by a deadline, then re-queues them": an entry that is pending past
\* its deadline leaves the pending list in the end, and whatever is left of its
\* message is then in a new entry, dead-lettered or acked (NoLoss).
TimedOutRequeued ==
    \A i \in 1..MaxEntries :
        (\E e \in stream : e.id = i /\ Decodable(e) /\ i \in stale) ~> i \notin pel

\* With a dead letter queue every message sent is settled in the end, acked or
\* dead-lettered, even if every consumer drops what it receives.
EventuallySettled ==
    \A p \in Payloads : p \in sent ~> Settled(p)

-----------------------------------------------------------------------------
(***************************************************************************)
(* Why the invariants hold.  IdsOK, BatchOK and DeliveriesOK say what the  *)
(* memory of consumers and background tasks, which other clients do not    *)
(* see, still means in the server; Covered is the heart of NoLoss.         *)
(***************************************************************************)

\* Ids are unique and grow; only entries handed out are pending, and they are
\* in the stream: every XDEL comes after an XACK of the same id.
IdsOK ==
    /\ \A e \in stream : e.id <= lastId
    /\ \A e, f \in stream : e.id = f.id => e = f
    /\ lastDelivered <= lastId
    /\ \A i \in pel : i <= lastDelivered /\ InStream(i)

BatchOK ==
    \A w \in Workers :
        /\ todo[w] \cup pipe[w] \subseteq batch[w]
        /\ pc[w] = "idle" => batch[w] = {}
        /\ \A e \in batch[w] : e.id <= lastDelivered
        /\ \A e \in batch[w], f \in batch[w] \cup stream : e.id = f.id => e = f
        /\ pc[w] = "xdel" => \A e \in batch[w] : e.id \notin pel

DeliveriesOK ==
    \A d \in deliveries :
        /\ d.id <= lastDelivered
        /\ \A f \in stream : f.id = d.id => f.payload = d.payload
        /\ d.phase = "xack" => d.payload \in DeadLetters
        /\ d.phase = "xdel" => d.id \notin pel

PlacedAbove(p, S) ==
    \/ Settled(p)
    \/ \E f \in stream : f.payload = p /\ Live(f) /\ \A g \in S : f.id > g.id

\* What of a claimed batch is neither ahead of the loop nor in the pipeline has
\* a new place.  A new entry is above the whole batch: a later batch that
\* claims it, and acknowledges it, in turn leaves its own copy above that.
Covered ==
    \A w \in Workers : \A e \in batch[w] \ (todo[w] \cup pipe[w]) :
        PlacedAbove(e.payload, batch[w])

\* The stored counts never run ahead of the receives that took place ...
CountsOK ==
    /\ \A e \in stream :
          /\ e.num_receives <= receives[e.payload]
          /\ e.id <= lastDelivered => NumReceives(e) <= receives[e.payload]
    /\ \A w \in Workers : \A e \in batch[w] : NumReceives(e) <= receives[e.payload]
    /\ \A d \in deliveries : d.num_receives <= receives[d.payload]
    /\ \A d \in deliveries : d.phase = "rpush" => MaxRetriesReached(d.num_receives)
    /\ \A w \in Workers : \A e \in todo[w] :
          pc[w] = "rpush" /\ IsOldest(e, todo[w]) => MaxRetriesReached(NumReceives(e))

\* ... and only what may be received once more is written back.
RetriesOK ==
    /\ \A e \in stream : ~MaxRetriesReached(e.num_receives) \/ e.num_receives = 0
    /\ \A w \in Workers : \A e \in pipe[w] : ~MaxRetriesReached(NumReceives(e))

\* While a message is on time it has one entry, and no background task has it.
TimelyOK ==
    /\ sent \cap Undecodable = {}
    /\ \A e \in stream : e.id \in stale => e.payload \in late
    /\ \A w \in Workers : \A e \in batch[w] : e.payload \in late
    /\ \A p \in Payloads \ (late \cup Undecodable) :
          /\ \A e, f \in stream : e.payload = p /\ f.payload = p => e = f
          /\ p \notin sent => receives[p] = 0 /\ \A e \in stream : e.payload # p
          /\ \A e \in stream : e.payload = p /\ e.id > lastDelivered => receives[p] = 0

\* Everything the clients remember fits what the server holds, and with it the
\* safety properties above: the inductive invariant of RedisStreamsProofs, here
\* over batches in which any entry can be the one that fails or aborts the call.
StreamsInv ==
    /\ TypeOK
    /\ IdsOK
    /\ BatchOK
    /\ DeliveriesOK
    /\ Covered
    /\ NoLoss
    /\ CountsOK
    /\ DeadLetterNotEarly
    /\ RetriesOK
    /\ ReceivesBounded
    /\ TimelyOK
    /\ OnceWhenTimely

-----------------------------------------------------------------------------
(* What the stream implements *)

HeldPayloads == {e.payload : e \in {f \in stream : Live(f)}}

Abstract == INSTANCE AtLeastOnceQueue
    WITH Messages <- Payloads, GiveUpAfter <- MaxReceives,
         promised <- sent, held <- HeldPayloads, dead <- DeadLetters

\* The stream, its group and the tasks together are an at-least-once queue: the
\* commands of a call, and of reenqueue_timed_out_messages, show as one change
\* of what the caller may count on, at whichever of them it takes place, and a
\* call that ends between two commands leaves no state the queue may not have.
Implements == Abstract!Spec

=============================================================================
