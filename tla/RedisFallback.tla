---------------------------- MODULE RedisFallback ----------------------------
(***************************************************************************)
(* The main queue of the Redis backend on two lists, for Redis before      *)
(* 6.2.0 (backends/redis/fallback.rs): producers LPUSH keys on the main    *)
(* list, consumers BRPOPLPUSH them to the processing list and LREM them    *)
(* from it to ack, and one background task per process moves what stays on *)
(* the processing list back to the main list or to the dead letter list.   *)
(*                                                                         *)
(* A key is what internal_to_list_payload writes: a fresh ksuid (here the  *)
(* number of the key), the number of receives and the payload.  A ksuid    *)
(* sorts by the second in which it was made and, within it, at random, so  *)
(* of time the model has the set of keys that sort before now minus        *)
(* ack_deadline; keys get there in any order.  Every step is one Redis     *)
(* command.                                                                *)
(*                                                                         *)
(* A definition written just above another with the same parameters is a   *)
(* faulty variant of it, used only to see that the properties notice.      *)
(***************************************************************************)
EXTENDS Integers, Sequences, SequencesExt

CONSTANTS
    Payloads,     \* the payloads of messages; a message is known by its payload
    Malformed,    \* payloads of keys other software wrote, rejected by internal_from_list
    Workers,      \* the processes' background_task_processing tasks
    UseDlq,       \* is dlq_config set?
    MaxReceives,  \* dlq_config.max_receives
    BatchSize,    \* BATCH_SIZE
    MaxKeys,      \* bound: keys ever made
    MaxFaults     \* bound: failed calls and lost replies

ASSUME FallbackAssumption ==
    /\ Malformed \subseteq Payloads
    /\ UseDlq \in BOOLEAN
    /\ MaxReceives \in Nat
    /\ BatchSize \in Nat \ {0}
    /\ MaxKeys \in Nat
    /\ MaxFaults \in Nat

VARIABLES
    \* the Redis server; lists are written from head to tail
    main,        \* the list queue_key
    processing,  \* the list processing_queue_key
    dlq,         \* the payloads on the dead letter list
    \* time
    lastId,      \* the last ksuid made
    aged,        \* the ksuids that sort before now - ack_deadline
    \* the processes
    deliveries,  \* Delivery values in the hands of consumers
    pc,          \* where each background task is
    todo,        \* the keys it has read and not dealt with
    limit,       \* its validity_limit
    faults,      \* faults so far
    \* history: records the past, read by no action
    sent,        \* payloads whose send returned Ok
    acked,       \* payloads for which the LREM of a consumer's ack ran
    receives,    \* how often BRPOPLPUSH handed out each payload
    late         \* payloads unacked for ack_deadline after a receive, or sent in doubt

listVars    == <<main, processing, dlq>>
timeVars    == <<lastId, aged>>
taskVars    == <<pc, todo, limit>>
historyVars == <<sent, acked, receives, late>>
vars == <<main, processing, dlq, lastId, aged, deliveries, pc, todo, limit,
          faults, sent, acked, receives, late>>

-----------------------------------------------------------------------------
(* Values *)

Key == [id : Nat \ {0}, payload : Payloads, num_receives : Nat]

\* held: with the caller, no call in progress (also after a call that failed)
\* lrem: nack has pushed the payload to the dead letter list
Delivery == [key : Key, phase : {"held", "lrem"}]

TaskState == {"idle", "clock", "fetch", "scan", "lrem"}

TypeOK ==
    /\ main \in Seq(Key)
    /\ processing \in Seq(Key)
    /\ dlq \subseteq Payloads
    /\ lastId \in Nat
    /\ aged \subseteq 1..lastId
    /\ deliveries \subseteq Delivery
    /\ pc \in [Workers -> TaskState]
    /\ todo \in [Workers -> Seq(Key)]
    /\ limit \in [Workers -> SUBSET (1..lastId)]
    /\ faults \in 0..MaxFaults
    /\ sent \subseteq Payloads
    /\ acked \subseteq Payloads
    /\ receives \in [Payloads -> Nat]
    /\ late \subseteq Payloads

Listed == ToSet(main) \cup ToSet(processing)

\* DeadLetterQueueConfig::max_retries_reached, FALSE without a dlq_config.
MaxRetriesExceeded(n) == UseDlq /\ n > MaxReceives
MaxRetriesReached(n) == UseDlq /\ n >= MaxReceives

\* internal_from_list: the number of receives, this one included.
NumReceivesAhead(k) == k.num_receives + 2
NumReceives(k) == k.num_receives + 1

WellFormed(k) == k.payload \notin Malformed

\* internal_to_list_payload: a key always gets a fresh ksuid.
NewKey(p, n) == [id |-> lastId + 1, payload |-> p, num_receives |-> n]

MakesKey ==
    /\ lastId < MaxKeys
    /\ lastId' = lastId + 1

\* LREM 1 by value; the ksuid makes the value unique.
WithoutTail(l, k) == IF l = <<>> THEN l ELSE Front(l)
Without(l, k) == RemoveFirst(l, k)

\* LRANGE -n -1.
LastOf(l, n) == SubSeq(l, IF Len(l) > n THEN Len(l) - n + 1 ELSE 1, Len(l))

\* What is left of a batch when the loop has passed over the keys that are not
\* below its limit.
FromDue(l, ids) ==
    LET due == {i \in DOMAIN l : l[i].id \in ids}
    IN  IF due = {} THEN <<>> ELSE SubSeq(l, Min(due), Len(l))

Fault ==
    /\ faults < MaxFaults
    /\ faults' = faults + 1

-----------------------------------------------------------------------------
Init ==
    /\ main = <<>>
    /\ processing = <<>>
    /\ dlq = {}
    /\ lastId = 0
    /\ aged = {}
    /\ deliveries = {}
    /\ pc = [w \in Workers |-> "idle"]
    /\ todo = [w \in Workers |-> <<>>]
    /\ limit = [w \in Workers |-> {}]
    /\ faults = 0
    /\ sent = {}
    /\ acked = {}
    /\ receives = [p \in Payloads |-> 0]
    /\ late = {}

(* Producers *)

\* The LPUSH of send_raw.
LpushAtTail(p) ==
    /\ MakesKey
    /\ main' = Append(main, NewKey(p, 0))
    /\ UNCHANGED <<processing, dlq, aged, deliveries, taskVars, acked, receives>>
Lpush(p) ==
    /\ MakesKey
    /\ main' = <<NewKey(p, 0)>> \o main
    /\ UNCHANGED <<processing, dlq, aged, deliveries, taskVars, acked, receives>>

\* send_raw returns Ok.
Send(p) ==
    /\ p \notin Malformed \cup sent
    /\ Lpush(p)
    /\ sent' = sent \cup {p}
    /\ UNCHANGED <<faults, late>>

\* send_raw returns an error after Redis ran the LPUSH; the caller may try again.
SendReplyLost(p) ==
    /\ p \notin Malformed \cup sent
    /\ Fault
    /\ Lpush(p)
    /\ late' = late \cup {p}
    /\ UNCHANGED sent

\* Other software pushes something that is no key.
ForeignAdd(p) ==
    /\ p \in Malformed
    /\ \A k \in Listed : k.payload # p
    /\ Lpush(p)
    /\ UNCHANGED <<faults, sent, late>>

(* Consumers *)

\* receive and receive_all: BRPOPLPUSH.  If what comes is no key the call fails
\* and leaves it on the processing list.  A lost reply is this step and Drop.
Receive ==
    /\ main # <<>>
    /\ LET k == Last(main)
       IN  /\ main' = Front(main)
           /\ processing' = <<k>> \o processing
           /\ deliveries' = IF WellFormed(k)
                            THEN deliveries \cup {[key |-> k, phase |-> "held"]}
                            ELSE deliveries
           /\ receives' = [receives EXCEPT ![k.payload] = @ + 1]
    /\ UNCHANGED <<dlq, timeVars, taskVars, faults, sent, acked, late>>

SetPhase(d, ph) ==
    deliveries' = (deliveries \ {d}) \cup {[d EXCEPT !.phase = ph]}

Lrem(k) == processing' = Without(processing, k)

\* ack: one LREM of the payload as it was received.
Ack(d) ==
    /\ d.phase = "held"
    /\ Lrem(d.key)
    /\ acked' = acked \cup {d.key.payload}
    /\ deliveries' = deliveries \ {d}
    /\ UNCHANGED <<main, dlq, timeVars, taskVars, faults, sent, receives, late>>

\* nack below max_receives: the Delivery is consumed, the key stays.
Nack(d) ==
    /\ d.phase = "held"
    /\ ~MaxRetriesReached(NumReceives(d.key))
    /\ deliveries' = deliveries \ {d}
    /\ UNCHANGED <<listVars, timeVars, taskVars, faults, historyVars>>

\* nack at max_receives: RPUSH to the dead letter list ...
NackRpushIgnoresError(d) ==
    /\ d.phase = "held"
    /\ MaxRetriesReached(NumReceives(d.key))
    /\ \/ dlq' = dlq \cup {d.key.payload} /\ UNCHANGED faults
       \/ Fault /\ UNCHANGED dlq
    /\ SetPhase(d, "lrem")
    /\ UNCHANGED <<main, processing, timeVars, taskVars, historyVars>>
NackRpush(d) ==
    /\ d.phase = "held"
    /\ MaxRetriesReached(NumReceives(d.key))
    /\ dlq' = dlq \cup {d.key.payload}
    /\ SetPhase(d, "lrem")
    /\ UNCHANGED <<main, processing, timeVars, taskVars, faults, historyVars>>

\* ... then ack.
NackLrem(d) ==
    /\ d.phase = "lrem"
    /\ Lrem(d.key)
    /\ deliveries' = deliveries \ {d}
    /\ UNCHANGED <<main, dlq, timeVars, taskVars, faults, historyVars>>

\* The LREM of an ack ran and its reply is lost: the caller gets the Delivery
\* back, and may also nack it now.
AckReplyLost(d) ==
    /\ d.phase = "held"
    /\ Fault
    /\ Lrem(d.key)
    /\ acked' = acked \cup {d.key.payload}
    /\ UNCHANGED <<main, dlq, timeVars, deliveries, taskVars, sent, receives, late>>

\* The LREM at the end of nack fails; whether it ran makes no difference but
\* to the processing list.
NackFails(d) ==
    /\ d.phase = "lrem"
    /\ Fault
    /\ Lrem(d.key) \/ UNCHANGED processing
    /\ SetPhase(d, "held")
    /\ UNCHANGED <<main, dlq, timeVars, taskVars, historyVars>>

\* The consumer crashes, drops the Delivery, or cancels the call it is in.
Drop(d) ==
    /\ deliveries' = deliveries \ {d}
    /\ UNCHANGED <<listVars, timeVars, taskVars, faults, historyVars>>

(* Time *)

\* ack_deadline has passed since a key was made.
Age(i) ==
    /\ i \in 1..lastId \ aged
    /\ aged' = aged \cup {i}
    /\ UNCHANGED <<listVars, lastId, deliveries, taskVars, faults, historyVars>>

\* A key has been on the processing list for ack_deadline since its receive; it
\* was made before that.
Deadline(k) ==
    /\ k.id \in aged
    /\ k.payload \notin late
    /\ late' = late \cup {k.payload}
    /\ UNCHANGED <<listVars, timeVars, deliveries, taskVars, faults, sent, acked, receives>>

(* reenqueue_timed_out_messages, run in a loop by background_task_processing *)

\* LRANGE -1 -1: the tail is what was received first.  With an empty list the
\* task sleeps and asks again.
Peek(w) ==
    /\ pc[w] = "idle"
    /\ processing # <<>>
    /\ todo' = [todo EXCEPT ![w] = <<Last(processing)>>]
    /\ pc' = [pc EXCEPT ![w] = "clock"]
    /\ UNCHANGED <<listVars, timeVars, deliveries, limit, faults, historyVars>>

\* The call returns, with Ok or with an error that is only logged: all its
\* state is local and goes.
Restart(w) ==
    /\ pc' = [pc EXCEPT ![w] = "idle"]
    /\ todo' = [todo EXCEPT ![w] = <<>>]
    /\ limit' = [limit EXCEPT ![w] = {}]

\* validity_limit, and the comparison of the tail with it.
ReadClock(w) ==
    /\ pc[w] = "clock"
    /\ \/ /\ todo[w][1].id \in aged
          /\ limit' = [limit EXCEPT ![w] = aged]
          /\ pc' = [pc EXCEPT ![w] = "fetch"]
          /\ UNCHANGED todo
       \/ /\ todo[w][1].id \notin aged
          /\ Restart(w)
    /\ UNCHANGED <<listVars, timeVars, deliveries, faults, historyVars>>

\* LRANGE -BATCH_SIZE -1, and the loop goes to the first key below the limit; of
\* the limit it needs what it says of the batch.
Fetch(w) ==
    LET keys == FromDue(LastOf(processing, BatchSize), limit[w])
    IN  /\ pc[w] = "fetch"
        /\ todo' = [todo EXCEPT ![w] = keys]
        /\ limit' = [limit EXCEPT ![w] = @ \cap {k.id : k \in ToSet(keys)}]
        /\ pc' = [pc EXCEPT ![w] = "scan"]
        /\ UNCHANGED <<listVars, timeVars, deliveries, faults, historyVars>>

\* The loop moves a key, RPUSH to the end of the main list that is received
\* from, or to the dead letter list.
MoveToMainIgnoresError(w) ==
    LET k == Head(todo[w])
    IN  /\ pc[w] = "scan" /\ todo[w] # <<>>
        /\ WellFormed(k)
        /\ ~MaxRetriesReached(NumReceives(k))
        /\ \/ /\ MakesKey
              /\ main' = Append(main, NewKey(k.payload, NumReceives(k)))
              /\ UNCHANGED faults
           \/ Fault /\ UNCHANGED <<main, lastId>>
        /\ pc' = [pc EXCEPT ![w] = "lrem"]
        /\ UNCHANGED <<processing, dlq, aged, deliveries, todo, limit, historyVars>>
MoveToMain(w) ==
    LET k == Head(todo[w])
    IN  /\ pc[w] = "scan" /\ todo[w] # <<>>
        /\ WellFormed(k)
        /\ ~MaxRetriesReached(NumReceives(k))
        /\ MakesKey
        /\ main' = Append(main, NewKey(k.payload, NumReceives(k)))
        /\ pc' = [pc EXCEPT ![w] = "lrem"]
        /\ UNCHANGED <<processing, dlq, aged, deliveries, todo, limit, faults, historyVars>>

MoveToDlq(w) ==
    LET k == Head(todo[w])
    IN  /\ pc[w] = "scan" /\ todo[w] # <<>>
        /\ WellFormed(k)
        /\ MaxRetriesReached(NumReceives(k))
        /\ dlq' = dlq \cup {k.payload}
        /\ pc' = [pc EXCEPT ![w] = "lrem"]
        /\ UNCHANGED <<main, processing, timeVars, deliveries, todo, limit, faults, historyVars>>

\* LREM of the key the loop has just moved; it goes on to the next.
LremHead(w) ==
    /\ pc[w] = "lrem"
    /\ Lrem(Head(todo[w]))
    /\ todo' = [todo EXCEPT ![w] = FromDue(Tail(@), limit[w])]
    /\ pc' = [pc EXCEPT ![w] = "scan"]
    /\ UNCHANGED <<main, dlq, timeVars, deliveries, limit, faults, historyVars>>

\* The loop ends, or internal_from_list rejects what is next.
EndOfCall(w) ==
    /\ pc[w] = "scan"
    /\ todo[w] # <<>> => ~WellFormed(Head(todo[w]))
    /\ Restart(w)
    /\ UNCHANGED <<listVars, timeVars, deliveries, faults, historyVars>>

\* A command of the task fails, or its process crashes and is started again.
WorkerFailsForGood(w) ==
    /\ pc[w] # "idle"
    /\ Fault
    /\ pc' = [pc EXCEPT ![w] = "stopped"]
    /\ UNCHANGED <<listVars, timeVars, deliveries, todo, limit, historyVars>>
WorkerFails(w) ==
    /\ pc[w] # "idle"
    /\ Fault
    /\ Restart(w)
    /\ UNCHANGED <<listVars, timeVars, deliveries, historyVars>>

-----------------------------------------------------------------------------
Producer(p) == Send(p) \/ SendReplyLost(p) \/ ForeignAdd(p)

Handle(d) ==
    \/ Ack(d) \/ AckReplyLost(d) \/ Drop(d)
    \/ Nack(d) \/ NackRpush(d) \/ NackLrem(d) \/ NackFails(d)

Worker(w) ==
    \/ Peek(w) \/ ReadClock(w) \/ Fetch(w)
    \/ MoveToMain(w) \/ MoveToDlq(w) \/ LremHead(w) \/ EndOfCall(w)

Next ==
    \/ \E p \in Payloads : Producer(p)
    \/ Receive
    \/ \E d \in deliveries : Handle(d)
    \/ \E i \in 1..lastId : Age(i)
    \/ \E k \in ToSet(processing) : Deadline(k)
    \/ \E w \in Workers : Worker(w) \/ WorkerFails(w)

Spec == Init /\ [][Next]_vars

\* Time passes, a consumer polls, and the background tasks are scheduled.
\* Nothing is asked of the code that holds a Delivery.
Fairness ==
    /\ WF_vars(Receive)
    /\ \A i \in 1..MaxKeys : WF_vars(Age(i))
    /\ \A w \in Workers : WF_vars(Worker(w))

FairSpec == Spec /\ Fairness

-----------------------------------------------------------------------------
(* Properties *)

Settled(p) == p \in acked \/ p \in dlq

\* No message is lost: a message whose send returned Ok has been acked, is on
\* the dead letter list, or a key with it is on the main or the processing
\* list, across failed calls, crashes and several background tasks that move
\* the same key, because the loop pushes the new key before it LREMs the old.
NoLoss ==
    \A p \in sent :
        Settled(p) \/ \E k \in Listed : k.payload = p

\* max_receives bounds the attempts of every copy of a message: no Delivery is
\* handed out beyond it, whichever of nack and background task saw it last.
ReceivesBounded ==
    UseDlq => \A d \in deliveries :
                NumReceives(d.key) <= MaxReceives \/ d.key.num_receives = 0

\* A message is dead-lettered only if it was handed out max_receives times: the
\* count that is carried from key to key never runs ahead.
DeadLetterNotEarly ==
    \A p \in dlq : receives[p] >= MaxReceives

\* First receives are in the order of the sends, whatever is put back, removed or
\* dead-lettered between them: fresh keys wait on the main list in the order in
\* which they were pushed, and none has been passed by a later one.  Of keys that
\* were put back it says nothing: they are RPUSHed to the end BRPOPLPUSH takes
\* from, and overtake the fresh ones.
FreshInOrder ==
    LET Fresh(k) == k.num_receives = 0
    IN  /\ \A i, j \in DOMAIN main :
              i < j /\ Fresh(main[i]) /\ Fresh(main[j]) => main[i].id > main[j].id
        /\ \A k \in ToSet(main), l \in ToSet(processing) \cup {d.key : d \in deliveries} :
              Fresh(k) /\ Fresh(l) => k.id > l.id

\* With a dead letter queue every message sent is acked or dead-lettered in the
\* end, even if every consumer drops what it receives.  (The run has no malformed
\* key: one on the processing list ends every call that meets it, and those after
\* it are not put back while it is there.)
EventuallySettled ==
    \A p \in Payloads : p \in sent ~> Settled(p)

\* "If a message is not acknowledged before a configured deadline, it is
\* reinserted": what is handed out a second time was not acknowledged within
\* the deadline the first time.
RequeuedOnlyWhenLate ==
    \A p \in sent \ late : receives[p] <= 1

-----------------------------------------------------------------------------
(* Why the invariants hold *)

\* Every key is on one list, once, and never returns to the main list.
KeysOK ==
    /\ \A k \in Listed : k.id <= lastId
    /\ \A i, j \in DOMAIN main : main[i].id = main[j].id => i = j
    /\ \A i, j \in DOMAIN processing : processing[i].id = processing[j].id => i = j
    /\ \A i \in DOMAIN main, j \in DOMAIN processing : main[i].id # processing[j].id

\* What a task or a Delivery remembers of a key is what the lists hold.
Remembers(k) ==
    /\ k.id <= lastId
    /\ \A f \in ToSet(main) : f.id # k.id
    /\ \A f \in ToSet(processing) : f.id = k.id => f = k

TaskOK(w) ==
    /\ \A k \in ToSet(todo[w]) : Remembers(k)
    /\ pc[w] = "idle" => todo[w] = <<>>
    /\ pc[w] \in {"clock", "lrem"} => todo[w] # <<>>
    /\ pc[w] \in {"scan", "lrem"} /\ todo[w] # <<>> => Head(todo[w]).id \in limit[w]
    /\ limit[w] \subseteq aged

TasksOK == \A w \in Workers : TaskOK(w)

DeliveriesOK ==
    \A d \in deliveries :
        /\ Remembers(d.key)
        /\ d.phase = "lrem" => d.key.payload \in dlq

\* The key a task is about to LREM has been moved: its message is settled, or
\* in a key made later.  If another task LREMs that one, it has in turn made a
\* key later still.
Moved ==
    \A w \in Workers : pc[w] = "lrem" =>
        \/ Settled(Head(todo[w]).payload)
        \/ \E k \in Listed : k.payload = Head(todo[w]).payload /\ k.id > Head(todo[w]).id

\* The counts never run ahead of the receives that took place, and only what
\* may be received once more is written back.
CountsOK ==
    /\ \A k \in ToSet(main) : k.num_receives <= receives[k.payload]
    /\ \A k \in ToSet(processing) : NumReceives(k) <= receives[k.payload]
    /\ \A w \in Workers : \A k \in ToSet(todo[w]) : NumReceives(k) <= receives[k.payload]
    /\ \A d \in deliveries : NumReceives(d.key) <= receives[d.key.payload]
    /\ \A k \in Listed : ~MaxRetriesReached(k.num_receives) \/ k.num_receives = 0

\* What consumers and tasks remember fits the lists, however they overlap, and
\* with it the safety properties above.
FallbackInv ==
    /\ TypeOK
    /\ KeysOK
    /\ TasksOK
    /\ DeliveriesOK
    /\ Moved
    /\ NoLoss
    /\ CountsOK
    /\ DeadLetterNotEarly
    /\ ReceivesBounded

-----------------------------------------------------------------------------
(* What the two lists implement *)

Abstract == INSTANCE AtLeastOnceQueue
    WITH Messages <- Payloads, GiveUpAfter <- MaxReceives,
         promised <- sent, held <- {k.payload : k \in Listed}, dead <- dlq

\* The two lists and the tasks together are an at-least-once queue, though a
\* message moves between the lists by a push and a separate LREM.
Implements == Abstract!Spec

=============================================================================
