---------------------------- MODULE RedisClients ----------------------------
(***************************************************************************)
(* The Redis backend as an application sees it (backends/redis/mod.rs):    *)
(* processes build producers and consumers, each build starts background   *)
(* tasks that run until the last half built with them is dropped, and all  *)
(* processes work on one queue key, which Redis keeps either as a stream   *)
(* or as a list, and on one delayed set.                                   *)
(*                                                                         *)
(* This module is about what RedisStreams, RedisFallback and RedisDelayed  *)
(* share: which form a client uses, what the values look like that one     *)
(* writes and another reads, and whether there is a task to move a message *)
(* on.  A task reads, writes and removes in commands of their own, as      *)
(* there: others run between them, and any of them may fail.  It works on  *)
(* one message at a time; batches, dead letters and the lock of the delayed*)
(* set, which runs out by itself and then keeps nobody away, are left to   *)
(* those modules.  Of time there is nothing: a scheduled message may be    *)
(* due, and an unacked one may be late, at any moment.                     *)
(*                                                                         *)
(* A definition written just above another with the same parameters is a   *)
(* faulty variant of it, used only to see that the properties notice.      *)
(***************************************************************************)
EXTENDS ListPayload, FiniteSets

CONSTANTS
    Processes,
    Bytes,         \* what payloads are made of
    Payloads,      \* payloads of messages, as bytes; a message is known by its payload
    OldPayloads,   \* payloads of messages an earlier version left in Redis
    Ids,           \* bound: ids that tell apart copies of a message with the same count
    MaxMessages,   \* bound: how many messages are left by the earlier version, and how
                   \* many that can be read there are in all
    MaxReceives,   \* bound: how often a message is received
    MaxFaults      \* bound: how many commands of background tasks fail

ASSUME ClientsAssumption ==
    /\ Payloads \cup OldPayloads \subseteq Seq(Bytes)
    /\ Payloads \cap OldPayloads = {}
    /\ Ids # {}
    /\ MaxMessages \in Nat /\ MaxReceives \in Nat /\ MaxFaults \in Nat

VARIABLES
    \* what the application asks for; equal for all clients of a queue
    wantStreams,   \* use_redis_streams(...)
    delayOn,       \* is delayed_queue_key set?
    \* the processes
    built,         \* those that have called one of the build methods
    usesStreams,   \* those whose clients have use_redis_streams = true
    halves,        \* the halves each of them has
    tasks,         \* the background tasks that run in it
    \* what the tasks of a process are at
    claimed,       \* unacked messages its re-queueing task has read
    copied,        \* those it has put back, and not yet removed
    fetched,       \* due messages its scheduler has read
    added,         \* those it has added to the main queue, and not yet removed
    \* Redis
    streamExists,  \* queue_key is a stream: it stays one when it is empty
    stream,        \* its entries that were not delivered
    pending,       \* its entries that were delivered and not acked
    list,          \* the keys on the list queue_key
    processing,    \* the keys on the processing list
    delayed,       \* the keys in the delayed set
    \* history
    sent,          \* payloads whose send returned Ok, and what was there before
    receives,      \* how often each was received
    counted,       \* the number of receives its last Delivery was told of
    torn,          \* messages a task has put back or moved without removing them
    strange,       \* has a consumer got a payload nobody sent?
    faults         \* how many commands of background tasks have failed

configVars == <<wantStreams, delayOn>>
processVars == <<built, usesStreams, halves, tasks>>
requeueVars == <<claimed, copied>>
scheduleVars == <<fetched, added>>
redisVars == <<streamExists, stream, pending, list, processing, delayed>>
historyVars == <<sent, receives, counted, torn, strange, faults>>
vars == <<configVars, processVars, requeueVars, scheduleVars, redisVars, historyVars>>

Messages == Payloads \cup OldPayloads

\* Keys of the old form with a '#' in their payload.
PanicKeys == {k \in {OldListPayload(m) : m \in OldPayloads} : InternalFromList(k).result = "panic"}

\* The message has such a key.
Unreadable(m) == m \in OldPayloads /\ OldListPayload(m) \in PanicKeys

\* The others that were sent.
Readable == {m \in sent : ~Unreadable(m)}

\* InternalPayload, with the id of the entry or key it was read from.
Internal(id, payload, num_receives) ==
    [id |-> id, payload |-> payload, num_receives |-> num_receives]

\* The fields of an entry, and a value of a list or of the delayed set.
Entry(id, payload, n) == [id |-> id, payload |-> payload, num_receives |-> n]
Key(id, text) == [id |-> id, text |-> text]

\* In processes that never built anything there is nothing, and only tasks that
\* run are at something.
TypeOK ==
    /\ wantStreams \in BOOLEAN /\ delayOn \in BOOLEAN
    /\ built \subseteq Processes /\ usesStreams \subseteq built
    /\ halves \in [Processes -> SUBSET {"producer", "consumer"}]
    /\ tasks \in [Processes -> SUBSET {"delayed", "requeue"}]
    /\ \A p \in Processes : halves[p] = {} => tasks[p] = {}
    /\ \A p \in Processes \ built : halves[p] = {}
    /\ \A hand \in {claimed, copied, fetched, added} :
          hand \in [Processes -> SUBSET [id : Ids, payload : Messages, num_receives : Nat]]
    /\ \A p \in Processes : claimed[p] \cup copied[p] # {} => "requeue" \in tasks[p]
    /\ \A p \in Processes : fetched[p] \cup added[p] # {} => "delayed" \in tasks[p]
    /\ streamExists \in BOOLEAN
    /\ stream \cup pending # {} => streamExists
    /\ list # {} => ~streamExists
    /\ sent \subseteq Messages
    /\ torn \subseteq Messages
    /\ receives \in [Messages -> 0..MaxReceives]
    /\ counted \in [Messages -> Nat]
    /\ strange \in BOOLEAN
    /\ faults \in Nat

\* What the version without counts has written.
OldKey(m) == Key(CHOOSE i \in Ids : TRUE, OldListPayload(m))

Init ==
    /\ wantStreams \in BOOLEAN
    /\ delayOn \in BOOLEAN
    /\ built = {}
    /\ usesStreams = {}
    /\ halves = [p \in Processes |-> {}]
    /\ tasks = [p \in Processes |-> {}]
    /\ claimed = [p \in Processes |-> {}]
    /\ copied = [p \in Processes |-> {}]
    /\ fetched = [p \in Processes |-> {}]
    /\ added = [p \in Processes |-> {}]
    /\ streamExists = wantStreams     \* XGROUP CREATE ... MKSTREAM is up to the application
    /\ stream = {}
    /\ pending = {}
    /\ processing = {}
    /\ sent \in SUBSET OldPayloads
    /\ Cardinality(sent) <= MaxMessages
    /\ \E S \in SUBSET sent :
          /\ wantStreams => S = {}
          /\ list = {OldKey(m) : m \in S}
          /\ delayed = {OldKey(m) : m \in sent \ S}
    /\ receives = [m \in Messages |-> 0]
    /\ counted = [m \in Messages |-> 0]
    /\ torn = {}
    /\ strange = FALSE
    /\ faults = 0

-----------------------------------------------------------------------------
(* Building and dropping *)

\* start_background_tasks; without a delayed_queue_key there is no scheduler.
StartBackgroundTasksNegated == {"requeue"} \cup IF delayOn THEN {} ELSE {"delayed"}
StartBackgroundTasks == {"requeue"} \cup IF delayOn THEN {"delayed"} ELSE {}

\* use_redis_streams of what a builder builds.  The build methods of a dynamic
\* builder hand only self.config on, to RedisBackendBuilder::new, where it is true.
UseRedisStreams(dynamic) == wantStreams \/ dynamic

\* build_pair, build_producer, build_consumer.
Build(p, hs, dynamic) ==
    /\ p \notin built
    /\ built' = built \cup {p}
    /\ usesStreams' = IF UseRedisStreams(dynamic) THEN usesStreams \cup {p} ELSE usesStreams
    /\ halves' = [halves EXCEPT ![p] = hs]
    /\ tasks' = [tasks EXCEPT ![p] = StartBackgroundTasks]
    /\ UNCHANGED <<configVars, requeueVars, scheduleVars, redisVars, historyVars>>

\* A task stops, or gives up what it is at.  What it has written stays, and what
\* it should have removed then too.
LetGo(p, ts) ==
    /\ claimed' = IF "requeue" \in ts THEN [claimed EXCEPT ![p] = {}] ELSE claimed
    /\ copied' = IF "requeue" \in ts THEN [copied EXCEPT ![p] = {}] ELSE copied
    /\ fetched' = IF "delayed" \in ts THEN [fetched EXCEPT ![p] = {}] ELSE fetched
    /\ added' = IF "delayed" \in ts THEN [added EXCEPT ![p] = {}] ELSE added
    /\ torn' = torn \cup {c.payload : c \in IF "requeue" \in ts THEN copied[p] ELSE {}}
                    \cup {c.payload : c \in IF "delayed" \in ts THEN added[p] ELSE {}}

\* A half is dropped.  The halves share the JoinSet: the last one aborts it, and
\* the tasks stop between two commands.
DropStopsTasks(p, h) ==
    /\ h \in halves[p]
    /\ halves' = [halves EXCEPT ![p] = @ \ {h}]
    /\ tasks' = [tasks EXCEPT ![p] = {}]
    /\ LetGo(p, {"requeue", "delayed"})
    /\ UNCHANGED <<configVars, built, usesStreams, redisVars, sent, receives, counted, strange,
                   faults>>
Drop(p, h) ==
    /\ h \in halves[p]
    /\ halves' = [halves EXCEPT ![p] = @ \ {h}]
    /\ tasks' = [tasks EXCEPT ![p] = IF halves[p] = {h} THEN {} ELSE @]
    /\ LetGo(p, IF halves[p] = {h} THEN {"requeue", "delayed"} ELSE {})
    /\ UNCHANGED <<configVars, built, usesStreams, redisVars, sent, receives, counted, strange,
                   faults>>

-----------------------------------------------------------------------------
(* The main queue *)

\* A command of process p on queue_key finds the other type there and fails with
\* WRONGTYPE.
WrongType(p) == IF p \in usesStreams THEN list # {} ELSE streamExists

\* An entry and a key, as a client reads it.
DecodeEntry(e) == Internal(e.id, e.payload, e.num_receives + 1)

Legible(k) == InternalFromList(k.text).result = "ok"

Decode(k) ==
    LET r == InternalFromList(k.text)
    IN  IF r.result = "ok" THEN Internal(k.id, r.payload, r.num_receives)
                           ELSE Internal(k.id, k.text, 0)

\* The copies of messages: those that wait for a consumer, those that were handed
\* out and not acked, and those in the delayed set.
Waiting == {DecodeEntry(e) : e \in stream} \cup {Decode(k) : k \in list}
Out == {DecodeEntry(e) : e \in pending} \cup {Decode(k) : k \in processing}
Later == {Decode(k) : k \in delayed}

\* What the tasks have read of them, and what they are about to remove.
Claimed == UNION {claimed[p] : p \in Processes}
Copied == UNION {copied[p] : p \in Processes}
Fetched == UNION {fetched[p] : p \in Processes}
Added == UNION {added[p] : p \in Processes}

\* Ksuids and ids of entries are new each time: no two copies are the same.
FreeIds(payload, n) ==
    LET Used == Waiting \cup Out \cup Later \cup Claimed \cup Copied \cup Fetched \cup Added
    IN  {i \in Ids : Internal(i, payload, n + 1) \notin Used}
NewId(payload, n) == CHOOSE i \in FreeIds(payload, n) : TRUE

\* XADD, LPUSH or RPUSH of a message, in the form p uses.
AddToMainQueueAsStream(p, payload, n) ==
    /\ FreeIds(payload, n) # {}
    /\ streamExists' = TRUE
    /\ stream' = stream \cup {Entry(NewId(payload, n), payload, n)}
    /\ UNCHANGED list
AddToMainQueue(p, payload, n) ==
    /\ FreeIds(payload, n) # {}
    /\ IF p \in usesStreams
       THEN /\ streamExists' = TRUE
            /\ stream' = stream \cup {Entry(NewId(payload, n), payload, n)}
            /\ UNCHANGED list
       ELSE /\ list' = list \cup {Key(NewId(payload, n), InternalToListPayload(payload, n))}
            /\ UNCHANGED <<streamExists, stream>>

\* send_raw returns Ok.
SendRaw(p, m) ==
    /\ "producer" \in halves[p]
    /\ m \in Payloads \ sent
    /\ Cardinality(Readable) < MaxMessages
    /\ ~WrongType(p)
    /\ AddToMainQueue(p, m, 0)
    /\ sent' = sent \cup {m}
    /\ UNCHANGED <<configVars, processVars, requeueVars, scheduleVars, pending, processing,
                   delayed, receives, counted, torn, strange, faults>>

\* A consumer is handed a message with its count.
Hand(payload, n) ==
    IF payload \in Messages
    THEN /\ receives[payload] < MaxReceives
         /\ receives' = [receives EXCEPT ![payload] = @ + 1]
         /\ counted' = [counted EXCEPT ![payload] = n]
         /\ UNCHANGED strange
    ELSE strange' = TRUE /\ UNCHANGED <<receives, counted>>

ReceiveEntry(p) ==
    \E e \in stream :
        /\ "consumer" \in halves[p]
        /\ p \in usesStreams
        /\ wantStreams     \* or there is no consumer group, and XREADGROUP fails
        /\ stream' = stream \ {e}
        /\ pending' = pending \cup {e}
        /\ Hand(e.payload, e.num_receives + 1)
        /\ UNCHANGED <<configVars, processVars, requeueVars, scheduleVars, streamExists, list,
                       processing, delayed, sent, torn, faults>>

ReceiveKey(p) ==
    \E k \in list :
        /\ "consumer" \in halves[p]
        /\ p \notin usesStreams
        /\ list' = list \ {k}
        /\ processing' = processing \cup {k}
        /\ IF Legible(k) THEN Hand(Decode(k).payload, Decode(k).num_receives)
                         ELSE UNCHANGED <<receives, counted, strange>>
        /\ UNCHANGED <<configVars, processVars, requeueVars, scheduleVars, streamExists, stream,
                       pending, delayed, sent, torn, faults>>

\* receive and receive_all go by use_redis_streams.
Receive(p) == ReceiveEntry(p) \/ ReceiveKey(p)

\* ack: XACK and XDEL, or LREM.
Ack ==
    /\ \/ /\ \E e \in pending : pending' = pending \ {e}
          /\ UNCHANGED processing
       \/ /\ \E k \in processing :
                /\ Legible(k)     \* there is a Delivery
                /\ processing' = processing \ {k}
          /\ UNCHANGED pending
    /\ UNCHANGED <<configVars, processVars, requeueVars, scheduleVars, streamExists, stream, list,
                   delayed, historyVars>>

-----------------------------------------------------------------------------
(* The re-queueing task *)

\* A panic ends a task; the JoinSet does not start it again.
Dies(p, task) == tasks' = [tasks EXCEPT ![p] = @ \ {task}]

\* XAUTOCLAIM of an unacked entry.
ClaimEntry(p) ==
    /\ p \in usesStreams
    /\ \E e \in pending :
          claimed' = [claimed EXCEPT ![p] = {DecodeEntry(e)}]
    /\ UNCHANGED tasks

\* LRANGE of the processing list: a key is read, or cannot be.
ClaimKey(p) ==
    /\ p \notin usesStreams
    /\ \E k \in processing :
          \/ /\ Legible(k)
             /\ claimed' = [claimed EXCEPT ![p] = {Decode(k)}]
             /\ UNCHANGED tasks
          \/ /\ InternalFromList(k.text).result = "panic"
             /\ Dies(p, "requeue")
             /\ UNCHANGED claimed

Claim(p) ==
    /\ "requeue" \in tasks[p]
    /\ claimed[p] = {} /\ copied[p] = {}
    /\ ClaimEntry(p) \/ ClaimKey(p)
    /\ UNCHANGED <<configVars, built, usesStreams, halves, copied, scheduleVars, redisVars,
                   historyVars>>

\* XADD or RPUSH: the message goes back with the count it was read with.
PutBack(p) ==
    \E c \in claimed[p] :
        /\ ~WrongType(p)
        /\ AddToMainQueue(p, c.payload, c.num_receives)
        /\ claimed' = [claimed EXCEPT ![p] = @ \ {c}]
        /\ copied' = [copied EXCEPT ![p] = @ \cup {c}]
        /\ torn' = IF c \in Out \ Copied THEN torn ELSE torn \cup {c.payload}
        /\ UNCHANGED <<configVars, processVars, scheduleVars, pending, processing, delayed, sent,
                       receives, counted, strange, faults>>

\* XACK and XDEL, or LREM.
RemoveRead(p) ==
    /\ copied[p] # {}
    /\ IF p \in usesStreams
       THEN /\ pending' = {e \in pending : DecodeEntry(e) \notin copied[p]}
            /\ UNCHANGED processing
       ELSE /\ processing' = {k \in processing : Decode(k) \notin copied[p]}
            /\ UNCHANGED pending
    /\ copied' = [copied EXCEPT ![p] = {}]
    /\ UNCHANGED <<configVars, processVars, claimed, scheduleVars, streamExists, stream, list,
                   delayed, historyVars>>

\* The next command of a task fails, and with it its round; what it adds to the
\* main queue may find the other type there.
BreakOff(p, task) ==
    LET toAdd    == IF task = "requeue" THEN claimed[p] ELSE fetched[p]
        toRemove == IF task = "requeue" THEN copied[p] ELSE added[p]
    IN  /\ toAdd \cup toRemove # {}
        /\ \/ toAdd # {} /\ WrongType(p) /\ UNCHANGED faults
           \/ faults < MaxFaults /\ faults' = faults + 1
        /\ LetGo(p, {task})
        /\ UNCHANGED <<configVars, processVars, redisVars, sent, receives, counted, strange>>

-----------------------------------------------------------------------------
(* Scheduled messages *)

\* send_raw_scheduled, also where no scheduler runs.
SendRawScheduled(p, m) ==
    /\ "producer" \in halves[p]
    /\ m \in Payloads \ sent
    /\ Cardinality(Readable) < MaxMessages
    /\ FreeIds(m, 0) # {}
    /\ delayed' = delayed \cup {Key(NewId(m, 0), InternalToListPayload(m, 0))}
    /\ sent' = sent \cup {m}
    /\ UNCHANGED <<configVars, processVars, requeueVars, scheduleVars, streamExists, stream,
                   pending, list, processing, receives, counted, torn, strange, faults>>

\* ZRANGEBYSCORE: a key is due, and is read or cannot be.
FetchDueForGood(p, k) ==
    /\ "delayed" \in tasks[p]
    /\ fetched[p] = {} /\ added[p] = {}
    /\ Legible(k)
    /\ fetched' = [fetched EXCEPT ![p] = {Decode(k)}]
    /\ delayed' = delayed \ {k}
    /\ UNCHANGED <<configVars, processVars, requeueVars, added, streamExists, stream, pending,
                   list, processing, historyVars>>
FetchDue(p, k) ==
    /\ "delayed" \in tasks[p]
    /\ fetched[p] = {} /\ added[p] = {}
    /\ Legible(k)
    /\ fetched' = [fetched EXCEPT ![p] = {Decode(k)}]
    /\ UNCHANGED <<configVars, processVars, requeueVars, added, redisVars, historyVars>>

FetchDuePanics(p, k) ==
    /\ "delayed" \in tasks[p]
    /\ fetched[p] = {} /\ added[p] = {}
    /\ InternalFromList(k.text).result = "panic"
    /\ Dies(p, "delayed")
    /\ UNCHANGED <<configVars, built, usesStreams, halves, requeueVars, scheduleVars, redisVars,
                   historyVars>>

\* add_to_main_queue: the number of receives starts again.
AddDue(p) ==
    \E c \in fetched[p] :
        /\ ~WrongType(p)
        /\ AddToMainQueue(p, c.payload, 0)
        /\ fetched' = [fetched EXCEPT ![p] = @ \ {c}]
        /\ added' = [added EXCEPT ![p] = @ \cup {c}]
        /\ torn' = IF c \in Later \ Added THEN torn ELSE torn \cup {c.payload}
        /\ UNCHANGED <<configVars, processVars, requeueVars, pending, processing, delayed, sent,
                       receives, counted, strange, faults>>

\* ZREM.
RemoveDue(p) ==
    /\ added[p] # {}
    /\ delayed' = {k \in delayed : Decode(k) \notin added[p]}
    /\ added' = [added EXCEPT ![p] = {}]
    /\ UNCHANGED <<configVars, processVars, requeueVars, fetched, streamExists, stream, pending,
                   list, processing, historyVars>>

Schedule(p) ==
    \/ \E k \in delayed : FetchDue(p, k) \/ FetchDuePanics(p, k)
    \/ AddDue(p)
    \/ RemoveDue(p)

-----------------------------------------------------------------------------
Next ==
    \/ \E p \in Processes :
          \/ \E hs \in (SUBSET {"producer", "consumer"}) \ {{}}, dynamic \in BOOLEAN :
                Build(p, hs, dynamic)
          \/ \E h \in {"producer", "consumer"} : Drop(p, h)
          \/ \E m \in Payloads : SendRaw(p, m) \/ SendRawScheduled(p, m)
          \/ Receive(p)
          \/ Claim(p) \/ PutBack(p) \/ RemoveRead(p)
          \/ Schedule(p)
          \/ \E task \in {"requeue", "delayed"} : BreakOff(p, task)
    \/ Ack

Spec == Init /\ [][Next]_vars

-----------------------------------------------------------------------------
(* Properties *)

\* All clients of the queue use the form the application asked for.  The one
\* exception is a client of a dynamic builder that was to use lists.
OneForm == \A p \in built : (p \in usesStreams) = wantStreams

\* There is one of them.
PanicKeyIn(keys) == \E k \in keys : k.text \in PanicKeys

\* What is received was sent, byte for byte, whether it came straight, through
\* the delayed set, through the processing list and back, or from a version
\* without counts: a separator or a digit in a payload does not change what is
\* read.  (In a key without a count a '#' can be taken for the key's own: that is
\* a panic, and nothing is received.)
PayloadIntact == ~strange

\* No Delivery is told of more receives than there were, whatever is put back or
\* moved twice, which would send a message to the dead letter queue early; and as
\* long as a message's moves neither overlapped nor broke off it is told exactly
\* how many there were, through all the texts the number was written to.
CountsTrue ==
    \A m \in Messages :
        /\ counted[m] <= receives[m]
        /\ m \notin torn => counted[m] = receives[m]

\* No client fails with WRONGTYPE as long as use_redis_streams "matches between
\* producers and consumers", the delayed set and the tasks included; but a
\* dynamic builder does not keep the setting.
TypesAgree == OneForm => \A p \in Processes : halves[p] # {} => ~WrongType(p)

\* As long as a process has a half left, its tasks run, whatever commands fail.
\* Only a key of the old form with a '#' in its payload stops one, and then for
\* good: the re-queueing task on the processing list, the scheduler in the
\* delayed set.
TasksLive ==
    \A p \in Processes : halves[p] # {} =>
        /\ "requeue" \in tasks[p] \/ PanicKeyIn(processing)
        /\ "delayed" \in tasks[p] \/ PanicKeyIn(delayed) \/ ~delayOn

\* The message is in the delayed set.
Shelved(m) == \E c \in Later : c.payload = m /\ c.num_receives > 0

\* A message that was sent and not received is where somebody gets at it: on the
\* main queue, in the form the consumers read, or in the delayed set with a
\* scheduler in every process that has a half left; whatever its scheduler was
\* doing when it failed or was stopped.  But not where only a client of another
\* form is left, not with a key that cannot be read, and not in the delayed set
\* with such a key, or without a delayed_queue_key, when scheduled sends return Ok
\* and nothing ever moves their messages.
InReach ==
    \A m \in Readable :
        \/ receives[m] > 0
        \/ ~OneForm
        \/ IF wantStreams THEN \E e \in stream : e.payload = m
                          ELSE \E k \in list : Legible(k) /\ Decode(k).payload = m
        \/ /\ Shelved(m)
           /\ \/ ~delayOn \/ PanicKeyIn(delayed)
              \/ \A p \in Processes : halves[p] # {} => "delayed" \in tasks[p]

-----------------------------------------------------------------------------
(* Why the invariants hold *)

\* No two copies are the same, none is in two places, and a key that cannot be
\* read is one of PanicKeys.
PlacesOK ==
    /\ stream \cap pending = {}
    /\ list \cap processing = {} /\ list \cap delayed = {} /\ processing \cap delayed = {}
    /\ \A e, f \in stream \cup pending : e # f => DecodeEntry(e) # DecodeEntry(f)
    /\ \A k, l \in list \cup processing \cup delayed : k # l => Decode(k) # Decode(l)
    /\ \A e \in stream \cup pending, k \in list \cup processing \cup delayed :
          DecodeEntry(e) # Decode(k)
    /\ \A e \in stream \cup pending : e.id \in Ids /\ e.num_receives \in Nat
    /\ \A k \in list \cup processing \cup delayed :
          /\ k.id \in Ids
          /\ k.text \in PanicKeys \/ Decode(k).num_receives \in Nat \ {0}

\* The re-queueing task of a client of one form holds nothing of the other.
HandsOK ==
    \A p \in Processes : \A c \in claimed[p] \cup copied[p] :
        IF p \in usesStreams
        THEN \A k \in list \cup processing \cup delayed : Decode(k) # c
        ELSE \A e \in stream \cup pending : DecodeEntry(e) # c

\* Whoever reads a copy reads a message that was sent, and is not told of more
\* receives than there were: not by those put back twice either.
CopiesOK ==
    /\ \A c \in Waiting : c.num_receives > 0 =>
          c.payload \in sent /\ c.num_receives <= receives[c.payload] + 1
    /\ \A c \in Out : c.num_receives > 0 =>
          c.payload \in sent /\ c.num_receives <= receives[c.payload]
    /\ \A c \in Later : c.num_receives > 0 => c.payload \in sent
    /\ \A c \in Claimed \cup Copied :
          /\ c.num_receives > 0 /\ c.payload \in sent
          /\ c.num_receives <= receives[c.payload]
    /\ \A c \in Fetched \cup Added : c.num_receives > 0 /\ c.payload \in sent

\* The copies that nobody is about to remove.
Live == {c \in Waiting \cup (Out \ Copied) \cup (Later \ Added) : c.num_receives > 0}

\* Of a message whose moves neither overlapped nor broke off there is one such
\* copy at most, and it says how often the message was received.
LiveOK ==
    /\ \A c, d \in Live : c # d /\ c.payload = d.payload => c.payload \in torn
    /\ \A c \in Waiting : c.num_receives > 0 /\ c.payload \notin torn =>
          c.num_receives = receives[c.payload] + 1
    /\ \A c \in Out \ Copied : c.num_receives > 0 /\ c.payload \notin torn =>
          c.num_receives = receives[c.payload]
    /\ \A c \in Later \ Added : c.num_receives > 0 /\ c.payload \notin torn =>
          receives[c.payload] = 0

\* A message that was sent and not received is waiting or shelved, whatever its
\* scheduler was doing when it stopped.
Kept(m, S) == receives[m] > 0 \/ \E c \in S : c.payload = m /\ c.num_receives > 0

NoneLost ==
    /\ \A m \in Readable : Kept(m, Waiting \cup Later)
    /\ \A c \in Added : Kept(c.payload, Waiting)

\* Clients of one form have left nothing of the other.
FormsOK == OneForm => IF wantStreams THEN list = {} ELSE ~streamExists

\* What is in Redis, and what tasks hold, is of messages that were sent and says
\* no more than the truth; and nothing is missing.
ClientsInv ==
    /\ TypeOK
    /\ PlacesOK
    /\ HandsOK
    /\ CopiesOK
    /\ LiveOK
    /\ NoneLost
    /\ \A m \in Messages \ sent : receives[m] = 0
    /\ FormsOK

=============================================================================
