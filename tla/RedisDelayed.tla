---------------------------- MODULE RedisDelayed ----------------------------
(***************************************************************************)
(* Scheduled messages of the Redis backend (backends/redis/mod.rs): a      *)
(* producer ZADDs a message with the second at which it is due, and one    *)
(* background task per process moves what is due to the main queue, under  *)
(* a lock that is a Redis key with a time to live.                         *)
(*                                                                         *)
(* The clock is shared by all processes and ticks in fractions of a        *)
(* second, because unix_timestamp rounds down to seconds.  Every step is   *)
(* one Redis command.  The lock and each task's lease are kept as the time *)
(* that is left of them.                                                   *)
(*                                                                         *)
(* A definition written just above another with the same parameters is a   *)
(* faulty variant of it, used only to see that the properties notice.      *)
(***************************************************************************)
EXTENDS Integers, FiniteSets

CONSTANTS
    Messages,        \* scheduled messages; delayed_key_id makes each a member of its own
    Malformed,       \* members of the sorted set internal_from_list rejects
    Workers,         \* the processes' delayed task schedulers
    Delays,          \* delays producers ask for, in ticks
    MaxLag,          \* bound: time between computing a score and its ZADD
    TicksPerSecond,
    LockTtl,         \* SetExpiry::PX(5000), in ticks
    BatchSize,       \* BATCH_SIZE
    MaxTime,         \* bound: the clock stops here; everything is due by then
    MaxFaults        \* bound: failed commands and crashes

ASSUME DelayedAssumption ==
    /\ Malformed \subseteq Messages
    /\ TicksPerSecond \in Nat \ {0}
    /\ Delays \subseteq Nat
    /\ MaxLag \in 0..TicksPerSecond
    /\ LockTtl \in Nat \ {0}
    /\ BatchSize \in Nat \ {0}
    /\ MaxTime \in Nat
    /\ MaxFaults \in Nat

VARIABLES
    now,      \* SystemTime::now()
    delayed,  \* the sorted set: its members
    score,    \* their scores
    lock,     \* what is left of the lock key's time to live, 0 if it does not exist
    moved,    \* how often each message was added to the main queue
    pc,       \* where each task is
    asOf,     \* timestamp: the last second its query asks for
    keys,     \* old_keys: what its ZRANGEBYSCORE returned
    toAdd,    \* the part of keys still to be added to the main queue
    faults,   \* faults so far
    \* history
    due,      \* when each message is due
    lease,    \* what is left of the time to live each task set when it took the lock
    overrun   \* has a task been in its critical section past its lease?

taskVars == <<pc, asOf, keys, toAdd>>
vars == <<now, delayed, score, lock, moved, pc, asOf, keys, toAdd, faults,
          due, lease, overrun>>

-----------------------------------------------------------------------------
TaskState == {"idle", "clock", "query", "add", "zrem", "del"}

\* unix_timestamp: whole seconds.
UnixTimestamp(t) == t \div TicksPerSecond

NotScheduled == -1

TypeOK ==
    /\ now \in Nat /\ now >= TicksPerSecond
    /\ delayed \subseteq Messages
    /\ score \in [Messages -> Nat \cup {NotScheduled}]
    /\ lock \in 0..LockTtl
    /\ moved \in [Messages -> Nat]
    /\ pc \in [Workers -> TaskState]
    /\ asOf \in [Workers -> Nat]
    /\ keys \in [Workers -> SUBSET Messages]
    /\ toAdd \in [Workers -> SUBSET Messages]
    /\ faults \in 0..MaxFaults
    /\ due \in [Messages -> Nat \cup {NotScheduled}]
    /\ lease \in [Workers -> 0..LockTtl]
    /\ overrun \in BOOLEAN

InCriticalSection(w) == pc[w] # "idle"

\* The second before this one: it makes the query exclusive.
TimestampNow == UnixTimestamp(now)
Timestamp == UnixTimestamp(now - TicksPerSecond)

\* ZRANGEBYSCORE 0 asOf LIMIT 0 BatchSize, in the order of the scores.  Members
\* with equal scores are ordered by their random ksuid.
IsFirstBatch(S, ts) ==
    LET old == {m \in delayed : score[m] <= ts}
    IN  /\ S \subseteq old
        /\ Cardinality(S) <= BatchSize
        /\ S # old => Cardinality(S) = BatchSize
        /\ \A m \in S, n \in old \ S : score[m] <= score[n]

-----------------------------------------------------------------------------
Init ==
    /\ now = TicksPerSecond
    /\ delayed = {}
    /\ score = [m \in Messages |-> NotScheduled]
    /\ lock = 0
    /\ moved = [m \in Messages |-> 0]
    /\ pc = [w \in Workers |-> "idle"]
    /\ asOf = [w \in Workers |-> 0]
    /\ keys = [w \in Workers |-> {}]
    /\ toAdd = [w \in Workers |-> {}]
    /\ faults = 0
    /\ due = [m \in Messages |-> NotScheduled]
    /\ lease = [w \in Workers |-> 0]
    /\ overrun = FALSE

\* send_raw_scheduled: the ZADD of a score computed lag ago.  Messages are sent
\* early enough to be due before the clock stops.
SendRawScheduled(m, delay, lag) ==
    /\ due[m] = NotScheduled
    /\ now + delay + 2 * TicksPerSecond <= MaxTime
    /\ delayed' = delayed \cup {m}
    /\ score' = [score EXCEPT ![m] = UnixTimestamp(now - lag + delay)]
    /\ due' = [due EXCEPT ![m] = now - lag + delay]
    /\ UNCHANGED <<now, lock, moved, taskVars, faults, lease, overrun>>

LeftForever(t) == t
Left(t) == IF t = 0 THEN 0 ELSE t - 1

\* Time passes; the lock and the leases run out whether or not the clock of the
\* model has stopped.
Tick ==
    /\ now < MaxTime \/ lock > 0 \/ \E w \in Workers : lease[w] > 0
    /\ now' = IF now < MaxTime THEN now + 1 ELSE now
    /\ lock' = Left(lock)
    /\ lease' = [w \in Workers |-> Left(lease[w])]
    /\ overrun' = (overrun \/ \E w \in Workers : InCriticalSection(w) /\ lease[w] <= 1)
    /\ UNCHANGED <<delayed, score, moved, taskVars, faults, due>>

\* SET NX PX 5000 answers OK.  If the key exists the task sleeps and tries again.
TakeLockAlways(w) ==
    /\ pc[w] = "idle"
    /\ lock' = LockTtl
    /\ lease' = [lease EXCEPT ![w] = LockTtl]
    /\ pc' = [pc EXCEPT ![w] = "clock"]
    /\ UNCHANGED <<now, delayed, score, moved, asOf, keys, toAdd, faults, due, overrun>>
TakeLock(w) ==
    /\ pc[w] = "idle"
    /\ lock = 0
    /\ lock' = LockTtl
    /\ lease' = [lease EXCEPT ![w] = LockTtl]
    /\ pc' = [pc EXCEPT ![w] = "clock"]
    /\ UNCHANGED <<now, delayed, score, moved, asOf, keys, toAdd, faults, due, overrun>>

\* The task reads its clock, between the answer to SET and the query.
ReadClock(w) ==
    /\ pc[w] = "clock"
    /\ asOf' = [asOf EXCEPT ![w] = Timestamp]
    /\ pc' = [pc EXCEPT ![w] = "query"]
    /\ UNCHANGED <<now, delayed, score, lock, moved, keys, toAdd, faults, due, lease, overrun>>

\* ZRANGEBYSCORE.  Nothing found: release the lock and sleep.
Query(w) ==
    /\ pc[w] = "query"
    /\ \E S \in SUBSET delayed :
          /\ IsFirstBatch(S, asOf[w])
          /\ S \cap Malformed = {}
          /\ keys' = [keys EXCEPT ![w] = S]
          /\ toAdd' = [toAdd EXCEPT ![w] = S]
          /\ pc' = [pc EXCEPT ![w] = IF S = {} THEN "del" ELSE "add"]
    /\ UNCHANGED <<now, delayed, score, lock, moved, asOf, faults, due, lease, overrun>>

\* The task gives up where it is and starts over; the lock stays.
GiveUp(w) ==
    /\ pc' = [pc EXCEPT ![w] = "idle"]
    /\ keys' = [keys EXCEPT ![w] = {}]
    /\ asOf' = [asOf EXCEPT ![w] = 0]
    /\ toAdd' = [toAdd EXCEPT ![w] = {}]
    /\ lease' = [lease EXCEPT ![w] = 0]

\* A member that internal_from_list rejects ends the call with an error.
QueryMalformed(w) ==
    /\ pc[w] = "query"
    /\ \E S \in SUBSET delayed : IsFirstBatch(S, asOf[w]) /\ S \cap Malformed # {}
    /\ GiveUp(w)
    /\ UNCHANGED <<now, delayed, score, lock, moved, faults, due, overrun>>

\* add_to_main_queue: one command of the pipeline (for lists all is one LPUSH,
\* which is these steps with nothing in between).
AddToMainQueueIgnoresError(w) ==
    /\ pc[w] = "add"
    /\ \E m \in toAdd[w] :
          /\ moved' \in {moved, [moved EXCEPT ![m] = @ + 1]}
          /\ toAdd' = [toAdd EXCEPT ![w] = @ \ {m}]
          /\ pc' = [pc EXCEPT ![w] = IF toAdd[w] = {m} THEN "zrem" ELSE "add"]
    /\ UNCHANGED <<now, delayed, score, lock, asOf, keys, faults, due, lease, overrun>>
AddToMainQueue(w) ==
    /\ pc[w] = "add"
    /\ \E m \in toAdd[w] :
          /\ moved' = [moved EXCEPT ![m] = @ + 1]
          /\ toAdd' = [toAdd EXCEPT ![w] = @ \ {m}]
          /\ pc' = [pc EXCEPT ![w] = IF toAdd[w] = {m} THEN "zrem" ELSE "add"]
    /\ UNCHANGED <<now, delayed, score, lock, asOf, keys, faults, due, lease, overrun>>

\* ZREM of all that was read.
ZremEverythingDue(w) ==
    /\ pc[w] = "zrem"
    /\ delayed' = {m \in delayed : score[m] > asOf[w]}
    /\ pc' = [pc EXCEPT ![w] = "del"]
    /\ UNCHANGED <<now, score, lock, moved, asOf, keys, toAdd, faults, due, lease, overrun>>
Zrem(w) ==
    /\ pc[w] = "zrem"
    /\ delayed' = delayed \ keys[w]
    /\ pc' = [pc EXCEPT ![w] = "del"]
    /\ UNCHANGED <<now, score, lock, moved, asOf, keys, toAdd, faults, due, lease, overrun>>

\* DEL of the lock key, whoever set it.
Release(w) ==
    /\ pc[w] = "del"
    /\ lock' = 0
    /\ GiveUp(w)
    /\ UNCHANGED <<now, delayed, score, moved, faults, due, overrun>>

\* A command fails, its reply is lost, or the process crashes and restarts.
WorkerFails(w) ==
    /\ pc[w] # "idle"
    /\ faults < MaxFaults
    /\ faults' = faults + 1
    /\ GiveUp(w)
    /\ UNCHANGED <<now, delayed, score, lock, moved, due, overrun>>

-----------------------------------------------------------------------------
Task(w) ==
    \/ TakeLock(w) \/ ReadClock(w) \/ Query(w) \/ QueryMalformed(w)
    \/ AddToMainQueue(w) \/ Zrem(w) \/ Release(w)

Next ==
    \/ \E m \in Messages, delay \in Delays, lag \in 0..MaxLag : SendRawScheduled(m, delay, lag)
    \/ Tick
    \/ \E w \in Workers : Task(w) \/ WorkerFails(w)

Spec == Init /\ [][Next]_vars

\* Time passes and the tasks run.  A task that finds the lock taken polls every
\* half second: with several tasks no one of them is sure to get it, but a lock
\* that is free is taken by one.
Fairness ==
    /\ WF_vars(Tick)
    /\ \A w \in Workers : WF_vars(Task(w))

FairSpec == Spec /\ Fairness

-----------------------------------------------------------------------------
(* Properties *)

\* No message is on the main queue before it is due, although both the time it
\* is due and the time of the query are rounded down to seconds: that is what
\* the second subtracted from the query's timestamp is for.
NotPremature ==
    \A m \in Messages : moved[m] > 0 => due[m] <= now

\* A scheduled message is never lost: it stays in the sorted set until it has
\* been added to the main queue, whatever fails and however tasks overlap.
NotLost ==
    \A m \in Messages : due[m] # NotScheduled => m \in delayed \/ moved[m] > 0

\* As long as no command fails and every task finishes within the lock's time
\* to live, a message is moved once, however many processes there are.
MovedOnce ==
    faults = 0 /\ ~overrun => \A m \in Messages : moved[m] <= 1

\* "There is a lock on the delayed queue processing to avoid race conditions":
\* of two tasks that are both within the time to live they set, one at most is
\* between taking the lock and releasing it.
LeaseExclusion ==
    \A v, w \in Workers :
        v # w /\ InCriticalSection(v) /\ InCriticalSection(w) => lease[v] = 0 \/ lease[w] = 0

\* Every scheduled message gets to the main queue, after crashes too: the lock
\* a crashed task leaves runs out.  The exception is a malformed member, which
\* ends every call that reads it and so holds up all that is due after it.
EventuallyMoved ==
    \A m \in Messages : due[m] # NotScheduled ~> moved[m] > 0 \/ Malformed \cap delayed # {}

-----------------------------------------------------------------------------
(* Why the invariants hold *)

\* What a task is about to move is due, and stays due.
DueOK ==
    /\ \A m \in Messages : moved[m] > 0 \/ m \in delayed => due[m] # NotScheduled
    /\ \A m \in delayed : score[m] = UnixTimestamp(due[m])
    /\ \A w \in Workers : pc[w] = "query" => (asOf[w] + 1) * TicksPerSecond <= now
    /\ \A w \in Workers : \A m \in keys[w] : due[m] # NotScheduled /\ due[m] <= now
    /\ \A w \in Workers : toAdd[w] \subseteq keys[w]
    /\ \A w \in Workers : pc[w] = "idle" => keys[w] = {}

\* What a task has read and need no longer add, the main queue has got.
KeysOK ==
    \A w \in Workers :
        /\ \A m \in keys[w] \ toAdd[w] : moved[m] > 0
        /\ pc[w] # "add" => toAdd[w] = {}

\* While no task overruns its lease, the lock is held by the one task in its
\* critical section, or left behind by one that failed.
LockOK ==
    ~overrun =>
        /\ \A w \in Workers : InCriticalSection(w) => lease[w] = lock /\ lock > 0
        /\ \A v, w \in Workers : InCriticalSection(v) /\ InCriticalSection(w) => v = w

\* While moreover nothing fails, what is still in the sorted set has not been
\* added, or was just added by the task that is about to remove it.
AddedOK ==
    faults = 0 /\ ~overrun =>
        /\ \A w \in Workers : \A m \in toAdd[w] : moved[m] = 0
        /\ \A m \in delayed : moved[m] = 0 \/
              \E w \in Workers : pc[w] \in {"add", "zrem"} /\ m \in keys[w] \ toAdd[w]

\* What each task remembers is due, and is on the main queue once the task need
\* no longer add it; with it the safety properties above.  The inductive
\* invariant of RedisDelayedProofs.
DelayedInv ==
    TypeOK /\ DueOK /\ NotPremature /\ KeysOK /\ NotLost /\ LockOK /\ AddedOK /\ MovedOnce

=============================================================================
