------------------------- MODULE RedisDelayedProofs -------------------------
(***************************************************************************)
(* Proofs about RedisDelayed, for any number of messages and tasks, any    *)
(* resolution of the clock and any time to live of the lock.               *)
(***************************************************************************)
EXTENDS RedisDelayed, FiniteSetTheorems, TLAPS

-----------------------------------------------------------------------------
(* Rounding *)

\* The second before this one has ended.
LEMMA TimestampEnded ==
    ASSUME NEW t \in Nat, NEW T \in Nat \ {0}, t >= T
    PROVE  (t - T) \div T \in Nat /\ ((t - T) \div T + 1) * T <= t
<1>1. PICK u \in Nat : u = t - T
  OBVIOUS
<1>2. PICK q \in Int : q = u \div T
  OBVIOUS
<1>3. q \in Nat /\ T * q <= u
  BY <1>1, <1>2
<1>4. (q + 1) * T = T * q + T
  BY <1>3
<1> QED
  BY <1>1, <1>2, <1>3, <1>4

\* A time whose second is at most a precedes the end of second a.
LEMMA RoundedDownBefore ==
    ASSUME NEW t \in Nat, NEW T \in Nat \ {0}, NEW a \in Nat, t \div T <= a
    PROVE  t < (a + 1) * T
<1>1. PICK q \in Int : q = t \div T
  OBVIOUS
<1>2. q \in Nat /\ t < T * q + T
  BY <1>1
<1>3. PICK k \in Nat : a = q + k
  <2>1. a - q \in Nat /\ a = q + (a - q)
    BY <1>1, <1>2
  <2> QED
    BY <2>1
<1>4. k * T \in Nat
  OBVIOUS
<1>5. (a + 1) * T = T * q + T + k * T
  BY <1>2, <1>3
<1> QED
  BY <1>2, <1>4, <1>5

-----------------------------------------------------------------------------
(* The steps *)

\* Every step keeps the types.
LEMMA TypeNext ==
    ASSUME TypeOK, [Next]_vars
    PROVE  TypeOK'
<1> USE DelayedAssumption
<1>1. ASSUME NEW m \in Messages, NEW delay \in Delays, NEW lag \in 0..MaxLag,
             SendRawScheduled(m, delay, lag)
      PROVE  TypeOK'
  <2>1. now - lag + delay \in Nat
    BY DEF TypeOK
  <2>2. UnixTimestamp(now - lag + delay) \in Nat
    BY <2>1 DEF UnixTimestamp
  <2> QED
    BY <1>1, <2>1, <2>2 DEF TypeOK, SendRawScheduled, taskVars
<1>2. ASSUME Tick
      PROVE  TypeOK'
  BY <1>2 DEF TypeOK, TaskState, Tick, Left, taskVars
<1>3. ASSUME NEW w \in Workers, Task(w)
      PROVE  TypeOK'
  <2>1. CASE TakeLock(w)
    BY <2>1 DEF TypeOK, TaskState, TakeLock
  <2>2. CASE ReadClock(w)
    <3>1. Timestamp \in Nat
      BY TimestampEnded DEF Timestamp, UnixTimestamp, TypeOK
    <3> QED
      BY <2>2, <3>1 DEF TypeOK, TaskState, ReadClock
  <2>3. CASE Query(w)
    BY <2>3 DEF TypeOK, TaskState, Query
  <2>4. CASE QueryMalformed(w)
    BY <2>4 DEF TypeOK, TaskState, QueryMalformed, GiveUp
  <2>5. CASE AddToMainQueue(w)
    BY <2>5 DEF TypeOK, TaskState, AddToMainQueue
  <2>6. CASE Zrem(w)
    BY <2>6 DEF TypeOK, TaskState, Zrem
  <2>7. CASE Release(w)
    BY <2>7 DEF TypeOK, TaskState, Release, GiveUp
  <2> QED
    BY <1>3, <2>1, <2>2, <2>3, <2>4, <2>5, <2>6, <2>7 DEF Task
<1>4. ASSUME NEW w \in Workers, WorkerFails(w)
      PROVE  TypeOK'
  BY <1>4 DEF TypeOK, TaskState, WorkerFails, GiveUp
<1>5. CASE UNCHANGED vars
  BY <1>5 DEF TypeOK, TaskState, vars
<1> QED
  BY <1>1, <1>2, <1>3, <1>4, <1>5 DEF Next

\* Every step keeps DueOK: a query returns only what is due.
LEMMA DueNext ==
    ASSUME TypeOK, DueOK, [Next]_vars
    PROVE  DueOK'
<1> USE DelayedAssumption
<1>1. ASSUME NEW m \in Messages, NEW delay \in Delays, NEW lag \in 0..MaxLag,
             SendRawScheduled(m, delay, lag)
      PROVE  DueOK'
  <2>1. now - lag + delay \in Nat
    BY DEF TypeOK
  <2>2. /\ delayed' = delayed \cup {m}
        /\ due[m] = NotScheduled
        /\ score' = [score EXCEPT ![m] = UnixTimestamp(now - lag + delay)]
        /\ due' = [due EXCEPT ![m] = now - lag + delay]
        /\ UNCHANGED <<now, moved, pc, asOf, keys, toAdd>>
    BY <1>1 DEF SendRawScheduled, taskVars
  <2> QED
    BY <2>1, <2>2 DEF TypeOK, DueOK, NotScheduled
<1>2. ASSUME Tick
      PROVE  DueOK'
  <2>1. now' \in Nat /\ now <= now'
    BY <1>2 DEF Tick, TypeOK
  <2>2. UNCHANGED <<delayed, score, moved, pc, asOf, keys, toAdd, due>>
    BY <1>2 DEF Tick, taskVars
  <2>3. \A w \in Workers : (asOf[w] + 1) * TicksPerSecond \in Nat
    BY DEF TypeOK
  <2>4. \A w \in Workers : \A m \in keys[w] : due[m] # NotScheduled => due[m] \in Nat
    BY DEF TypeOK
  <2> QED
    BY <2>1, <2>2, <2>3, <2>4 DEF DueOK, TypeOK
<1>3. ASSUME NEW w \in Workers, Task(w)
      PROVE  DueOK'
  <2>1. CASE TakeLock(w)
    BY <2>1 DEF TypeOK, DueOK, NotScheduled, TakeLock
  <2>2. CASE ReadClock(w)
    <3>1. (Timestamp + 1) * TicksPerSecond <= now
      BY TimestampEnded DEF Timestamp, UnixTimestamp, TypeOK
    <3> QED
      BY <2>2, <3>1 DEF TypeOK, DueOK, ReadClock
  <2>3. CASE Query(w)
    <3>1. PICK S \in SUBSET delayed :
            /\ IsFirstBatch(S, asOf[w])
            /\ keys' = [keys EXCEPT ![w] = S]
            /\ toAdd' = [toAdd EXCEPT ![w] = S]
            /\ pc' = [pc EXCEPT ![w] = IF S = {} THEN "del" ELSE "add"]
      BY <2>3 DEF Query
    <3>2. ASSUME NEW m \in S
          PROVE  due[m] # NotScheduled /\ due[m] <= now
      <4>1. due[m] # NotScheduled /\ due[m] \in Nat /\ UnixTimestamp(due[m]) <= asOf[w]
        BY <3>1, <3>2 DEF IsFirstBatch, DueOK, TypeOK
      <4>2. due[m] < (asOf[w] + 1) * TicksPerSecond
        BY <4>1, RoundedDownBefore DEF TypeOK, UnixTimestamp
      <4>3. (asOf[w] + 1) * TicksPerSecond <= now /\ (asOf[w] + 1) * TicksPerSecond \in Nat
        BY <2>3 DEF Query, DueOK, TypeOK
      <4> QED
        BY <4>1, <4>2, <4>3 DEF TypeOK
    <3>3. UNCHANGED <<now, delayed, score, moved, asOf, due>>
      BY <2>3 DEF Query
    <3> QED
      BY <3>1, <3>2, <3>3 DEF DueOK, TypeOK
  <2>4. CASE QueryMalformed(w)
    BY <2>4 DEF TypeOK, DueOK, NotScheduled, QueryMalformed, GiveUp
  <2>5. CASE AddToMainQueue(w)
    BY <2>5 DEF TypeOK, DueOK, NotScheduled, AddToMainQueue
  <2>6. CASE Zrem(w)
    BY <2>6 DEF TypeOK, DueOK, NotScheduled, Zrem
  <2>7. CASE Release(w)
    BY <2>7 DEF TypeOK, DueOK, NotScheduled, Release, GiveUp
  <2> QED
    BY <1>3, <2>1, <2>2, <2>3, <2>4, <2>5, <2>6, <2>7 DEF Task
<1>4. ASSUME NEW w \in Workers, WorkerFails(w)
      PROVE  DueOK'
  BY <1>4 DEF TypeOK, DueOK, NotScheduled, WorkerFails, GiveUp
<1>5. CASE UNCHANGED vars
  BY <1>5 DEF TypeOK, DueOK, NotScheduled, vars
<1> QED
  BY <1>1, <1>2, <1>3, <1>4, <1>5 DEF Next

\* Every step keeps NotPremature: what a task adds is due.
LEMMA PrematureNext ==
    ASSUME TypeOK, DueOK, NotPremature, [Next]_vars
    PROVE  NotPremature'
<1> USE DelayedAssumption
<1>1. ASSUME NEW m \in Messages, NEW delay \in Delays, NEW lag \in 0..MaxLag,
             SendRawScheduled(m, delay, lag)
      PROVE  NotPremature'
  BY <1>1 DEF TypeOK, DueOK, NotPremature, NotScheduled, SendRawScheduled, taskVars
<1>2. ASSUME Tick
      PROVE  NotPremature'
  BY <1>2 DEF TypeOK, DueOK, NotPremature, NotScheduled, Tick, Left, taskVars
<1>3. ASSUME NEW w \in Workers, Task(w)
      PROVE  NotPremature'
  <2>1. CASE TakeLock(w)
    BY <2>1 DEF TypeOK, DueOK, NotPremature, NotScheduled, TakeLock
  <2>2. CASE ReadClock(w)
    BY <2>2 DEF TypeOK, DueOK, NotPremature, NotScheduled, ReadClock
  <2>3. CASE Query(w)
    BY <2>3 DEF TypeOK, DueOK, NotPremature, NotScheduled, Query
  <2>4. CASE QueryMalformed(w)
    BY <2>4 DEF TypeOK, DueOK, NotPremature, NotScheduled, QueryMalformed, GiveUp
  <2>5. CASE AddToMainQueue(w)
    BY <2>5 DEF TypeOK, DueOK, NotPremature, NotScheduled, AddToMainQueue
  <2>6. CASE Zrem(w)
    BY <2>6 DEF TypeOK, DueOK, NotPremature, NotScheduled, Zrem
  <2>7. CASE Release(w)
    BY <2>7 DEF TypeOK, DueOK, NotPremature, NotScheduled, Release, GiveUp
  <2> QED
    BY <1>3, <2>1, <2>2, <2>3, <2>4, <2>5, <2>6, <2>7 DEF Task
<1>4. ASSUME NEW w \in Workers, WorkerFails(w)
      PROVE  NotPremature'
  BY <1>4 DEF TypeOK, DueOK, NotPremature, NotScheduled, WorkerFails, GiveUp
<1>5. CASE UNCHANGED vars
  BY <1>5 DEF TypeOK, DueOK, NotPremature, NotScheduled, vars
<1> QED
  BY <1>1, <1>2, <1>3, <1>4, <1>5 DEF Next

\* Every step keeps KeysOK: a task passes over nothing it has read.
LEMMA KeysNext ==
    ASSUME TypeOK, DueOK, KeysOK, [Next]_vars
    PROVE  KeysOK'
<1> USE DelayedAssumption
<1>1. ASSUME NEW m \in Messages, NEW delay \in Delays, NEW lag \in 0..MaxLag,
             SendRawScheduled(m, delay, lag)
      PROVE  KeysOK'
  BY <1>1 DEF TypeOK, DueOK, KeysOK, SendRawScheduled, taskVars
<1>2. ASSUME Tick
      PROVE  KeysOK'
  BY <1>2 DEF TypeOK, DueOK, KeysOK, Tick, Left, taskVars
<1>3. ASSUME NEW w \in Workers, Task(w)
      PROVE  KeysOK'
  <2>1. CASE TakeLock(w)
    BY <2>1 DEF TypeOK, DueOK, KeysOK, TakeLock
  <2>2. CASE ReadClock(w)
    BY <2>2 DEF TypeOK, DueOK, KeysOK, ReadClock
  <2>3. CASE Query(w)
    <3>1. PICK S \in SUBSET delayed :
            /\ keys' = [keys EXCEPT ![w] = S]
            /\ toAdd' = [toAdd EXCEPT ![w] = S]
            /\ pc' = [pc EXCEPT ![w] = IF S = {} THEN "del" ELSE "add"]
            /\ UNCHANGED moved
      BY <2>3 DEF Query
    <3> QED
      BY <3>1 DEF KeysOK, TypeOK
  <2>4. CASE QueryMalformed(w)
    BY <2>4 DEF TypeOK, DueOK, KeysOK, QueryMalformed, GiveUp
  <2>5. CASE AddToMainQueue(w)
    <3>1. PICK m \in toAdd[w] :
            /\ moved' = [moved EXCEPT ![m] = @ + 1]
            /\ toAdd' = [toAdd EXCEPT ![w] = @ \ {m}]
            /\ pc' = [pc EXCEPT ![w] = IF toAdd[w] = {m} THEN "zrem" ELSE "add"]
            /\ UNCHANGED keys
      BY <2>5 DEF AddToMainQueue
    <3>2. \A n \in Messages : moved[n] > 0 \/ n = m => moved'[n] > 0
      BY <3>1 DEF TypeOK
    <3> QED
      BY <3>1, <3>2 DEF KeysOK, TypeOK
  <2>6. CASE Zrem(w)
    BY <2>6 DEF TypeOK, DueOK, KeysOK, Zrem
  <2>7. CASE Release(w)
    BY <2>7 DEF TypeOK, DueOK, KeysOK, Release, GiveUp
  <2> QED
    BY <1>3, <2>1, <2>2, <2>3, <2>4, <2>5, <2>6, <2>7 DEF Task
<1>4. ASSUME NEW w \in Workers, WorkerFails(w)
      PROVE  KeysOK'
  BY <1>4 DEF TypeOK, DueOK, KeysOK, WorkerFails, GiveUp
<1>5. CASE UNCHANGED vars
  BY <1>5 DEF TypeOK, DueOK, KeysOK, vars
<1> QED
  BY <1>1, <1>2, <1>3, <1>4, <1>5 DEF Next

\* Every step keeps NotLost: ZREM removes only what the task has added.
LEMMA NotLostNext ==
    ASSUME TypeOK, DueOK, KeysOK, NotLost, [Next]_vars
    PROVE  NotLost'
<1> USE DelayedAssumption
<1>1. ASSUME NEW m \in Messages, NEW delay \in Delays, NEW lag \in 0..MaxLag,
             SendRawScheduled(m, delay, lag)
      PROVE  NotLost'
  BY <1>1 DEF TypeOK, KeysOK, NotLost, SendRawScheduled, taskVars
<1>2. ASSUME Tick
      PROVE  NotLost'
  BY <1>2 DEF TypeOK, KeysOK, NotLost, Tick, Left, taskVars
<1>3. ASSUME NEW w \in Workers, Task(w)
      PROVE  NotLost'
  <2>1. CASE TakeLock(w)
    BY <2>1 DEF TypeOK, KeysOK, NotLost, TakeLock
  <2>2. CASE ReadClock(w)
    BY <2>2 DEF TypeOK, KeysOK, NotLost, ReadClock
  <2>3. CASE Query(w)
    BY <2>3 DEF TypeOK, KeysOK, NotLost, Query
  <2>4. CASE QueryMalformed(w)
    BY <2>4 DEF TypeOK, KeysOK, NotLost, QueryMalformed, GiveUp
  <2>5. CASE AddToMainQueue(w)
    BY <2>5 DEF TypeOK, KeysOK, NotLost, AddToMainQueue
  <2>6. CASE Zrem(w)
    BY <2>6 DEF TypeOK, KeysOK, NotLost, Zrem
  <2>7. CASE Release(w)
    BY <2>7 DEF TypeOK, KeysOK, NotLost, Release, GiveUp
  <2> QED
    BY <1>3, <2>1, <2>2, <2>3, <2>4, <2>5, <2>6, <2>7 DEF Task
<1>4. ASSUME NEW w \in Workers, WorkerFails(w)
      PROVE  NotLost'
  BY <1>4 DEF TypeOK, KeysOK, NotLost, WorkerFails, GiveUp
<1>5. CASE UNCHANGED vars
  BY <1>5 DEF TypeOK, KeysOK, NotLost, vars
<1> QED
  BY <1>1, <1>2, <1>3, <1>4, <1>5 DEF Next

\* Every step keeps LockOK: without an overrun the lock outlives its holder.
LEMMA LockNext ==
    ASSUME TypeOK, LockOK, [Next]_vars
    PROVE  LockOK'
<1> USE DelayedAssumption
<1>1. ASSUME NEW m \in Messages, NEW delay \in Delays, NEW lag \in 0..MaxLag,
             SendRawScheduled(m, delay, lag)
      PROVE  LockOK'
  BY <1>1 DEF TypeOK, LockOK, InCriticalSection, SendRawScheduled, taskVars
<1>2. ASSUME Tick
      PROVE  LockOK'
  <2> SUFFICES ASSUME ~overrun' PROVE LockOK'
    BY DEF LockOK
  <2>1. ~overrun /\ \A w \in Workers : InCriticalSection(w) => ~(lease[w] <= 1)
    BY <1>2 DEF Tick
  <2>2. \A w \in Workers : InCriticalSection(w) => lease[w] = lock /\ lock > 1
    BY <2>1 DEF LockOK, TypeOK
  <2>3. UNCHANGED pc /\ lock' = Left(lock) /\ lease' = [w \in Workers |-> Left(lease[w])]
    BY <1>2 DEF Tick, taskVars
  <2> QED
    BY <2>1, <2>2, <2>3 DEF LockOK, TypeOK, Left, InCriticalSection
<1>3. ASSUME NEW w \in Workers, Task(w)
      PROVE  LockOK'
  <2>1. CASE TakeLock(w)
    BY <2>1 DEF TypeOK, LockOK, InCriticalSection, TakeLock
  <2>2. CASE ReadClock(w)
    BY <2>2 DEF TypeOK, LockOK, InCriticalSection, ReadClock
  <2>3. CASE Query(w)
    BY <2>3 DEF TypeOK, LockOK, InCriticalSection, Query
  <2>4. CASE QueryMalformed(w)
    BY <2>4 DEF TypeOK, LockOK, InCriticalSection, QueryMalformed, GiveUp
  <2>5. CASE AddToMainQueue(w)
    BY <2>5 DEF TypeOK, LockOK, InCriticalSection, AddToMainQueue
  <2>6. CASE Zrem(w)
    BY <2>6 DEF TypeOK, LockOK, InCriticalSection, Zrem
  <2>7. CASE Release(w)
    BY <2>7 DEF TypeOK, LockOK, InCriticalSection, Release, GiveUp
  <2> QED
    BY <1>3, <2>1, <2>2, <2>3, <2>4, <2>5, <2>6, <2>7 DEF Task
<1>4. ASSUME NEW w \in Workers, WorkerFails(w)
      PROVE  LockOK'
  BY <1>4 DEF TypeOK, LockOK, InCriticalSection, WorkerFails, GiveUp
<1>5. CASE UNCHANGED vars
  BY <1>5 DEF TypeOK, LockOK, InCriticalSection, vars
<1> QED
  BY <1>1, <1>2, <1>3, <1>4, <1>5 DEF Next

\* Every step keeps AddedOK.
LEMMA AddedNext ==
    ASSUME TypeOK, DueOK, KeysOK, LockOK, AddedOK, [Next]_vars
    PROVE  AddedOK'
<1> USE DelayedAssumption
<1>1. ASSUME NEW m \in Messages, NEW delay \in Delays, NEW lag \in 0..MaxLag,
             SendRawScheduled(m, delay, lag)
      PROVE  AddedOK'
  BY <1>1 DEF TypeOK, DueOK, KeysOK, LockOK, AddedOK, InCriticalSection,
     SendRawScheduled, taskVars
<1>2. ASSUME Tick
      PROVE  AddedOK'
  BY <1>2 DEF TypeOK, DueOK, KeysOK, LockOK, AddedOK, InCriticalSection, Tick, Left,
     taskVars
<1>3. ASSUME NEW w \in Workers, Task(w)
      PROVE  AddedOK'
  <2>1. CASE TakeLock(w)
    BY <2>1 DEF TypeOK, DueOK, KeysOK, LockOK, AddedOK, InCriticalSection, TakeLock
  <2>2. CASE ReadClock(w)
    BY <2>2 DEF TypeOK, DueOK, KeysOK, LockOK, AddedOK, InCriticalSection, ReadClock
  <2>3. CASE Query(w)
    BY <2>3 DEF TypeOK, DueOK, KeysOK, LockOK, AddedOK, InCriticalSection, Query
  <2>4. CASE QueryMalformed(w)
    BY <2>4 DEF TypeOK, DueOK, KeysOK, LockOK, AddedOK, InCriticalSection,
       QueryMalformed, GiveUp
  <2>5. CASE AddToMainQueue(w)
    BY <2>5 DEF TypeOK, DueOK, KeysOK, LockOK, AddedOK, InCriticalSection,
       AddToMainQueue
  <2>6. CASE Zrem(w)
    BY <2>6 DEF TypeOK, DueOK, KeysOK, LockOK, AddedOK, InCriticalSection, Zrem
  <2>7. CASE Release(w)
    BY <2>7 DEF TypeOK, DueOK, KeysOK, LockOK, AddedOK, InCriticalSection, Release,
       GiveUp
  <2> QED
    BY <1>3, <2>1, <2>2, <2>3, <2>4, <2>5, <2>6, <2>7 DEF Task
<1>4. ASSUME NEW w \in Workers, WorkerFails(w)
      PROVE  AddedOK'
  BY <1>4 DEF TypeOK, DueOK, KeysOK, LockOK, AddedOK, InCriticalSection,
     WorkerFails, GiveUp
<1>5. CASE UNCHANGED vars
  BY <1>5 DEF TypeOK, DueOK, KeysOK, LockOK, AddedOK, InCriticalSection, vars
<1> QED
  BY <1>1, <1>2, <1>3, <1>4, <1>5 DEF Next

\* Every step keeps MovedOnce: what a task still has to add was not added yet.
LEMMA OnceNext ==
    ASSUME TypeOK, AddedOK, MovedOnce, [Next]_vars
    PROVE  MovedOnce'
<1> USE DelayedAssumption
<1>1. ASSUME NEW m \in Messages, NEW delay \in Delays, NEW lag \in 0..MaxLag,
             SendRawScheduled(m, delay, lag)
      PROVE  MovedOnce'
  BY <1>1 DEF TypeOK, AddedOK, MovedOnce, SendRawScheduled, taskVars
<1>2. ASSUME Tick
      PROVE  MovedOnce'
  BY <1>2 DEF TypeOK, AddedOK, MovedOnce, Tick, Left, taskVars
<1>3. ASSUME NEW w \in Workers, Task(w)
      PROVE  MovedOnce'
  <2>1. CASE TakeLock(w)
    BY <2>1 DEF TypeOK, AddedOK, MovedOnce, TakeLock
  <2>2. CASE ReadClock(w)
    BY <2>2 DEF TypeOK, AddedOK, MovedOnce, ReadClock
  <2>3. CASE Query(w)
    BY <2>3 DEF TypeOK, AddedOK, MovedOnce, Query
  <2>4. CASE QueryMalformed(w)
    BY <2>4 DEF TypeOK, AddedOK, MovedOnce, QueryMalformed, GiveUp
  <2>5. CASE AddToMainQueue(w)
    BY <2>5 DEF TypeOK, AddedOK, MovedOnce, AddToMainQueue
  <2>6. CASE Zrem(w)
    BY <2>6 DEF TypeOK, AddedOK, MovedOnce, Zrem
  <2>7. CASE Release(w)
    BY <2>7 DEF TypeOK, AddedOK, MovedOnce, Release, GiveUp
  <2> QED
    BY <1>3, <2>1, <2>2, <2>3, <2>4, <2>5, <2>6, <2>7 DEF Task
<1>4. ASSUME NEW w \in Workers, WorkerFails(w)
      PROVE  MovedOnce'
  BY <1>4 DEF TypeOK, AddedOK, MovedOnce, WorkerFails, GiveUp
<1>5. CASE UNCHANGED vars
  BY <1>5 DEF TypeOK, AddedOK, MovedOnce, vars
<1> QED
  BY <1>1, <1>2, <1>3, <1>4, <1>5 DEF Next

-----------------------------------------------------------------------------
(* The invariant is inductive, and the theorems *)

\* The invariant holds initially ...
LEMMA DelayedInit == Init => DelayedInv
<1> SUFFICES ASSUME Init PROVE DelayedInv
  OBVIOUS
<1> USE DelayedAssumption DEF Init
<1>1. TypeOK
  <2>1. overrun \in BOOLEAN /\ pc \in [Workers -> TaskState]
    BY DEF TaskState
  <2>2. /\ score \in [Messages -> Nat \cup {NotScheduled}]
        /\ due \in [Messages -> Nat \cup {NotScheduled}]
    OBVIOUS
  <2>3. /\ now \in Nat /\ now >= TicksPerSecond
        /\ delayed \subseteq Messages
        /\ lock \in 0..LockTtl
        /\ moved \in [Messages -> Nat]
        /\ asOf \in [Workers -> Nat]
        /\ keys \in [Workers -> SUBSET Messages]
        /\ toAdd \in [Workers -> SUBSET Messages]
        /\ faults \in 0..MaxFaults
        /\ lease \in [Workers -> 0..LockTtl]
    OBVIOUS
  <2> QED
    BY <2>1, <2>2, <2>3 DEF TypeOK
<1>2. DueOK /\ NotPremature /\ KeysOK /\ NotLost
  BY DEF DueOK, NotPremature, KeysOK, NotLost
<1>3. LockOK /\ AddedOK /\ MovedOnce
  BY DEF LockOK, AddedOK, MovedOnce, InCriticalSection
<1> QED
  BY <1>1, <1>2, <1>3 DEF DelayedInv

\* ... and every step keeps it.
LEMMA DelayedNext == DelayedInv /\ [Next]_vars => DelayedInv'
BY TypeNext, DueNext, PrematureNext, KeysNext, NotLostNext, LockNext, AddedNext,
   OnceNext
   DEF DelayedInv

\* The induction the theorems below share.
THEOREM DelayedInvariant == Spec => []DelayedInv
BY DelayedInit, DelayedNext, PTL DEF Spec

\* background_task_delayed adds no message to the main queue before it is due,
\* at any resolution of the clock and any delay of a command.
THEOREM NeverPremature == Spec => []NotPremature
<1>1. DelayedInv => NotPremature
  BY DEF DelayedInv
<1> QED
  BY <1>1, DelayedInvariant, PTL

\* No scheduled message is lost, whatever fails and whoever holds the lock.
THEOREM NoScheduledMessageLost == Spec => []NotLost
<1>1. DelayedInv => NotLost
  BY DEF DelayedInv
<1> QED
  BY <1>1, DelayedInvariant, PTL

\* The lock keeps processes apart as long as none overruns it.
THEOREM MovedOnceUnderLock == Spec => []MovedOnce
<1>1. DelayedInv => MovedOnce
  BY DEF DelayedInv
<1> QED
  BY <1>1, DelayedInvariant, PTL

=============================================================================
