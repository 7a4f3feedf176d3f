------------------------- MODULE RedisStreamsProofs -------------------------
(***************************************************************************)
(* Proofs about RedisStreams, for any set of payloads and background tasks *)
(* and for every value of the bounds.                                      *)
(***************************************************************************)
EXTENDS RedisStreams, FiniteSetTheorems, TLAPS

-----------------------------------------------------------------------------
(* The operators the model is built from *)

\* What XREADGROUP and XAUTOCLAIM return is a prefix of what they look at: they
\* never step over an entry.
LEMMA FirstOfPrefix ==
    ASSUME NEW S, IsFiniteSet(S), S \subseteq Entry, NEW n \in Nat
    PROVE  /\ FirstOf(S, n) \subseteq S
           /\ IsFiniteSet(FirstOf(S, n))
           /\ \A e \in S, f \in FirstOf(S, n) : e.id <= f.id => e \in FirstOf(S, n)
<1>1. FirstOf(S, n) \subseteq S
  BY DEF FirstOf
<1>2. IsFiniteSet(FirstOf(S, n))
  BY <1>1, FS_Subset
<1>3. ASSUME NEW e \in S, NEW f \in FirstOf(S, n), e.id <= f.id
      PROVE  e \in FirstOf(S, n)
  <2> DEFINE Below(x) == {g \in S : g.id < x.id}
  <2>1. Below(e) \subseteq Below(f)
    BY <1>3, <1>1 DEF Entry
  <2>2. IsFiniteSet(Below(f)) /\ IsFiniteSet(Below(e))
    BY FS_Subset
  <2>3. Cardinality(Below(e)) <= Cardinality(Below(f))
    BY <2>1, <2>2, FS_Subset
  <2>4. Cardinality(Below(f)) < n
    BY <1>3 DEF FirstOf
  <2>5. Cardinality(Below(e)) \in Nat /\ Cardinality(Below(f)) \in Nat
    BY <2>2, FS_CardinalityType
  <2>6. Cardinality(Below(e)) < n
    BY <2>3, <2>4, <2>5
  <2> QED
    BY <2>6 DEF FirstOf
<1> QED
  BY <1>1, <1>2, <1>3

\* FirstOfPrefix for XREADGROUP ">" on a stream that is well typed.
LEMMA FreshPrefix ==
    ASSUME TypeOK, NEW n \in Nat
    PROVE  /\ FirstOf(Fresh, n) \subseteq Fresh
           /\ FirstOf(Fresh, n) \subseteq Entry
           /\ IsFiniteSet(FirstOf(Fresh, n))
           /\ \A e \in Fresh, f \in FirstOf(Fresh, n) :
                 e.id <= f.id => e \in FirstOf(Fresh, n)
<1>1. Fresh \subseteq stream /\ Fresh \subseteq Entry /\ IsFiniteSet(stream)
  BY DEF Fresh, TypeOK
<1>2. IsFiniteSet(Fresh)
  BY <1>1, FS_Subset
<1> QED
  BY <1>1, <1>2, FirstOfPrefix

\* FirstOfPrefix for XAUTOCLAIM.
LEMMA TimedOutPrefix ==
    ASSUME TypeOK, NEW n \in Nat
    PROVE  /\ FirstOf(TimedOut, n) \subseteq TimedOut
           /\ FirstOf(TimedOut, n) \subseteq Entry
<1>1. TimedOut \subseteq stream /\ TimedOut \subseteq Entry /\ IsFiniteSet(stream)
  BY DEF TimedOut, TypeOK
<1>2. IsFiniteSet(TimedOut)
  BY <1>1, FS_Subset
<1> QED
  BY <1>1, <1>2, FirstOfPrefix

\* A payload of the dead letter list stays there: the list only grows.
LEMMA DeadLettersAfterRpush ==
    ASSUME NEW p \in Payloads, dlq \in Seq(Payloads), Rpush(p)
    PROVE  DeadLetters' = DeadLetters \cup {p}
<1>1. /\ dlq' \in Seq(Payloads)
      /\ Len(dlq') = Len(dlq) + 1
      /\ \A i \in 1..Len(dlq) : dlq'[i] = dlq[i]
      /\ dlq'[Len(dlq) + 1] = p
      /\ Len(dlq) \in Nat
  BY DEF Rpush
<1>2. DOMAIN dlq' = 1..(Len(dlq) + 1) /\ DOMAIN dlq = 1..Len(dlq)
  BY <1>1
<1>3. DOMAIN dlq' = DOMAIN dlq \cup {Len(dlq) + 1}
  BY <1>1, <1>2
<1> QED
  BY <1>1, <1>2, <1>3 DEF DeadLetters

-----------------------------------------------------------------------------
(* Types *)

\* The initial state is well typed ...
LEMMA TypeInit == Init => TypeOK
BY StreamsAssumption, FS_EmptySet DEF Init, TypeOK, WorkerState

\* ... and every step keeps it so.
LEMMA TypeNext == TypeOK /\ [Next]_vars => TypeOK'
<1> SUFFICES ASSUME TypeOK, [Next]_vars PROVE TypeOK'
  OBVIOUS
<1> USE StreamsAssumption
<1>1. ASSUME NEW p \in Payloads, NEW n \in Nat, Xadd(p, n)
      PROVE  /\ lastId' \in Nat
             /\ stream' \subseteq Entry
             /\ IsFiniteSet(stream')
  <2> DEFINE e == [id |-> lastId + 1, payload |-> p, num_receives |-> n]
  <2>1. e \in Entry /\ lastId + 1 \in Nat
    BY DEF Entry, TypeOK
  <2>2. IsFiniteSet(stream \cup {e})
    BY FS_AddElement DEF TypeOK
  <2> QED
    BY <1>1, <2>1, <2>2 DEF Xadd, TypeOK
<1>2. ASSUME NEW i, Xdel(i)
      PROVE  stream' \subseteq Entry /\ IsFiniteSet(stream')
  <2>1. stream' \subseteq stream
    BY <1>2 DEF Xdel
  <2> QED
    BY <2>1, FS_Subset DEF TypeOK
<1>3. ASSUME NEW p \in Payloads, Producer(p)
      PROVE  TypeOK'
  <2>1. CASE Send(p)
    BY <1>1, <2>1 DEF TypeOK, Send, workerVars
  <2>2. CASE SendReplyLost(p)
    BY <1>1, <2>2 DEF TypeOK, SendReplyLost, Fault, workerVars
  <2>3. CASE ForeignAdd(p)
    BY <1>1, <2>3 DEF TypeOK, ForeignAdd, workerVars, historyVars
  <2> QED
    BY <1>3, <2>1, <2>2, <2>3 DEF Producer
<1>4. ASSUME NEW n \in 1..MaxMessages, Receive(n)
      PROVE  TypeOK'
  <2> DEFINE new == FirstOf(Fresh, n)
  <2>1. n \in Nat
    OBVIOUS
  <2>2. new \subseteq Entry /\ IsFiniteSet(new)
    BY <2>1, FreshPrefix
  <2>3. PICK last \in new : /\ lastDelivered' = last.id
                            /\ pel' = pel \cup Ids(new)
    BY <1>4 DEF Receive
  <2>4. lastDelivered' \in Nat /\ pel' \subseteq Nat /\ stale' \subseteq pel'
    <3>1. last.id \in Nat /\ Ids(new) \subseteq Nat
      BY <2>2 DEF Ids, Entry
    <3>2. stale' = stale
      BY <1>4 DEF Receive
    <3> QED
      BY <2>3, <3>1, <3>2 DEF TypeOK
  <2>5. receives' \in [Payloads -> Nat]
    <3>1. ASSUME NEW p \in Payloads
          PROVE  receives[p] + Cardinality({e \in new : e.payload = p}) \in Nat
      <4>1. IsFiniteSet({e \in new : e.payload = p})
        BY <2>2, FS_Subset
      <4> QED
        BY <4>1, FS_CardinalityType DEF TypeOK
    <3> QED
      BY <1>4, <3>1 DEF Receive
  <2>6. deliveries' \subseteq Delivery
    <3>1. ASSUME NEW e \in new
          PROVE  [id |-> e.id, payload |-> e.payload,
                  num_receives |-> NumReceives(e), phase |-> "held"] \in Delivery
      BY <2>2 DEF Entry, Delivery, NumReceives, Phase
    <3> QED
      BY <1>4, <3>1 DEF Receive, TypeOK
  <2> QED
    BY <1>4, <2>4, <2>5, <2>6 DEF Receive, TypeOK, workerVars
<1>5. ASSUME NEW d \in deliveries, Handle(d)
      PROVE  TypeOK'
  <2>1. ASSUME NEW ph \in Phase, SetPhase(d, ph)
        PROVE  deliveries' \subseteq Delivery
    BY <2>1 DEF TypeOK, SetPhase, Delivery
  <2>2. d.payload \in Payloads
    BY DEF TypeOK, Delivery
  <2>3. CASE Ack(d)
    BY <2>1, <2>2, <2>3 DEF TypeOK, Ack, Xack, Phase, workerVars
  <2>4. CASE AckXdel(d)
    BY <1>2, <2>4 DEF TypeOK, AckXdel, workerVars, historyVars
  <2>5. CASE AckReplyLost(d)
    BY <1>2, <2>1, <2>5 DEF TypeOK, AckReplyLost, Fault, Phase, workerVars,
       historyVars
  <2>6. CASE Nack(d)
    BY <2>6 DEF TypeOK, Nack, serverVars, workerVars, historyVars
  <2>7. CASE NackExhausted(d)
    BY <2>1, <2>7 DEF TypeOK, NackExhausted, Phase, serverVars, workerVars,
       historyVars
  <2>8. CASE NackRpush(d)
    BY <2>1, <2>2, <2>8 DEF TypeOK, NackRpush, Rpush, Phase, workerVars, historyVars
  <2>9. CASE NackXack(d)
    BY <2>1, <2>9 DEF TypeOK, NackXack, Xack, Phase, workerVars, historyVars
  <2>10. CASE CallFails(d)
    BY <2>1, <2>10 DEF TypeOK, CallFails, Fault, Phase, serverVars, workerVars,
       historyVars
  <2>11. CASE Drop(d)
    BY <2>11 DEF TypeOK, Drop, serverVars, workerVars, historyVars
  <2> QED
    BY <1>5, <2>3, <2>4, <2>5, <2>6, <2>7, <2>8, <2>9, <2>10, <2>11 DEF Handle
<1>6. ASSUME NEW i \in pel, Deadline(i)
      PROVE  TypeOK'
  BY <1>6 DEF TypeOK, Deadline, Entry, workerVars
<1>7. ASSUME NEW w \in Workers, Restart(w)
      PROVE  /\ pc' \in [Workers -> WorkerState]
             /\ batch' \in [Workers -> SUBSET Entry]
             /\ todo' \in [Workers -> SUBSET Entry]
             /\ pipe' \in [Workers -> SUBSET Entry]
  BY <1>7 DEF TypeOK, Restart, WorkerState
<1>8. ASSUME NEW w \in Workers, Worker(w)
      PROVE  TypeOK'
  <2>1. CASE Autoclaim(w)
    <3> DEFINE claimed == FirstOf(TimedOut, PendingBatchSize)
    <3>1. PendingBatchSize \in Nat
      OBVIOUS
    <3>2. claimed \subseteq Entry
      BY <3>1, TimedOutPrefix
    <3> QED
      BY <2>1, <3>2 DEF TypeOK, Autoclaim, WorkerState, historyVars
  <2>2. CASE Enpipe(w)
    BY <2>2 DEF TypeOK, Enpipe, serverVars, historyVars
  <2>3. CASE FindExhausted(w)
    BY <2>3 DEF TypeOK, FindExhausted, WorkerState, serverVars, historyVars
  <2>4. CASE WorkerRpush(w)
    <3>1. PICK e \in todo[w] : /\ Rpush(e.payload)
                               /\ todo' = [todo EXCEPT ![w] = @ \ {e}]
      BY <2>4 DEF WorkerRpush
    <3>2. e.payload \in Payloads
      BY DEF TypeOK, Entry
    <3>3. dlq' \in Seq(Payloads)
      BY <3>1, <3>2 DEF Rpush, TypeOK
    <3> QED
      BY <2>4, <3>1, <3>3 DEF TypeOK, WorkerRpush, WorkerState, historyVars
  <2>5. CASE AbortBatch(w)
    BY <1>7, <2>5 DEF TypeOK, AbortBatch, serverVars, historyVars
  <2>6. CASE XaddCopy(w)
    <3>1. PICK e \in pipe[w] : /\ Xadd(e.payload, NumReceives(e))
                               /\ pipe' = [pipe EXCEPT ![w] = @ \ {e}]
      BY <2>6 DEF XaddCopy
    <3>2. e.payload \in Payloads /\ NumReceives(e) \in Nat
      BY DEF TypeOK, Entry, NumReceives
    <3>3. /\ lastId' \in Nat
          /\ stream' \subseteq Entry
          /\ IsFiniteSet(stream')
      BY <1>1, <3>1, <3>2
    <3> QED
      BY <2>6, <3>1, <3>3 DEF TypeOK, XaddCopy, historyVars
  <2>7. CASE XackBatch(w)
    BY <2>7 DEF TypeOK, XackBatch, Xack, WorkerState, historyVars
  <2>8. CASE XdelBatch(w)
    BY <1>2, <1>7, <2>8 DEF TypeOK, XdelBatch, historyVars
  <2> QED
    BY <1>8, <2>1, <2>2, <2>3, <2>4, <2>5, <2>6, <2>7, <2>8 DEF Worker
<1>9. ASSUME NEW w \in Workers, WorkerFails(w)
      PROVE  TypeOK'
  BY <1>7, <1>9 DEF TypeOK, WorkerFails, Fault, serverVars, historyVars
<1>10. CASE UNCHANGED vars
  BY <1>10 DEF TypeOK, vars
<1> QED
  BY <1>3, <1>4, <1>5, <1>6, <1>8, <1>9, <1>10 DEF Next

\* Every reachable state is well typed; in particular what is stale is pending.
THEOREM TypeCorrect == Spec => []TypeOK
BY TypeInit, TypeNext, PTL DEF Spec

-----------------------------------------------------------------------------
(* What the steps of consumers do, in the form the proofs use *)

\* A receive hands out the entries up to a new last-delivered-id, all of them.
LEMMA ReceiveEffect ==
    ASSUME TypeOK, NEW n \in 1..MaxMessages, Receive(n)
    PROVE  \E new \in SUBSET stream : \E last \in new :
             /\ IsFiniteSet(new)
             /\ \A e \in new : e.id > lastDelivered /\ e.id <= last.id
             /\ \A e \in stream : e.id > lastDelivered /\ e.id <= last.id => e \in new
             /\ lastDelivered' = last.id
             /\ pel' = pel \cup Ids(new)
             /\ \A d \in deliveries' \ deliveries : \E e \in new :
                  d = [id |-> e.id, payload |-> e.payload,
                       num_receives |-> NumReceives(e), phase |-> "held"]
             /\ receives' = [p \in Payloads |->
                               receives[p] + Cardinality({e \in new : e.payload = p})]
             /\ UNCHANGED <<stream, lastId, stale, dlq, pc, batch, todo, pipe,
                            faults, sent, acked, late>>
<1> DEFINE new == FirstOf(Fresh, n)
<1>1. n \in Nat
  BY StreamsAssumption
<1>2. /\ new \subseteq Fresh
      /\ IsFiniteSet(new)
      /\ \A e \in Fresh, f \in new : e.id <= f.id => e \in new
  BY <1>1, FreshPrefix
<1>3. new \in SUBSET stream
  BY <1>2 DEF Fresh
<1>4. PICK last \in new :
        /\ \A e \in new : e.id <= last.id
        /\ lastDelivered' = last.id
        /\ pel' = pel \cup Ids(new)
  BY DEF Receive
<1>5. /\ \A e \in new : e.id > lastDelivered
      /\ \A e \in stream : e.id > lastDelivered /\ e.id <= last.id => e \in new
  BY <1>2 DEF Fresh
<1>6. \A d \in deliveries' \ deliveries : \E e \in new :
         d = [id |-> e.id, payload |-> e.payload,
              num_receives |-> NumReceives(e), phase |-> "held"]
  BY DEF Receive
<1>7. /\ receives' = [p \in Payloads |->
                        receives[p] + Cardinality({e \in new : e.payload = p})]
      /\ UNCHANGED <<stream, lastId, stale, dlq, pc, batch, todo, pipe,
                     faults, sent, acked, late>>
  BY DEF Receive, workerVars
<1> HIDE DEF new
<1>8. WITNESS new \in SUBSET stream, last \in new
<1> QED
  BY <1>2, <1>4, <1>5, <1>6, <1>7

\* A phase change touches one Delivery, and of it only the phase.
LEMMA SetPhaseEffect ==
    ASSUME TypeOK, NEW d \in deliveries, NEW ph \in Phase, SetPhase(d, ph)
    PROVE  \A x \in deliveries' :
             \/ x \in deliveries
             \/ /\ x.id = d.id
                /\ x.payload = d.payload
                /\ x.num_receives = d.num_receives
                /\ x.phase = ph
BY DEF TypeOK, Delivery, SetPhase
-----------------------------------------------------------------------------
(* Placement: what is where in the server, and what of it the clients remember *)

\* Ids stay unique and pending entries stay in the stream: XDEL follows XACK.
LEMMA IdsNext == TypeOK /\ IdsOK /\ BatchOK /\ DeliveriesOK /\ [Next]_vars => IdsOK'
<1> SUFFICES ASSUME TypeOK, IdsOK, BatchOK, DeliveriesOK, [Next]_vars PROVE IdsOK'
  OBVIOUS
<1> USE StreamsAssumption
<1>1. ASSUME NEW p \in Payloads, Producer(p)
      PROVE  IdsOK'
  <2>1. CASE Send(p)
    BY <2>1 DEF IdsOK, BatchOK, DeliveriesOK, InStream, TypeOK, Entry, Delivery,
       Send, Xadd, workerVars
  <2>2. CASE SendReplyLost(p)
    BY <2>2 DEF IdsOK, BatchOK, DeliveriesOK, InStream, TypeOK, Entry, Delivery,
       SendReplyLost, Xadd, Fault, workerVars
  <2>3. CASE ForeignAdd(p)
    BY <2>3 DEF IdsOK, BatchOK, DeliveriesOK, InStream, TypeOK, Entry, Delivery,
       ForeignAdd, Xadd, workerVars, historyVars
  <2> QED
    BY <1>1, <2>1, <2>2, <2>3 DEF Producer
<1>2. ASSUME NEW n \in 1..MaxMessages, Receive(n)
      PROVE  IdsOK'
  <2>1. PICK new \in SUBSET stream : \E last \in new :
           /\ \A e \in new : e.id > lastDelivered /\ e.id <= last.id
           /\ lastDelivered' = last.id
           /\ pel' = pel \cup Ids(new)
           /\ \A d \in deliveries' \ deliveries : \E e \in new :
                d = [id |-> e.id, payload |-> e.payload,
                     num_receives |-> NumReceives(e), phase |-> "held"]
           /\ UNCHANGED <<stream, lastId, dlq, pc, batch, todo, pipe>>
    BY <1>2, ReceiveEffect
  <2>2. PICK last \in new :
           /\ \A e \in new : e.id > lastDelivered /\ e.id <= last.id
           /\ lastDelivered' = last.id
    BY <2>1
  <2>3. stream' = stream /\ lastId' = lastId /\ pel' = pel \cup {e.id : e \in new}
    BY <2>1 DEF Ids
  <2>4. \A e \in stream : e.id \in Nat /\ e.id <= lastId /\ InStream(e.id)
    BY DEF IdsOK, TypeOK, Entry, InStream
  <2>5. lastDelivered \in Nat /\ lastId \in Nat /\ pel \subseteq Nat
    BY <2>4 DEF TypeOK, IdsOK
  <2>6. ASSUME NEW i \in pel' PROVE i <= lastDelivered' /\ InStream(i)
    <3>1. last \in stream /\ last.id \in Nat /\ lastDelivered < last.id
      BY <2>2, <2>4
    <3>2. CASE i \in pel
      <4>1. i \in Nat /\ i <= lastDelivered /\ InStream(i)
        BY <2>5, <3>2 DEF IdsOK
      <4> QED
        BY <2>2, <2>5, <3>1, <4>1
    <3>3. CASE i \notin pel
      <4>1. PICK e \in new : i = e.id
        BY <2>3, <3>3
      <4> QED
        BY <2>2, <2>4, <4>1
    <3> QED
      BY <3>2, <3>3
  <2> QED
    BY <2>2, <2>3, <2>4, <2>6 DEF IdsOK, InStream
<1>3. ASSUME NEW d \in deliveries, Handle(d)
      PROVE  IdsOK'
  <2>1. CASE Ack(d)
    BY <2>1 DEF IdsOK, BatchOK, DeliveriesOK, InStream, TypeOK, Entry, Delivery,
       Ack, Xack, SetPhase, workerVars
  <2>2. CASE AckXdel(d)
    BY <2>2 DEF IdsOK, BatchOK, DeliveriesOK, InStream, TypeOK, Entry, Delivery,
       AckXdel, Xdel, workerVars, historyVars
  <2>3. CASE AckReplyLost(d)
    BY <2>3 DEF IdsOK, BatchOK, DeliveriesOK, InStream, TypeOK, Entry, Delivery,
       AckReplyLost, Xdel, SetPhase, workerVars, historyVars
  <2>4. CASE Nack(d)
    BY <2>4 DEF IdsOK, BatchOK, DeliveriesOK, InStream, TypeOK, Entry, Delivery,
       Nack, serverVars, workerVars, historyVars
  <2>5. CASE NackExhausted(d)
    BY <2>5 DEF IdsOK, BatchOK, DeliveriesOK, InStream, TypeOK, Entry, Delivery,
       NackExhausted, SetPhase, serverVars, workerVars, historyVars
  <2>6. CASE NackRpush(d)
    BY <2>6 DEF IdsOK, BatchOK, DeliveriesOK, InStream, TypeOK, Entry, Delivery,
       NackRpush, SetPhase, workerVars, historyVars
  <2>7. CASE NackXack(d)
    BY <2>7 DEF IdsOK, BatchOK, DeliveriesOK, InStream, TypeOK, Entry, Delivery,
       NackXack, Xack, SetPhase, workerVars, historyVars
  <2>8. CASE CallFails(d)
    BY <2>8 DEF IdsOK, BatchOK, DeliveriesOK, InStream, TypeOK, Entry, Delivery,
       CallFails, SetPhase, serverVars, workerVars, historyVars
  <2>9. CASE Drop(d)
    BY <2>9 DEF IdsOK, BatchOK, DeliveriesOK, InStream, TypeOK, Entry, Delivery,
       Drop, serverVars, workerVars, historyVars
  <2> QED
    BY <1>3, <2>1, <2>2, <2>3, <2>4, <2>5, <2>6, <2>7, <2>8, <2>9 DEF Handle
<1>4. ASSUME NEW i \in pel, Deadline(i)
      PROVE  IdsOK'
  BY <1>4 DEF IdsOK, BatchOK, DeliveriesOK, InStream, TypeOK, Entry, Delivery,
     Deadline, workerVars
<1>5. ASSUME NEW w \in Workers, Worker(w)
      PROVE  IdsOK'
  <2>1. CASE Autoclaim(w)
    BY <2>1 DEF IdsOK, BatchOK, DeliveriesOK, InStream, TypeOK, Entry, Delivery,
       Autoclaim, historyVars
  <2>2. CASE Enpipe(w)
    BY <2>2 DEF IdsOK, BatchOK, DeliveriesOK, InStream, TypeOK, Entry, Delivery,
       Enpipe, serverVars, historyVars
  <2>3. CASE FindExhausted(w)
    BY <2>3 DEF IdsOK, BatchOK, DeliveriesOK, InStream, TypeOK, Entry, Delivery,
       FindExhausted, serverVars, historyVars
  <2>4. CASE WorkerRpush(w)
    BY <2>4 DEF IdsOK, BatchOK, DeliveriesOK, InStream, TypeOK, Entry, Delivery,
       WorkerRpush, historyVars
  <2>5. CASE AbortBatch(w)
    BY <2>5 DEF IdsOK, BatchOK, DeliveriesOK, InStream, TypeOK, Entry, Delivery,
       AbortBatch, Restart, serverVars, historyVars
  <2>6. CASE XaddCopy(w)
    BY <2>6 DEF IdsOK, BatchOK, DeliveriesOK, InStream, TypeOK, Entry, Delivery,
       XaddCopy, Xadd, historyVars
  <2>7. CASE XackBatch(w)
    BY <2>7 DEF IdsOK, BatchOK, DeliveriesOK, InStream, TypeOK, Entry, Delivery,
       XackBatch, Xack, Ids, historyVars
  <2>8. CASE XdelBatch(w)
    BY <2>8 DEF IdsOK, BatchOK, DeliveriesOK, InStream, TypeOK, Entry, Delivery,
       XdelBatch, Xdel, Restart, Ids, historyVars
  <2> QED
    BY <1>5, <2>1, <2>2, <2>3, <2>4, <2>5, <2>6, <2>7, <2>8 DEF Worker
<1>6. ASSUME NEW w \in Workers, WorkerFails(w)
      PROVE  IdsOK'
  BY <1>6 DEF IdsOK, BatchOK, DeliveriesOK, InStream, TypeOK, Entry, Delivery,
     WorkerFails, Restart, serverVars, historyVars
<1>7. CASE UNCHANGED vars
  BY <1>7 DEF IdsOK, BatchOK, DeliveriesOK, InStream, TypeOK, Entry, Delivery, vars
<1> QED
  BY <1>1, <1>2, <1>3, <1>4, <1>5, <1>6, <1>7 DEF Next

\* What a background task remembers of its batch stays true of the server.
LEMMA BatchNext == TypeOK /\ IdsOK /\ BatchOK /\ [Next]_vars => BatchOK'
<1> SUFFICES ASSUME TypeOK, IdsOK, BatchOK, [Next]_vars PROVE BatchOK'
  OBVIOUS
<1> USE StreamsAssumption
<1>1. ASSUME NEW p \in Payloads, Producer(p)
      PROVE  BatchOK'
  <2>1. CASE Send(p)
    BY <2>1 DEF IdsOK, BatchOK, InStream, WorkerState, TypeOK, Entry, Delivery,
       Send, Xadd, workerVars
  <2>2. CASE SendReplyLost(p)
    BY <2>2 DEF IdsOK, BatchOK, InStream, WorkerState, TypeOK, Entry, Delivery,
       SendReplyLost, Xadd, Fault, workerVars
  <2>3. CASE ForeignAdd(p)
    BY <2>3 DEF IdsOK, BatchOK, InStream, WorkerState, TypeOK, Entry, Delivery,
       ForeignAdd, Xadd, workerVars, historyVars
  <2> QED
    BY <1>1, <2>1, <2>2, <2>3 DEF Producer
<1>2. ASSUME NEW n \in 1..MaxMessages, Receive(n)
      PROVE  BatchOK'
  <2>1. PICK new \in SUBSET stream : \E last \in new :
           /\ \A e \in new : e.id > lastDelivered /\ e.id <= last.id
           /\ lastDelivered' = last.id
           /\ pel' = pel \cup Ids(new)
           /\ \A d \in deliveries' \ deliveries : \E e \in new :
                d = [id |-> e.id, payload |-> e.payload,
                     num_receives |-> NumReceives(e), phase |-> "held"]
           /\ UNCHANGED <<stream, lastId, dlq, pc, batch, todo, pipe>>
    BY <1>2, ReceiveEffect
  <2> QED
    BY <2>1 DEF BatchOK, TypeOK, Entry, Ids
<1>3. ASSUME NEW d \in deliveries, Handle(d)
      PROVE  BatchOK'
  <2>1. CASE Ack(d)
    BY <2>1 DEF IdsOK, BatchOK, InStream, WorkerState, TypeOK, Entry, Delivery, Ack,
       Xack, SetPhase, workerVars
  <2>2. CASE AckXdel(d)
    BY <2>2 DEF IdsOK, BatchOK, InStream, WorkerState, TypeOK, Entry, Delivery,
       AckXdel, Xdel, workerVars, historyVars
  <2>3. CASE AckReplyLost(d)
    BY <2>3 DEF IdsOK, BatchOK, InStream, WorkerState, TypeOK, Entry, Delivery,
       AckReplyLost, Xdel, SetPhase, workerVars, historyVars
  <2>4. CASE Nack(d)
    BY <2>4 DEF IdsOK, BatchOK, InStream, WorkerState, TypeOK, Entry, Delivery,
       Nack, serverVars, workerVars, historyVars
  <2>5. CASE NackExhausted(d)
    BY <2>5 DEF IdsOK, BatchOK, InStream, WorkerState, TypeOK, Entry, Delivery,
       NackExhausted, SetPhase, serverVars, workerVars, historyVars
  <2>6. CASE NackRpush(d)
    BY <2>6 DEF IdsOK, BatchOK, InStream, WorkerState, TypeOK, Entry, Delivery,
       NackRpush, SetPhase, workerVars, historyVars
  <2>7. CASE NackXack(d)
    BY <2>7 DEF IdsOK, BatchOK, InStream, WorkerState, TypeOK, Entry, Delivery,
       NackXack, Xack, SetPhase, workerVars, historyVars
  <2>8. CASE CallFails(d)
    BY <2>8 DEF IdsOK, BatchOK, InStream, WorkerState, TypeOK, Entry, Delivery,
       CallFails, SetPhase, serverVars, workerVars, historyVars
  <2>9. CASE Drop(d)
    BY <2>9 DEF IdsOK, BatchOK, InStream, WorkerState, TypeOK, Entry, Delivery,
       Drop, serverVars, workerVars, historyVars
  <2> QED
    BY <1>3, <2>1, <2>2, <2>3, <2>4, <2>5, <2>6, <2>7, <2>8, <2>9 DEF Handle
<1>4. ASSUME NEW i \in pel, Deadline(i)
      PROVE  BatchOK'
  BY <1>4 DEF IdsOK, BatchOK, InStream, WorkerState, TypeOK, Entry, Delivery,
     Deadline, workerVars
<1>5. ASSUME NEW w \in Workers, Worker(w)
      PROVE  BatchOK'
  <2>1. CASE Autoclaim(w)
    <3> DEFINE claimed == FirstOf(TimedOut, PendingBatchSize)
    <3>1. PendingBatchSize \in Nat
      OBVIOUS
    <3>2. claimed \subseteq TimedOut
      BY <3>1, TimedOutPrefix
    <3>3. \A e \in claimed : e \in stream /\ e.id \in pel
      BY <3>2 DEF TimedOut, TypeOK
    <3>4. /\ pc[w] = "idle" /\ pc' = [pc EXCEPT ![w] = "scan"]
          /\ batch' = [batch EXCEPT ![w] = claimed]
          /\ todo' = [todo EXCEPT ![w] = claimed]
          /\ UNCHANGED <<stream, lastDelivered, pel, pipe>>
      BY <2>1 DEF Autoclaim
    <3> HIDE DEF claimed
    <3>5. \A e, f \in claimed \cup stream : e.id = f.id => e = f
      BY <3>3 DEF IdsOK
    <3>6. \A e \in claimed : e.id <= lastDelivered
      BY <3>3 DEF IdsOK
    <3> QED
      BY <3>4, <3>5, <3>6 DEF BatchOK, TypeOK
  <2>2. CASE Enpipe(w)
    BY <2>2 DEF IdsOK, BatchOK, InStream, WorkerState, TypeOK, Entry, Delivery,
       Enpipe, serverVars, historyVars
  <2>3. CASE FindExhausted(w)
    BY <2>3 DEF IdsOK, BatchOK, InStream, WorkerState, TypeOK, Entry, Delivery,
       FindExhausted, serverVars, historyVars
  <2>4. CASE WorkerRpush(w)
    BY <2>4 DEF IdsOK, BatchOK, InStream, WorkerState, TypeOK, Entry, Delivery,
       WorkerRpush, historyVars
  <2>5. CASE AbortBatch(w)
    BY <2>5 DEF IdsOK, BatchOK, InStream, WorkerState, TypeOK, Entry, Delivery,
       AbortBatch, Restart, serverVars, historyVars
  <2>6. CASE XaddCopy(w)
    BY <2>6 DEF IdsOK, BatchOK, InStream, WorkerState, TypeOK, Entry, Delivery,
       XaddCopy, Xadd, historyVars
  <2>7. CASE XackBatch(w)
    BY <2>7 DEF IdsOK, BatchOK, InStream, WorkerState, TypeOK, Entry, Delivery,
       XackBatch, Xack, Ids, historyVars
  <2>8. CASE XdelBatch(w)
    BY <2>8 DEF IdsOK, BatchOK, InStream, WorkerState, TypeOK, Entry, Delivery,
       XdelBatch, Xdel, Restart, Ids, historyVars
  <2> QED
    BY <1>5, <2>1, <2>2, <2>3, <2>4, <2>5, <2>6, <2>7, <2>8 DEF Worker
<1>6. ASSUME NEW w \in Workers, WorkerFails(w)
      PROVE  BatchOK'
  BY <1>6 DEF IdsOK, BatchOK, InStream, WorkerState, TypeOK, Entry, Delivery,
     WorkerFails, Restart, serverVars, historyVars
<1>7. CASE UNCHANGED vars
  BY <1>7 DEF IdsOK, BatchOK, InStream, WorkerState, TypeOK, Entry, Delivery, vars
<1> QED
  BY <1>1, <1>2, <1>3, <1>4, <1>5, <1>6, <1>7 DEF Next

\* What a Delivery remembers of its entry stays true of the server.
LEMMA DeliveriesNext == TypeOK /\ IdsOK /\ DeliveriesOK /\ [Next]_vars => DeliveriesOK'
<1> SUFFICES ASSUME TypeOK, IdsOK, DeliveriesOK, [Next]_vars PROVE DeliveriesOK'
  OBVIOUS
<1> USE StreamsAssumption
<1>1. ASSUME NEW p \in Payloads, Producer(p)
      PROVE  DeliveriesOK'
  <2>1. CASE Send(p)
    BY <2>1 DEF IdsOK, DeliveriesOK, DeadLetters, InStream, TypeOK, Entry, Delivery,
       Send, Xadd, workerVars
  <2>2. CASE SendReplyLost(p)
    BY <2>2 DEF IdsOK, DeliveriesOK, DeadLetters, InStream, TypeOK, Entry, Delivery,
       SendReplyLost, Xadd, Fault, workerVars
  <2>3. CASE ForeignAdd(p)
    BY <2>3 DEF IdsOK, DeliveriesOK, DeadLetters, InStream, TypeOK, Entry, Delivery,
       ForeignAdd, Xadd, workerVars, historyVars
  <2> QED
    BY <1>1, <2>1, <2>2, <2>3 DEF Producer
<1>2. ASSUME NEW n \in 1..MaxMessages, Receive(n)
      PROVE  DeliveriesOK'
  <2>1. PICK new \in SUBSET stream : \E last \in new :
           /\ \A e \in new : e.id > lastDelivered /\ e.id <= last.id
           /\ lastDelivered' = last.id
           /\ pel' = pel \cup Ids(new)
           /\ \A d \in deliveries' \ deliveries : \E e \in new :
                d = [id |-> e.id, payload |-> e.payload,
                     num_receives |-> NumReceives(e), phase |-> "held"]
           /\ UNCHANGED <<stream, lastId, dlq, pc, batch, todo, pipe>>
    BY <1>2, ReceiveEffect
  <2>2. /\ lastDelivered \in Nat /\ DeadLetters' = DeadLetters
        /\ \A e \in stream : e.id \in Nat
        /\ \A d \in deliveries : d.id \in Nat
    BY <2>1 DEF TypeOK, Entry, Delivery, DeadLetters
  <2>3. PICK last \in new :
           /\ \A e \in new : e.id > lastDelivered /\ e.id <= last.id
           /\ lastDelivered' = last.id
           /\ pel' = pel \cup Ids(new)
    BY <2>1
  <2>4. ASSUME NEW d \in deliveries' \ deliveries
        PROVE  \E e \in new : d.id = e.id /\ d.payload = e.payload /\ d.phase = "held"
    BY <2>1
  <2>5. ASSUME NEW d \in deliveries
        PROVE  d.id <= lastDelivered' /\ (d.phase = "xdel" => d.id \notin pel')
    <3>1. d.id <= lastDelivered /\ (d.phase = "xdel" => d.id \notin pel)
      BY DEF DeliveriesOK
    <3>2. d.id <= last.id /\ d.id \notin Ids(new)
      BY <2>2, <2>3, <3>1 DEF Ids
    <3> QED
      BY <2>3, <3>1, <3>2
  <2> QED
    BY <2>1, <2>2, <2>3, <2>4, <2>5 DEF DeliveriesOK, IdsOK
<1>3. ASSUME NEW d \in deliveries, Handle(d)
      PROVE  DeliveriesOK'
  <2>1. CASE Ack(d)
    <3>1. \A x \in deliveries' :
             \/ x \in deliveries
             \/ x.id = d.id /\ x.payload = d.payload /\ x.phase = "xdel"
      BY <2>1, SetPhaseEffect DEF Ack, Phase
    <3>2. DeadLetters' = DeadLetters
      BY <2>1 DEF Ack, DeadLetters, serverVars
    <3> QED
      BY <2>1, <3>1, <3>2 DEF DeliveriesOK, TypeOK, Ack, Xack
  <2>2. CASE AckXdel(d)
    BY <2>2 DEF IdsOK, DeliveriesOK, DeadLetters, InStream, TypeOK, Entry, Delivery,
       AckXdel, Xdel, workerVars, historyVars
  <2>3. CASE AckReplyLost(d)
    <3>1. \A x \in deliveries' :
             \/ x \in deliveries
             \/ x.id = d.id /\ x.payload = d.payload /\ x.phase = "held"
      BY <2>3, SetPhaseEffect DEF AckReplyLost, Phase
    <3>2. DeadLetters' = DeadLetters
      BY <2>3 DEF AckReplyLost, DeadLetters
    <3>3. stream' \subseteq stream /\ pel' = pel /\ lastDelivered' = lastDelivered
      BY <2>3 DEF AckReplyLost, Xdel
    <3> QED
      BY <3>1, <3>2, <3>3 DEF DeliveriesOK
  <2>4. CASE Nack(d)
    BY <2>4 DEF IdsOK, DeliveriesOK, DeadLetters, InStream, TypeOK, Entry, Delivery,
       Nack, serverVars, workerVars, historyVars
  <2>5. CASE NackExhausted(d)
    <3>1. \A x \in deliveries' :
             \/ x \in deliveries
             \/ x.id = d.id /\ x.payload = d.payload /\ x.phase = "rpush"
      BY <2>5, SetPhaseEffect DEF NackExhausted, Phase
    <3>2. DeadLetters' = DeadLetters
      BY <2>5 DEF NackExhausted, DeadLetters, serverVars
    <3> QED
      BY <2>5, <3>1, <3>2 DEF DeliveriesOK, TypeOK, NackExhausted, serverVars
  <2>6. CASE NackRpush(d)
    <3>1. d.payload \in Payloads /\ dlq \in Seq(Payloads)
      BY DEF TypeOK, Delivery
    <3>2. DeadLetters' = DeadLetters \cup {d.payload}
      BY <2>6, <3>1, DeadLettersAfterRpush DEF NackRpush
    <3>3. \A x \in deliveries' :
             \/ x \in deliveries
             \/ x.id = d.id /\ x.payload = d.payload /\ x.phase = "xack"
      BY <2>6, SetPhaseEffect DEF NackRpush, Phase
    <3>4. stream' = stream /\ pel' = pel /\ lastDelivered' = lastDelivered
      BY <2>6 DEF NackRpush
    <3> QED
      BY <3>2, <3>3, <3>4 DEF DeliveriesOK
  <2>7. CASE NackXack(d)
    BY <2>7 DEF IdsOK, DeliveriesOK, DeadLetters, InStream, TypeOK, Entry, Delivery,
       NackXack, Xack, SetPhase, workerVars, historyVars
  <2>8. CASE CallFails(d)
    <3>1. \A x \in deliveries' :
             \/ x \in deliveries
             \/ x.id = d.id /\ x.payload = d.payload /\ x.phase = "held"
      BY <2>8, SetPhaseEffect DEF CallFails, Phase
    <3>2. DeadLetters' = DeadLetters
      BY <2>8 DEF CallFails, DeadLetters, serverVars
    <3> QED
      BY <2>8, <3>1, <3>2 DEF DeliveriesOK, TypeOK, CallFails, serverVars
  <2>9. CASE Drop(d)
    BY <2>9 DEF IdsOK, DeliveriesOK, DeadLetters, InStream, TypeOK, Entry, Delivery,
       Drop, serverVars, workerVars, historyVars
  <2> QED
    BY <1>3, <2>1, <2>2, <2>3, <2>4, <2>5, <2>6, <2>7, <2>8, <2>9 DEF Handle
<1>4. ASSUME NEW i \in pel, Deadline(i)
      PROVE  DeliveriesOK'
  BY <1>4 DEF IdsOK, DeliveriesOK, DeadLetters, InStream, TypeOK, Entry, Delivery,
     Deadline, workerVars
<1>5. ASSUME NEW w \in Workers, Worker(w)
      PROVE  DeliveriesOK'
  <2>1. CASE Autoclaim(w)
    BY <2>1 DEF IdsOK, DeliveriesOK, DeadLetters, InStream, TypeOK, Entry, Delivery,
       Autoclaim, historyVars
  <2>2. CASE Enpipe(w)
    BY <2>2 DEF IdsOK, DeliveriesOK, DeadLetters, InStream, TypeOK, Entry, Delivery,
       Enpipe, serverVars, historyVars
  <2>3. CASE FindExhausted(w)
    BY <2>3 DEF IdsOK, DeliveriesOK, DeadLetters, InStream, TypeOK, Entry, Delivery,
       FindExhausted, serverVars, historyVars
  <2>4. CASE WorkerRpush(w)
    <3>1. PICK e \in todo[w] : Rpush(e.payload)
      BY <2>4 DEF WorkerRpush
    <3>2. e.payload \in Payloads /\ dlq \in Seq(Payloads)
      BY DEF TypeOK, Entry
    <3>3. DeadLetters' = DeadLetters \cup {e.payload}
      BY <3>1, <3>2, DeadLettersAfterRpush
    <3> QED
      BY <2>4, <3>3 DEF WorkerRpush, DeliveriesOK, TypeOK, Delivery
  <2>5. CASE AbortBatch(w)
    BY <2>5 DEF IdsOK, DeliveriesOK, DeadLetters, InStream, TypeOK, Entry, Delivery,
       AbortBatch, Restart, serverVars, historyVars
  <2>6. CASE XaddCopy(w)
    BY <2>6 DEF IdsOK, DeliveriesOK, DeadLetters, InStream, TypeOK, Entry, Delivery,
       XaddCopy, Xadd, historyVars
  <2>7. CASE XackBatch(w)
    BY <2>7 DEF IdsOK, DeliveriesOK, DeadLetters, InStream, TypeOK, Entry, Delivery,
       XackBatch, Xack, Ids, historyVars
  <2>8. CASE XdelBatch(w)
    BY <2>8 DEF IdsOK, DeliveriesOK, DeadLetters, InStream, TypeOK, Entry, Delivery,
       XdelBatch, Xdel, Restart, Ids, historyVars
  <2> QED
    BY <1>5, <2>1, <2>2, <2>3, <2>4, <2>5, <2>6, <2>7, <2>8 DEF Worker
<1>6. ASSUME NEW w \in Workers, WorkerFails(w)
      PROVE  DeliveriesOK'
  BY <1>6 DEF IdsOK, DeliveriesOK, DeadLetters, InStream, TypeOK, Entry, Delivery,
     WorkerFails, Restart, serverVars, historyVars
<1>7. CASE UNCHANGED vars
  BY <1>7 DEF IdsOK, DeliveriesOK, DeadLetters, InStream, TypeOK, Entry, Delivery,
     vars
<1> QED
  BY <1>1, <1>2, <1>3, <1>4, <1>5, <1>6, <1>7 DEF Next

Placement == TypeOK /\ IdsOK /\ BatchOK /\ DeliveriesOK

\* The parts above together.
LEMMA PlacementNext ==
    ASSUME Placement, [Next]_vars
    PROVE  Placement'
BY TypeNext, IdsNext, BatchNext, DeliveriesNext DEF Placement

-----------------------------------------------------------------------------
(* No message is lost *)

\* XADD adds one entry, with the next id.
LEMMA XaddEffect ==
    ASSUME NEW p, NEW n, Xadd(p, n)
    PROVE  \E f \in stream' : /\ f.id = lastId + 1
                             /\ f.payload = p
                             /\ f.num_receives = n
                             /\ stream' = stream \cup {f}
<1>1. PICK f : f = [id |-> lastId + 1, payload |-> p, num_receives |-> n]
  OBVIOUS
<1>2. stream' = stream \cup {f} /\ f \in stream'
  BY <1>1 DEF Xadd
<1> QED
  BY <1>1, <1>2

\* A settled message stays settled.
LEMMA SettledStep ==
    ASSUME TypeOK, [Next]_vars
    PROVE  acked \subseteq acked' /\ DeadLetters \subseteq DeadLetters'
<1>1. acked \subseteq acked'
  BY DEF Next, vars, Producer, Send, SendReplyLost, ForeignAdd, Receive, Handle,
     Ack, AckXdel,
         AckReplyLost, Nack, NackExhausted, NackRpush, NackXack, CallFails, Drop, Deadline,
         Worker, Autoclaim, Enpipe, FindExhausted, WorkerRpush, AbortBatch, XaddCopy,
         XackBatch, XdelBatch, WorkerFails, historyVars
<1>2. ASSUME UNCHANGED dlq
      PROVE  DeadLetters \subseteq DeadLetters'
  BY <1>2 DEF DeadLetters
<1>3. ASSUME NEW p \in Payloads, Rpush(p)
      PROVE  DeadLetters \subseteq DeadLetters'
  BY <1>3, DeadLettersAfterRpush DEF TypeOK
<1>4. \/ UNCHANGED dlq
      \/ \E d \in deliveries : Rpush(d.payload)
      \/ \E w \in Workers : \E e \in todo[w] : Rpush(e.payload)
  BY DEF Next, vars, Producer, Send, SendReplyLost, ForeignAdd, Receive, Handle,
     Ack, AckXdel,
         AckReplyLost, Nack, NackExhausted, NackRpush, NackXack, CallFails, Drop, Deadline,
         Worker, Autoclaim, Enpipe, FindExhausted, WorkerRpush, AbortBatch, XaddCopy,
         XackBatch, XdelBatch, WorkerFails, serverVars
<1>5. /\ \A d \in deliveries : d.payload \in Payloads
      /\ \A w \in Workers : \A e \in todo[w] : e.payload \in Payloads
  BY DEF TypeOK, Delivery, Entry
<1> QED
  BY <1>1, <1>2, <1>3, <1>4, <1>5

\* A live entry stays live unless its XACK runs: in an ack or at the end of a
\* nack, which settle its message, or as part of a batch.
LEMMA LiveStep ==
    ASSUME Placement, [Next]_vars, NEW f \in stream, Live(f)
    PROVE  \/ f \in stream' /\ Live(f)'
           \/ Settled(f.payload)'
           \/ \E w \in Workers : XackBatch(w) /\ f \in batch[w]
<1> DEFINE Goal == \/ f \in stream' /\ Live(f)'
                   \/ Settled(f.payload)'
                   \/ \E w \in Workers : XackBatch(w) /\ f \in batch[w]
<1> SUFFICES Goal
  OBVIOUS
<1> USE DEF Placement
<1>1. ASSUME stream \subseteq stream', pel \subseteq pel', lastDelivered' = lastDelivered
      PROVE  Goal
  BY <1>1 DEF Live
<1>2. ASSUME NEW S, \A i \in S : i \notin pel /\ i <= lastDelivered,
             Xdel(S), pel' = pel, lastDelivered' = lastDelivered
      PROVE  Goal
  BY <1>2 DEF Live, Xdel, TypeOK, Entry
<1>3. ASSUME NEW p \in Payloads, Producer(p)
      PROVE  Goal
  BY <1>1, <1>3 DEF Producer, Send, SendReplyLost, ForeignAdd, Xadd
<1>4. ASSUME NEW n \in 1..MaxMessages, Receive(n)
      PROVE  Goal
  <2>1. PICK new \in SUBSET stream : \E last \in new :
           /\ \A e \in stream : e.id > lastDelivered /\ e.id <= last.id => e \in new
           /\ lastDelivered' = last.id
           /\ pel' = pel \cup Ids(new)
           /\ stream' = stream
    BY <1>4, ReceiveEffect
  <2> QED
    BY <2>1 DEF Live, Ids, TypeOK, Entry
<1>5. ASSUME NEW d \in deliveries, Handle(d)
      PROVE  Goal
  <2>1. CASE Ack(d)
    <3>1. f.id = d.id => f.payload = d.payload
      BY DEF DeliveriesOK
    <3>2. f.id # d.id => f \in stream' /\ Live(f)'
      BY <2>1 DEF Ack, Xack, Live
    <3> QED
      BY <2>1, <3>1, <3>2 DEF Ack, Settled
  <2>2. CASE AckXdel(d)
    BY <1>2, <2>2 DEF AckXdel, DeliveriesOK
  <2>3. CASE AckReplyLost(d)
    BY <1>2, <2>3 DEF AckReplyLost, DeliveriesOK
  <2>4. CASE NackXack(d)
    <3>1. f.id = d.id => f.payload \in DeadLetters
      BY <2>4 DEF DeliveriesOK, NackXack
    <3>2. f.id # d.id => f \in stream' /\ Live(f)'
      BY <2>4 DEF NackXack, Xack, Live
    <3>3. DeadLetters' = DeadLetters
      BY <2>4 DEF NackXack, DeadLetters
    <3> QED
      BY <3>1, <3>2, <3>3 DEF Settled
  <2>5. CASE Nack(d) \/ NackExhausted(d) \/ NackRpush(d) \/ CallFails(d) \/ Drop(d)
    BY <1>1, <2>5 DEF Nack, NackExhausted, NackRpush, CallFails, Drop, serverVars
  <2> QED
    BY <1>5, <2>1, <2>2, <2>3, <2>4, <2>5 DEF Handle
<1>6. ASSUME NEW i \in pel, Deadline(i)
      PROVE  Goal
  BY <1>1, <1>6 DEF Deadline
<1>7. ASSUME NEW w \in Workers, Worker(w)
      PROVE  Goal
  <2>1. CASE XackBatch(w)
    <3>1. f.id \in Ids(batch[w]) => f \in batch[w]
      BY DEF BatchOK, Ids
    <3>2. f.id \notin Ids(batch[w]) => f \in stream' /\ Live(f)'
      BY <2>1 DEF XackBatch, Xack, Live
    <3> QED
      BY <2>1, <3>1, <3>2
  <2>2. CASE XdelBatch(w)
    <3>1. \A i \in Ids(batch[w]) : i \notin pel /\ i <= lastDelivered
      BY <2>2 DEF XdelBatch, BatchOK, Ids
    <3> QED
      BY <1>2, <2>2, <3>1 DEF XdelBatch
  <2>3. CASE \/ Autoclaim(w) \/ Enpipe(w) \/ FindExhausted(w) \/ WorkerRpush(w)
             \/ AbortBatch(w) \/ XaddCopy(w)
    BY <1>1, <2>3 DEF Autoclaim, Enpipe, FindExhausted, WorkerRpush, AbortBatch,
                      XaddCopy, Xadd, serverVars
  <2> QED
    BY <1>7, <2>1, <2>2, <2>3 DEF Worker
<1>8. ASSUME NEW w \in Workers, WorkerFails(w)
      PROVE  Goal
  BY <1>1, <1>8 DEF WorkerFails, serverVars
<1>9. CASE UNCHANGED vars
  BY <1>1, <1>9 DEF vars
<1> QED
  BY <1>3, <1>4, <1>5, <1>6, <1>7, <1>8, <1>9 DEF Next

\* A message placed above a set of entries stays so, whatever another task
\* acknowledges: that task has placed it higher still.
LEMMA PlacedStep ==
    ASSUME Placement, Covered, [Next]_vars,
           NEW p, NEW S \in SUBSET Entry, PlacedAbove(p, S)
    PROVE  PlacedAbove(p, S)'
<1>1. CASE Settled(p)
  BY <1>1, SettledStep DEF Placement, Settled, PlacedAbove
<1>2. ASSUME NEW f \in stream, f.payload = p, Live(f), \A g \in S : f.id > g.id
      PROVE  PlacedAbove(p, S)'
  <2>1. CASE f \in stream' /\ Live(f)'
    BY <1>2, <2>1 DEF PlacedAbove
  <2>2. CASE Settled(f.payload)'
    BY <1>2, <2>2 DEF PlacedAbove
  <2>3. ASSUME NEW w \in Workers, XackBatch(w), f \in batch[w]
        PROVE  PlacedAbove(p, S)'
    <3>1. PlacedAbove(p, batch[w])
      BY <1>2, <2>3 DEF Covered, XackBatch
    <3>2. CASE Settled(p)
      BY <3>2, SettledStep DEF Placement, Settled, PlacedAbove
    <3>3. ASSUME NEW h \in stream, h.payload = p, Live(h), \A g \in batch[w] : h.id > g.id
          PROVE  PlacedAbove(p, S)'
      <4>1. h.id \notin Ids(batch[w])
        BY <3>3 DEF Ids, Placement, TypeOK, Entry
      <4>2. h \in stream' /\ Live(h)'
        BY <2>3, <3>3, <4>1 DEF XackBatch, Xack, Live
      <4>3. h.id > f.id
        BY <2>3, <3>3
      <4>4. \A g \in S : h.id > g.id
        BY <1>2, <4>3 DEF Placement, TypeOK, Entry
      <4> QED
        BY <3>3, <4>2, <4>4 DEF PlacedAbove
    <3> QED
      BY <3>1, <3>2, <3>3 DEF PlacedAbove
  <2> QED
    BY <1>2, <2>1, <2>2, <2>3, LiveStep
<1> QED
  BY <1>1, <1>2 DEF PlacedAbove

\* Every step keeps Covered: the loop lets go of an entry only once its message
\* has a new place.
LEMMA CoveredNext ==
    ASSUME Placement, Covered, [Next]_vars
    PROVE  Covered'
<1> SUFFICES ASSUME NEW w \in Workers, NEW e \in batch'[w] \ (todo'[w] \cup pipe'[w])
             PROVE  PlacedAbove(e.payload, batch[w])'
  BY DEF Covered
<1>1. ASSUME UNCHANGED <<batch, todo, pipe>>
      PROVE  PlacedAbove(e.payload, batch[w])'
  <2>1. PICK S \in SUBSET Entry : S = batch[w]
    BY DEF Placement, TypeOK
  <2>2. PlacedAbove(e.payload, S)
    BY <1>1, <2>1 DEF Covered
  <2>3. PlacedAbove(e.payload, S)'
    BY <2>2, PlacedStep
  <2> QED
    BY <1>1, <2>1, <2>3 DEF PlacedAbove
<1>2. ASSUME batch'[w] = batch[w], e \in batch[w] \ (todo[w] \cup pipe[w])
      PROVE  PlacedAbove(e.payload, batch[w])'
  <2>1. PICK S \in SUBSET Entry : S = batch[w]
    BY DEF Placement, TypeOK
  <2>2. PlacedAbove(e.payload, S)
    BY <1>2, <2>1 DEF Covered
  <2>3. PlacedAbove(e.payload, S)'
    BY <2>2, PlacedStep
  <2> QED
    BY <1>2, <2>1, <2>3 DEF PlacedAbove
<1>3. ASSUME NEW v \in Workers, Worker(v)
      PROVE  PlacedAbove(e.payload, batch[w])'
  <2>1. CASE v # w
    <3>1. /\ batch'[w] = batch[w]
          /\ todo'[w] = todo[w]
          /\ pipe'[w] = pipe[w]
      BY <1>3, <2>1 DEF Worker, Autoclaim, Enpipe, FindExhausted, WorkerRpush,
         AbortBatch,
                        XaddCopy, XackBatch, XdelBatch, Restart, Placement, TypeOK
    <3> QED
      BY <1>2, <3>1
  <2>2. CASE v = w
    <3>1. CASE Autoclaim(w)
      <4>1. batch'[w] = todo'[w]
        BY <3>1 DEF Autoclaim, Placement, TypeOK
      <4> QED
        BY <4>1
    <3>2. CASE Enpipe(w)
      <4>1. PICK g \in todo[w] : /\ pipe' = [pipe EXCEPT ![w] = @ \cup {g}]
                                 /\ todo' = [todo EXCEPT ![w] = @ \ {g}]
                                 /\ batch' = batch
        BY <3>2 DEF Enpipe
      <4>2. todo'[w] \cup pipe'[w] = todo[w] \cup pipe[w]
        BY <4>1 DEF Placement, TypeOK
      <4> QED
        BY <1>2, <4>1, <4>2
    <3>3. CASE FindExhausted(w) \/ XackBatch(w)
      BY <1>1, <3>3 DEF FindExhausted, XackBatch
    <3>4. CASE WorkerRpush(w)
      <4>1. PICK g \in todo[w] : /\ Rpush(g.payload)
                                 /\ todo' = [todo EXCEPT ![w] = @ \ {g}]
                                 /\ batch' = batch
                                 /\ pipe' = pipe
        BY <3>4 DEF WorkerRpush
      <4>2. g.payload \in Payloads /\ dlq \in Seq(Payloads)
        BY DEF Placement, TypeOK, Entry
      <4>3. g.payload \in DeadLetters'
        BY <4>1, <4>2, DeadLettersAfterRpush
      <4>4. CASE e = g
        BY <4>3, <4>4 DEF PlacedAbove, Settled
      <4>5. CASE e # g
        <5>1. e \in batch[w] \ (todo[w] \cup pipe[w])
          BY <4>1, <4>5 DEF Placement, TypeOK
        <5> QED
          BY <1>2, <4>1, <5>1
      <4> QED
        BY <4>4, <4>5
    <3>5. CASE XaddCopy(w)
      <4>1. PICK g \in pipe[w] : /\ Xadd(g.payload, NumReceives(g))
                                 /\ pipe' = [pipe EXCEPT ![w] = @ \ {g}]
                                 /\ batch' = batch
                                 /\ todo' = todo
                                 /\ UNCHANGED <<pel, lastDelivered>>
        BY <3>5 DEF XaddCopy
      <4>2. CASE e = g
        <5>1. PICK f \in stream' : f.id = lastId + 1 /\ f.payload = e.payload
          BY <4>1, <4>2, XaddEffect
        <5>2. f.id > lastDelivered /\ \A h \in batch[w] : f.id > h.id
          BY <5>1 DEF Placement, IdsOK, BatchOK, TypeOK, Entry
        <5>3. Live(f)' /\ \A h \in batch'[w] : f.id > h.id
          BY <4>1, <5>2 DEF Live
        <5> QED
          BY <5>1, <5>3 DEF PlacedAbove
      <4>3. CASE e # g
        <5>1. e \in batch[w] \ (todo[w] \cup pipe[w])
          BY <4>1, <4>3 DEF Placement, TypeOK
        <5> QED
          BY <1>2, <4>1, <5>1
      <4> QED
        BY <4>2, <4>3
    <3>6. CASE AbortBatch(w) \/ XdelBatch(w)
      <4>1. batch'[w] = {}
        BY <3>6 DEF AbortBatch, XdelBatch, Restart, Placement, TypeOK
      <4> QED
        BY <4>1
    <3> QED
      BY <1>3, <2>2, <3>1, <3>2, <3>3, <3>4, <3>5, <3>6 DEF Worker
  <2> QED
    BY <2>1, <2>2
<1>4. ASSUME NEW v \in Workers, WorkerFails(v)
      PROVE  PlacedAbove(e.payload, batch[w])'
  <2>1. CASE v = w
    <3>1. batch'[w] = {}
      BY <1>4, <2>1 DEF WorkerFails, Restart, Placement, TypeOK
    <3> QED
      BY <3>1
  <2>2. CASE v # w
    <3>1. /\ batch'[w] = batch[w]
          /\ todo'[w] = todo[w]
          /\ pipe'[w] = pipe[w]
      BY <1>4, <2>2 DEF WorkerFails, Restart, Placement, TypeOK
    <3> QED
      BY <1>2, <3>1
  <2> QED
    BY <2>1, <2>2
<1>5. CASE \/ \E p \in Payloads : Producer(p)
           \/ \E n \in 1..MaxMessages : Receive(n)
           \/ \E d \in deliveries : Handle(d)
           \/ \E i \in pel : Deadline(i)
           \/ UNCHANGED vars
  <2>1. UNCHANGED <<batch, todo, pipe>>
    BY <1>5 DEF Producer, Send, SendReplyLost, ForeignAdd, Receive, Handle, Ack,
       AckXdel,
                AckReplyLost, Nack, NackExhausted, NackRpush, NackXack, CallFails, Drop,
                Deadline, workerVars, vars
  <2> QED
    BY <1>1, <2>1
<1> QED
  BY <1>3, <1>4, <1>5 DEF Next

\* Every step keeps NoLoss: an XACK removes only what is settled or covered.
LEMMA NoLossNext ==
    ASSUME Placement, Covered, NoLoss, [Next]_vars
    PROVE  NoLoss'
<1> SUFFICES ASSUME NEW p \in sent' PROVE PlacedAbove(p, {})'
  BY DEF NoLoss, PlacedAbove
<1>1. CASE p \in sent
  <2>1. PlacedAbove(p, {})
    BY <1>1 DEF NoLoss, PlacedAbove
  <2> QED
    BY <2>1, PlacedStep
<1>2. CASE p \notin sent
  <2>1. PICK q \in Payloads : Send(q)
    BY <1>2 DEF Next, vars, Producer, SendReplyLost, ForeignAdd, Receive, Handle,
       Ack, AckXdel,
         AckReplyLost, Nack, NackExhausted, NackRpush, NackXack, CallFails, Drop, Deadline,
         Worker, Autoclaim, Enpipe, FindExhausted, WorkerRpush, AbortBatch, XaddCopy,
         XackBatch, XdelBatch, WorkerFails, historyVars
  <2>2. p = q
    BY <1>2, <2>1 DEF Send
  <2>3. PICK f \in stream' : f.id = lastId + 1 /\ f.payload = p
    BY <2>1, <2>2, XaddEffect DEF Send
  <2>4. Live(f)'
    BY <2>1, <2>3 DEF Send, Live, Placement, TypeOK, IdsOK
  <2> QED
    BY <2>3, <2>4 DEF PlacedAbove
<1> QED
  BY <1>1, <1>2

-----------------------------------------------------------------------------
(* Receives are counted, and bounded *)

\* A receive counts each entry it hands out.
LEMMA ReceiveCounts ==
    ASSUME TypeOK, NEW new \in SUBSET stream, IsFiniteSet(new),
           receives' = [p \in Payloads |->
                          receives[p] + Cardinality({e \in new : e.payload = p})]
    PROVE  /\ receives' \in [Payloads -> Nat]
           /\ \A p \in Payloads : receives[p] <= receives'[p]
           /\ \A e \in new : receives[e.payload] + 1 <= receives'[e.payload]
           /\ \A p \in Payloads :
                (\A e \in new : e.payload # p) => receives'[p] = receives[p]
           /\ \A e \in new :
                (\A f \in new : f.payload = e.payload => f = e)
                  => receives'[e.payload] = receives[e.payload] + 1
<1> DEFINE Of(p) == {e \in new : e.payload = p}
<1>1. ASSUME NEW p \in Payloads
      PROVE  IsFiniteSet(Of(p)) /\ Cardinality(Of(p)) \in Nat
  BY FS_Subset, FS_CardinalityType
<1>2. \A p \in Payloads : /\ receives'[p] = receives[p] + Cardinality(Of(p))
                          /\ receives[p] \in Nat
  BY DEF TypeOK
<1>3. ASSUME NEW p \in Payloads, \A e \in new : e.payload # p
      PROVE  receives'[p] = receives[p]
  <2>1. Of(p) = {}
    BY <1>3
  <2>2. Cardinality(Of(p)) = 0
    BY <2>1, FS_EmptySet
  <2> QED
    BY <1>2, <2>2
<1>4. ASSUME NEW e \in new
      PROVE  receives[e.payload] + 1 <= receives'[e.payload]
  <2>1. e \in Of(e.payload) /\ e.payload \in Payloads
    BY DEF TypeOK, Entry
  <2>2. Cardinality(Of(e.payload)) # 0
    BY <1>1, <2>1, FS_EmptySet
  <2> HIDE DEF Of
  <2> QED
    BY <1>1, <1>2, <2>1, <2>2
<1>5. ASSUME NEW e \in new, \A f \in new : f.payload = e.payload => f = e
      PROVE  receives'[e.payload] = receives[e.payload] + 1
  <2>1. e.payload \in Payloads
    BY DEF TypeOK, Entry
  <2>2. Of(e.payload) = {e}
    BY <1>5
  <2>3. Cardinality(Of(e.payload)) = 1
    BY <2>2, FS_Singleton
  <2> QED
    BY <1>2, <2>1, <2>3
<1>6. \A p \in Payloads : receives'[p] \in Nat /\ receives[p] <= receives'[p]
  <2> HIDE DEF Of
  <2> QED
    BY <1>1, <1>2
<1>7. receives' \in [Payloads -> Nat]
  BY <1>6
<1> QED
  BY <1>3, <1>4, <1>5, <1>6, <1>7

\* Stored counts never run ahead of the receives.
LEMMA CountsNext == Placement /\ CountsOK /\ [Next]_vars => CountsOK'
<1> SUFFICES ASSUME Placement, CountsOK, [Next]_vars PROVE CountsOK'
  OBVIOUS
<1> USE StreamsAssumption
<1>1. ASSUME NEW p \in Payloads, Producer(p)
      PROVE  CountsOK'
  <2>1. CASE Send(p)
    BY <2>1 DEF CountsOK, BatchOK, DeliveriesOK, IdsOK, NumReceives, IsOldest,
       WorkerState, Placement, TypeOK, Entry, Delivery, Send, Xadd, workerVars
  <2>2. CASE SendReplyLost(p)
    BY <2>2 DEF CountsOK, BatchOK, DeliveriesOK, IdsOK, NumReceives, IsOldest,
       WorkerState, Placement, TypeOK, Entry, Delivery, SendReplyLost, Xadd, Fault,
       workerVars
  <2>3. CASE ForeignAdd(p)
    BY <2>3 DEF CountsOK, BatchOK, DeliveriesOK, IdsOK, NumReceives, IsOldest,
       WorkerState, Placement, TypeOK, Entry, Delivery, ForeignAdd, Xadd,
       workerVars, historyVars
  <2> QED
    BY <1>1, <2>1, <2>2, <2>3 DEF Producer
<1>2. ASSUME NEW n \in 1..MaxMessages, Receive(n)
      PROVE  CountsOK'
  <2>1. PICK new \in SUBSET stream : \E last \in new :
           /\ IsFiniteSet(new)
           /\ \A e \in new : e.id > lastDelivered /\ e.id <= last.id
           /\ \A e \in stream : e.id > lastDelivered /\ e.id <= last.id => e \in new
           /\ lastDelivered' = last.id
           /\ \A d \in deliveries' \ deliveries : \E e \in new :
                d = [id |-> e.id, payload |-> e.payload,
                     num_receives |-> NumReceives(e), phase |-> "held"]
           /\ receives' = [p \in Payloads |->
                             receives[p] + Cardinality({e \in new : e.payload = p})]
           /\ UNCHANGED <<stream, pc, batch, todo, stale, late, sent, dlq>>
    BY <1>2, ReceiveEffect DEF Placement
  <2>2. /\ receives' \in [Payloads -> Nat]
        /\ \A p \in Payloads : receives[p] <= receives'[p]
        /\ \A e \in new : receives[e.payload] + 1 <= receives'[e.payload]
    BY <2>1, ReceiveCounts DEF Placement
  <2> USE DEF NumReceives
  <2>3. /\ receives \in [Payloads -> Nat]
        /\ \A e \in stream : e.payload \in Payloads /\ e.num_receives \in Nat /\ e.id \in Nat
        /\ \A w \in Workers : \A e \in batch[w] : e.payload \in Payloads /\ e.num_receives \in Nat
        /\ \A d \in deliveries : d.payload \in Payloads /\ d.num_receives \in Nat
    BY DEF Placement, TypeOK, Entry, Delivery
  <2>4. ASSUME NEW e \in stream'
        PROVE  /\ e.num_receives <= receives'[e.payload]
               /\ e.id <= lastDelivered' => NumReceives(e) <= receives'[e.payload]
    <3>1. e.num_receives <= receives[e.payload] /\ receives[e.payload] <= receives'[e.payload]
      BY <2>1, <2>2, <2>3 DEF CountsOK
    <3>2. CASE e.id <= lastDelivered
      <4>1. NumReceives(e) <= receives[e.payload]
        BY <2>1, <3>2 DEF CountsOK
      <4> QED
        BY <2>1, <2>2, <2>3, <3>1, <4>1
    <3>3. CASE e \in new
      <4>1. receives[e.payload] + 1 <= receives'[e.payload]
        BY <2>2, <3>3
      <4>2. e.payload \in Payloads /\ e.num_receives \in Nat
        BY <2>3, <3>3
      <4> QED
        BY <2>2, <2>3, <3>1, <4>1, <4>2
    <3>4. CASE ~(e.id <= lastDelivered) /\ e \notin new
      <4>1. ~(e.id <= lastDelivered')
        BY <2>1, <2>3, <3>4 DEF Placement, TypeOK
      <4> QED
        BY <2>1, <2>2, <2>3, <3>1, <4>1
    <3> QED
      BY <3>2, <3>3, <3>4
  <2>5. ASSUME NEW w \in Workers, NEW e \in batch'[w]
        PROVE  NumReceives(e) <= receives'[e.payload]
    <3>1. NumReceives(e) <= receives[e.payload]
      BY <2>1 DEF CountsOK
    <3>2. e.payload \in Payloads /\ e.num_receives \in Nat
      BY <2>1, <2>3
    <3> QED
      BY <2>2, <2>3, <3>1, <3>2
  <2>6. ASSUME NEW d \in deliveries'
        PROVE  /\ d.num_receives <= receives'[d.payload]
               /\ d.phase = "rpush" => MaxRetriesReached(d.num_receives)
    <3>1. CASE d \in deliveries
      <4>1. /\ d.num_receives <= receives[d.payload]
            /\ d.phase = "rpush" => MaxRetriesReached(d.num_receives)
        BY <3>1 DEF CountsOK
      <4> QED
        BY <2>2, <2>3, <3>1, <4>1
    <3>2. CASE d \notin deliveries
      <4>1. PICK e \in new : d = [id |-> e.id, payload |-> e.payload,
                                  num_receives |-> NumReceives(e), phase |-> "held"]
        BY <2>1, <3>2
      <4>2. e.num_receives <= receives[e.payload]
        BY DEF CountsOK
      <4> QED
        BY <2>2, <2>3, <4>1, <4>2
    <3> QED
      BY <3>1, <3>2
  <2>7. \A w \in Workers : \A e \in todo'[w] :
          pc'[w] = "rpush" /\ IsOldest(e, todo'[w]) => MaxRetriesReached(NumReceives(e))
    BY <2>1 DEF CountsOK
  <2> QED
    BY <2>4, <2>5, <2>6, <2>7 DEF CountsOK
<1>3. ASSUME NEW d \in deliveries, Handle(d)
      PROVE  CountsOK'
  <2>1. CASE Ack(d)
    BY <2>1 DEF CountsOK, BatchOK, DeliveriesOK, IdsOK, NumReceives, IsOldest,
       WorkerState, Placement, TypeOK, Entry, Delivery, Ack, Xack, SetPhase,
       workerVars
  <2>2. CASE AckXdel(d)
    BY <2>2 DEF CountsOK, BatchOK, DeliveriesOK, IdsOK, NumReceives, IsOldest,
       WorkerState, Placement, TypeOK, Entry, Delivery, AckXdel, Xdel, workerVars,
       historyVars
  <2>3. CASE AckReplyLost(d)
    BY <2>3 DEF CountsOK, BatchOK, DeliveriesOK, IdsOK, NumReceives, IsOldest,
       WorkerState, Placement, TypeOK, Entry, Delivery, AckReplyLost, Xdel,
       SetPhase, workerVars, historyVars
  <2>4. CASE Nack(d)
    BY <2>4 DEF CountsOK, BatchOK, DeliveriesOK, IdsOK, NumReceives, IsOldest,
       WorkerState, Placement, TypeOK, Entry, Delivery, Nack, serverVars,
       workerVars, historyVars
  <2>5. CASE NackExhausted(d)
    BY <2>5 DEF CountsOK, BatchOK, DeliveriesOK, IdsOK, NumReceives, IsOldest,
       WorkerState, Placement, TypeOK, Entry, Delivery, NackExhausted, SetPhase,
       serverVars, workerVars, historyVars
  <2>6. CASE NackRpush(d)
    BY <2>6 DEF CountsOK, BatchOK, DeliveriesOK, IdsOK, NumReceives, IsOldest,
       WorkerState, Placement, TypeOK, Entry, Delivery, NackRpush, SetPhase,
       workerVars, historyVars
  <2>7. CASE NackXack(d)
    BY <2>7 DEF CountsOK, BatchOK, DeliveriesOK, IdsOK, NumReceives, IsOldest,
       WorkerState, Placement, TypeOK, Entry, Delivery, NackXack, Xack, SetPhase,
       workerVars, historyVars
  <2>8. CASE CallFails(d)
    BY <2>8 DEF CountsOK, BatchOK, DeliveriesOK, IdsOK, NumReceives, IsOldest,
       WorkerState, Placement, TypeOK, Entry, Delivery, CallFails, SetPhase,
       serverVars, workerVars, historyVars
  <2>9. CASE Drop(d)
    BY <2>9 DEF CountsOK, BatchOK, DeliveriesOK, IdsOK, NumReceives, IsOldest,
       WorkerState, Placement, TypeOK, Entry, Delivery, Drop, serverVars,
       workerVars, historyVars
  <2> QED
    BY <1>3, <2>1, <2>2, <2>3, <2>4, <2>5, <2>6, <2>7, <2>8, <2>9 DEF Handle
<1>4. ASSUME NEW i \in pel, Deadline(i)
      PROVE  CountsOK'
  BY <1>4 DEF CountsOK, BatchOK, DeliveriesOK, IdsOK, NumReceives, IsOldest,
     WorkerState, Placement, TypeOK, Entry, Delivery, Deadline, workerVars
<1>5. ASSUME NEW w \in Workers, Worker(w)
      PROVE  CountsOK'
  <2>1. CASE Autoclaim(w)
    <3> DEFINE claimed == FirstOf(TimedOut, PendingBatchSize)
    <3>1. PendingBatchSize \in Nat
      OBVIOUS
    <3>2. claimed \subseteq TimedOut
      BY <3>1, TimedOutPrefix DEF Placement
    <3>3. \A e \in claimed : NumReceives(e) <= receives[e.payload]
      BY <3>2 DEF TimedOut, CountsOK, Placement, TypeOK, IdsOK
    <3>4. /\ pc' = [pc EXCEPT ![w] = "scan"]
          /\ batch' = [batch EXCEPT ![w] = claimed]
          /\ todo' = [todo EXCEPT ![w] = claimed]
          /\ UNCHANGED <<stream, lastDelivered, deliveries, receives>>
      BY <2>1 DEF Autoclaim, historyVars
    <3> HIDE DEF claimed
    <3> QED
      BY <3>3, <3>4 DEF CountsOK, Placement, TypeOK
  <2>2. CASE Enpipe(w)
    BY <2>2 DEF CountsOK, BatchOK, DeliveriesOK, IdsOK, NumReceives, IsOldest,
       WorkerState, Placement, TypeOK, Entry, Delivery, Enpipe, serverVars,
       historyVars
  <2>3. CASE FindExhausted(w)
    BY <2>3 DEF CountsOK, BatchOK, DeliveriesOK, IdsOK, NumReceives, IsOldest,
       WorkerState, Placement, TypeOK, Entry, Delivery, FindExhausted, serverVars,
       historyVars
  <2>4. CASE WorkerRpush(w)
    BY <2>4 DEF CountsOK, BatchOK, DeliveriesOK, IdsOK, NumReceives, IsOldest,
       WorkerState, Placement, TypeOK, Entry, Delivery, WorkerRpush, historyVars
  <2>5. CASE AbortBatch(w)
    BY <2>5 DEF CountsOK, BatchOK, DeliveriesOK, IdsOK, NumReceives, IsOldest,
       WorkerState, Placement, TypeOK, Entry, Delivery, AbortBatch, Restart,
       serverVars, historyVars
  <2>6. CASE XaddCopy(w)
    BY <2>6 DEF CountsOK, BatchOK, DeliveriesOK, IdsOK, NumReceives, IsOldest,
       WorkerState, Placement, TypeOK, Entry, Delivery, XaddCopy, Xadd, historyVars
  <2>7. CASE XackBatch(w)
    BY <2>7 DEF CountsOK, BatchOK, DeliveriesOK, IdsOK, NumReceives, IsOldest,
       WorkerState, Placement, TypeOK, Entry, Delivery, XackBatch, Xack, Ids,
       historyVars
  <2>8. CASE XdelBatch(w)
    BY <2>8 DEF CountsOK, BatchOK, DeliveriesOK, IdsOK, NumReceives, IsOldest,
       WorkerState, Placement, TypeOK, Entry, Delivery, XdelBatch, Xdel, Restart,
       Ids, historyVars
  <2> QED
    BY <1>5, <2>1, <2>2, <2>3, <2>4, <2>5, <2>6, <2>7, <2>8 DEF Worker
<1>6. ASSUME NEW w \in Workers, WorkerFails(w)
      PROVE  CountsOK'
  BY <1>6 DEF CountsOK, BatchOK, DeliveriesOK, IdsOK, NumReceives, IsOldest,
     WorkerState, Placement, TypeOK, Entry, Delivery, WorkerFails, Restart,
     serverVars, historyVars
<1>7. CASE UNCHANGED vars
  BY <1>7 DEF CountsOK, BatchOK, DeliveriesOK, IdsOK, NumReceives, IsOldest,
     WorkerState, Placement, TypeOK, Entry, Delivery, vars
<1> QED
  BY <1>1, <1>2, <1>3, <1>4, <1>5, <1>6, <1>7 DEF Next

\* The number of receives of a payload never shrinks.
LEMMA ReceivesStep ==
    ASSUME TypeOK, [Next]_vars, NEW p \in Payloads
    PROVE  receives[p] <= receives'[p] /\ receives[p] \in Nat /\ receives'[p] \in Nat
<1>1. CASE UNCHANGED receives
  BY <1>1 DEF TypeOK
<1>2. ASSUME NEW n \in 1..MaxMessages, Receive(n)
      PROVE  receives[p] <= receives'[p] /\ receives[p] \in Nat /\ receives'[p] \in Nat
  <2>1. PICK new \in SUBSET stream :
          /\ IsFiniteSet(new)
          /\ receives' = [q \in Payloads |->
                            receives[q] + Cardinality({e \in new : e.payload = q})]
    BY <1>2, ReceiveEffect
  <2>2. receives' \in [Payloads -> Nat] /\ \A q \in Payloads : receives[q] <= receives'[q]
    BY <2>1, ReceiveCounts
  <2> QED
    BY <2>2 DEF TypeOK
<1>3. UNCHANGED receives \/ \E n \in 1..MaxMessages : Receive(n)
  BY DEF Next, vars, Producer, Send, SendReplyLost, ForeignAdd, Handle, Ack,
     AckXdel,
         AckReplyLost, Nack, NackExhausted, NackRpush, NackXack, CallFails, Drop, Deadline,
         Worker, Autoclaim, Enpipe, FindExhausted, WorkerRpush, AbortBatch, XaddCopy,
         XackBatch, XdelBatch, WorkerFails, historyVars
<1> QED
  BY <1>1, <1>2, <1>3

\* A payload that is new on the dead letter list was received max_receives times.
LEMMA DeadLettersStep ==
    ASSUME Placement, CountsOK, [Next]_vars, NEW p \in DeadLetters', p \notin DeadLetters
    PROVE  p \in Payloads /\ MaxReceives <= receives[p]
<1> USE StreamsAssumption
<1>1. ASSUME UNCHANGED dlq PROVE FALSE
  BY <1>1 DEF DeadLetters
<1>2. ASSUME NEW q \in Payloads, Rpush(q), NEW n \in Nat, MaxRetriesReached(n), n <= receives[q]
      PROVE  p \in Payloads /\ MaxReceives <= receives[p]
  <2>1. p = q
    BY <1>2, DeadLettersAfterRpush DEF Placement, TypeOK
  <2> QED
    BY <1>2, <2>1 DEF MaxRetriesReached, Placement, TypeOK
<1>3. ASSUME NEW d \in deliveries, NackRpush(d)
      PROVE  p \in Payloads /\ MaxReceives <= receives[p]
  <2>1. d.payload \in Payloads /\ d.num_receives \in Nat
    BY DEF Placement, TypeOK, Delivery
  <2>2. MaxRetriesReached(d.num_receives) /\ d.num_receives <= receives[d.payload]
    BY <1>3 DEF CountsOK, NackRpush
  <2> QED
    BY <1>2, <1>3, <2>1, <2>2 DEF NackRpush
<1>4. ASSUME NEW w \in Workers, WorkerRpush(w)
      PROVE  p \in Payloads /\ MaxReceives <= receives[p]
  <2>1. PICK e \in todo[w] : pc[w] = "rpush" /\ IsOldest(e, todo[w]) /\ Rpush(e.payload)
    BY <1>4 DEF WorkerRpush
  <2>2. e.payload \in Payloads /\ NumReceives(e) \in Nat
    BY DEF Placement, TypeOK, Entry, NumReceives
  <2>3. MaxRetriesReached(NumReceives(e)) /\ NumReceives(e) <= receives[e.payload]
    BY <2>1 DEF CountsOK, Placement, BatchOK
  <2> QED
    BY <1>2, <2>1, <2>2, <2>3
<1>5. \/ UNCHANGED dlq
      \/ \E d \in deliveries : NackRpush(d)
      \/ \E w \in Workers : WorkerRpush(w)
  BY DEF Next, vars, Producer, Send, SendReplyLost, ForeignAdd, Receive, Handle,
     Ack, AckXdel,
         AckReplyLost, Nack, NackExhausted, NackXack, CallFails, Drop, Deadline,
         Worker, Autoclaim, Enpipe, FindExhausted, AbortBatch, XaddCopy,
         XackBatch, XdelBatch, WorkerFails, serverVars
<1> QED
  BY <1>1, <1>3, <1>4, <1>5

\* Every step keeps DeadLetterNotEarly.
LEMMA DeadLetterNext ==
    ASSUME Placement, CountsOK, DeadLetterNotEarly, [Next]_vars
    PROVE  DeadLetterNotEarly'
<1> SUFFICES ASSUME NEW p \in DeadLetters' PROVE receives'[p] >= MaxReceives
  BY DEF DeadLetterNotEarly
<1>1. p \in Payloads /\ MaxReceives <= receives[p]
  <2>1. CASE p \in DeadLetters
    <3>1. p \in Payloads
      BY <2>1 DEF DeadLetters, Placement, TypeOK
    <3> QED
      BY <2>1, <3>1, StreamsAssumption DEF DeadLetterNotEarly, Placement, TypeOK
  <2> QED
    BY <2>1, DeadLettersStep
<1> QED
  BY <1>1, ReceivesStep, StreamsAssumption DEF Placement

\* Only what may be received once more is written back to the stream.
LEMMA RetriesNext == Placement /\ RetriesOK /\ [Next]_vars => RetriesOK'
<1> SUFFICES ASSUME Placement, RetriesOK, [Next]_vars PROVE RetriesOK'
  OBVIOUS
<1> USE StreamsAssumption
<1>1. ASSUME NEW p \in Payloads, Producer(p)
      PROVE  RetriesOK'
  <2>1. CASE Send(p)
    BY <2>1 DEF Send, Xadd, RetriesOK, workerVars
  <2>2. CASE SendReplyLost(p)
    BY <2>2 DEF SendReplyLost, Xadd, RetriesOK, workerVars
  <2>3. CASE ForeignAdd(p)
    BY <2>3 DEF ForeignAdd, Xadd, RetriesOK, workerVars
  <2> QED
    BY <1>1, <2>1, <2>2, <2>3 DEF Producer
<1>2. ASSUME NEW n \in 1..MaxMessages, Receive(n)
      PROVE  RetriesOK'
  <2>1. UNCHANGED <<stream, pipe>>
    BY <1>2 DEF Receive, workerVars
  <2> QED
    BY <2>1 DEF RetriesOK
<1>3. ASSUME NEW d \in deliveries, Handle(d)
      PROVE  RetriesOK'
  <2>1. CASE Ack(d)
    BY <2>1 DEF RetriesOK, NumReceives, Placement, TypeOK, Entry, Delivery, Ack,
       Xack, SetPhase, workerVars
  <2>2. CASE AckXdel(d)
    BY <2>2 DEF RetriesOK, NumReceives, Placement, TypeOK, Entry, Delivery, AckXdel,
       Xdel, workerVars, historyVars
  <2>3. CASE AckReplyLost(d)
    BY <2>3 DEF RetriesOK, NumReceives, Placement, TypeOK, Entry, Delivery,
       AckReplyLost, Xdel, SetPhase, workerVars, historyVars
  <2>4. CASE Nack(d)
    BY <2>4 DEF RetriesOK, NumReceives, Placement, TypeOK, Entry, Delivery, Nack,
       serverVars, workerVars, historyVars
  <2>5. CASE NackExhausted(d)
    BY <2>5 DEF RetriesOK, NumReceives, Placement, TypeOK, Entry, Delivery,
       NackExhausted, SetPhase, serverVars, workerVars, historyVars
  <2>6. CASE NackRpush(d)
    BY <2>6 DEF RetriesOK, NumReceives, Placement, TypeOK, Entry, Delivery,
       NackRpush, SetPhase, workerVars, historyVars
  <2>7. CASE NackXack(d)
    BY <2>7 DEF RetriesOK, NumReceives, Placement, TypeOK, Entry, Delivery,
       NackXack, Xack, SetPhase, workerVars, historyVars
  <2>8. CASE CallFails(d)
    BY <2>8 DEF RetriesOK, NumReceives, Placement, TypeOK, Entry, Delivery,
       CallFails, SetPhase, serverVars, workerVars, historyVars
  <2>9. CASE Drop(d)
    BY <2>9 DEF RetriesOK, NumReceives, Placement, TypeOK, Entry, Delivery, Drop,
       serverVars, workerVars, historyVars
  <2> QED
    BY <1>3, <2>1, <2>2, <2>3, <2>4, <2>5, <2>6, <2>7, <2>8, <2>9 DEF Handle
<1>4. ASSUME NEW i \in pel, Deadline(i)
      PROVE  RetriesOK'
  BY <1>4 DEF RetriesOK, NumReceives, Placement, TypeOK, Entry, Delivery, Deadline,
     workerVars
<1>5. ASSUME NEW w \in Workers, Worker(w)
      PROVE  RetriesOK'
  <2>1. CASE Autoclaim(w)
    BY <2>1 DEF RetriesOK, NumReceives, Placement, TypeOK, Entry, Delivery,
       Autoclaim, historyVars
  <2>2. CASE Enpipe(w)
    BY <2>2 DEF RetriesOK, NumReceives, Placement, TypeOK, Entry, Delivery, Enpipe,
       serverVars, historyVars
  <2>3. CASE FindExhausted(w)
    BY <2>3 DEF RetriesOK, NumReceives, Placement, TypeOK, Entry, Delivery,
       FindExhausted, serverVars, historyVars
  <2>4. CASE WorkerRpush(w)
    BY <2>4 DEF RetriesOK, NumReceives, Placement, TypeOK, Entry, Delivery,
       WorkerRpush, historyVars
  <2>5. CASE AbortBatch(w)
    BY <2>5 DEF RetriesOK, NumReceives, Placement, TypeOK, Entry, Delivery,
       AbortBatch, Restart, serverVars, historyVars
  <2>6. CASE XaddCopy(w)
    BY <2>6 DEF RetriesOK, NumReceives, Placement, TypeOK, Entry, Delivery,
       XaddCopy, Xadd, historyVars
  <2>7. CASE XackBatch(w)
    BY <2>7 DEF RetriesOK, NumReceives, Placement, TypeOK, Entry, Delivery,
       XackBatch, Xack, Ids, historyVars
  <2>8. CASE XdelBatch(w)
    BY <2>8 DEF RetriesOK, NumReceives, Placement, TypeOK, Entry, Delivery,
       XdelBatch, Xdel, Restart, Ids, historyVars
  <2> QED
    BY <1>5, <2>1, <2>2, <2>3, <2>4, <2>5, <2>6, <2>7, <2>8 DEF Worker
<1>6. ASSUME NEW w \in Workers, WorkerFails(w)
      PROVE  RetriesOK'
  BY <1>6 DEF RetriesOK, NumReceives, Placement, TypeOK, Entry, Delivery,
     WorkerFails, Restart, serverVars, historyVars
<1>7. CASE UNCHANGED vars
  BY <1>7 DEF RetriesOK, NumReceives, Placement, TypeOK, Entry, Delivery, vars
<1> QED
  BY <1>1, <1>2, <1>3, <1>4, <1>5, <1>6, <1>7 DEF Next

\* Every step keeps ReceivesBounded: what is on the stream may be received.
LEMMA BoundedNext == Placement /\ RetriesOK /\ ReceivesBounded /\ [Next]_vars => ReceivesBounded'
<1> SUFFICES ASSUME Placement, RetriesOK, ReceivesBounded, [Next]_vars PROVE ReceivesBounded'
  OBVIOUS
<1> USE StreamsAssumption
<1>1. ASSUME NEW p \in Payloads, Producer(p)
      PROVE  ReceivesBounded'
  <2>1. CASE Send(p)
    BY <2>1 DEF ReceivesBounded, Placement, TypeOK, Entry, Delivery, Send, Xadd,
       workerVars
  <2>2. CASE SendReplyLost(p)
    BY <2>2 DEF ReceivesBounded, Placement, TypeOK, Entry, Delivery, SendReplyLost,
       Xadd, Fault, workerVars
  <2>3. CASE ForeignAdd(p)
    BY <2>3 DEF ReceivesBounded, Placement, TypeOK, Entry, Delivery, ForeignAdd,
       Xadd, workerVars, historyVars
  <2> QED
    BY <1>1, <2>1, <2>2, <2>3 DEF Producer
<1>2. ASSUME NEW n \in 1..MaxMessages, Receive(n)
      PROVE  ReceivesBounded'
  <2>1. PICK new \in SUBSET stream : \A d \in deliveries' \ deliveries : \E e \in new :
                d = [id |-> e.id, payload |-> e.payload,
                     num_receives |-> NumReceives(e), phase |-> "held"]
    BY <1>2, ReceiveEffect DEF Placement
  <2>2. ASSUME NEW e \in new, UseDlq
        PROVE  NumReceives(e) <= MaxReceives \/ NumReceives(e) = 1
    BY <2>2 DEF RetriesOK, MaxRetriesReached, NumReceives, Placement, TypeOK, Entry
  <2>3. ASSUME NEW d \in deliveries' \ deliveries, UseDlq
        PROVE  d.num_receives <= MaxReceives \/ d.num_receives = 1
    BY <2>1, <2>2, <2>3
  <2> QED
    BY <2>3 DEF ReceivesBounded
<1>3. ASSUME NEW d \in deliveries, Handle(d)
      PROVE  ReceivesBounded'
  <2>1. CASE Ack(d)
    BY <2>1 DEF ReceivesBounded, Placement, TypeOK, Entry, Delivery, Ack, Xack,
       SetPhase, workerVars
  <2>2. CASE AckXdel(d)
    BY <2>2 DEF ReceivesBounded, Placement, TypeOK, Entry, Delivery, AckXdel, Xdel,
       workerVars, historyVars
  <2>3. CASE AckReplyLost(d)
    BY <2>3 DEF ReceivesBounded, Placement, TypeOK, Entry, Delivery, AckReplyLost,
       Xdel, SetPhase, workerVars, historyVars
  <2>4. CASE Nack(d)
    BY <2>4 DEF ReceivesBounded, Placement, TypeOK, Entry, Delivery, Nack,
       serverVars, workerVars, historyVars
  <2>5. CASE NackExhausted(d)
    BY <2>5 DEF ReceivesBounded, Placement, TypeOK, Entry, Delivery, NackExhausted,
       SetPhase, serverVars, workerVars, historyVars
  <2>6. CASE NackRpush(d)
    BY <2>6 DEF ReceivesBounded, Placement, TypeOK, Entry, Delivery, NackRpush,
       SetPhase, workerVars, historyVars
  <2>7. CASE NackXack(d)
    BY <2>7 DEF ReceivesBounded, Placement, TypeOK, Entry, Delivery, NackXack, Xack,
       SetPhase, workerVars, historyVars
  <2>8. CASE CallFails(d)
    BY <2>8 DEF ReceivesBounded, Placement, TypeOK, Entry, Delivery, CallFails,
       SetPhase, serverVars, workerVars, historyVars
  <2>9. CASE Drop(d)
    BY <2>9 DEF ReceivesBounded, Placement, TypeOK, Entry, Delivery, Drop,
       serverVars, workerVars, historyVars
  <2> QED
    BY <1>3, <2>1, <2>2, <2>3, <2>4, <2>5, <2>6, <2>7, <2>8, <2>9 DEF Handle
<1>4. ASSUME NEW i \in pel, Deadline(i)
      PROVE  ReceivesBounded'
  BY <1>4 DEF ReceivesBounded, Placement, TypeOK, Entry, Delivery, Deadline,
     workerVars
<1>5. ASSUME NEW w \in Workers, Worker(w)
      PROVE  ReceivesBounded'
  <2>1. CASE Autoclaim(w)
    BY <2>1 DEF ReceivesBounded, Placement, TypeOK, Entry, Delivery, Autoclaim,
       historyVars
  <2>2. CASE Enpipe(w)
    BY <2>2 DEF ReceivesBounded, Placement, TypeOK, Entry, Delivery, Enpipe,
       serverVars, historyVars
  <2>3. CASE FindExhausted(w)
    BY <2>3 DEF ReceivesBounded, Placement, TypeOK, Entry, Delivery, FindExhausted,
       serverVars, historyVars
  <2>4. CASE WorkerRpush(w)
    BY <2>4 DEF ReceivesBounded, Placement, TypeOK, Entry, Delivery, WorkerRpush,
       historyVars
  <2>5. CASE AbortBatch(w)
    BY <2>5 DEF ReceivesBounded, Placement, TypeOK, Entry, Delivery, AbortBatch,
       Restart, serverVars, historyVars
  <2>6. CASE XaddCopy(w)
    BY <2>6 DEF ReceivesBounded, Placement, TypeOK, Entry, Delivery, XaddCopy, Xadd,
       historyVars
  <2>7. CASE XackBatch(w)
    BY <2>7 DEF ReceivesBounded, Placement, TypeOK, Entry, Delivery, XackBatch,
       Xack, Ids, historyVars
  <2>8. CASE XdelBatch(w)
    BY <2>8 DEF ReceivesBounded, Placement, TypeOK, Entry, Delivery, XdelBatch,
       Xdel, Restart, Ids, historyVars
  <2> QED
    BY <1>5, <2>1, <2>2, <2>3, <2>4, <2>5, <2>6, <2>7, <2>8 DEF Worker
<1>6. ASSUME NEW w \in Workers, WorkerFails(w)
      PROVE  ReceivesBounded'
  BY <1>6 DEF ReceivesBounded, Placement, TypeOK, Entry, Delivery, WorkerFails,
     Restart, serverVars, historyVars
<1>7. CASE UNCHANGED vars
  BY <1>7 DEF ReceivesBounded, Placement, TypeOK, Entry, Delivery, vars
<1> QED
  BY <1>1, <1>2, <1>3, <1>4, <1>5, <1>6, <1>7 DEF Next

-----------------------------------------------------------------------------
(* What is on time is handed out once *)

\* A message that is on time has one entry, which no background task has claimed.
LEMMA TimelyNext == Placement /\ TimelyOK /\ [Next]_vars => TimelyOK'
<1> SUFFICES ASSUME Placement, TimelyOK, [Next]_vars PROVE TimelyOK'
  OBVIOUS
<1> USE StreamsAssumption
<1>1. ASSUME NEW p \in Payloads, Producer(p)
      PROVE  TimelyOK'
  <2>1. CASE Send(p)
    BY <2>1 DEF TimelyOK, IdsOK, BatchOK, DeliveriesOK, Placement, TypeOK, Entry,
       Delivery, Send, Xadd, workerVars
  <2>2. CASE SendReplyLost(p)
    BY <2>2 DEF TimelyOK, IdsOK, BatchOK, DeliveriesOK, Placement, TypeOK, Entry,
       Delivery, SendReplyLost, Xadd, Fault, workerVars
  <2>3. CASE ForeignAdd(p)
    BY <2>3 DEF TimelyOK, IdsOK, BatchOK, DeliveriesOK, Placement, TypeOK, Entry,
       Delivery, ForeignAdd, Xadd, workerVars, historyVars
  <2> QED
    BY <1>1, <2>1, <2>2, <2>3 DEF Producer
<1>2. ASSUME NEW n \in 1..MaxMessages, Receive(n)
      PROVE  TimelyOK'
  <2>1. PICK new \in SUBSET stream : \E last \in new :
           /\ IsFiniteSet(new)
           /\ \A e \in new : e.id > lastDelivered /\ e.id <= last.id
           /\ \A e \in stream : e.id > lastDelivered /\ e.id <= last.id => e \in new
           /\ lastDelivered' = last.id
           /\ receives' = [p \in Payloads |->
                             receives[p] + Cardinality({e \in new : e.payload = p})]
           /\ UNCHANGED <<stream, batch, stale, sent, late>>
    BY <1>2, ReceiveEffect DEF Placement
  <2>2. \A p \in Payloads : (\A e \in new : e.payload # p) => receives'[p] = receives[p]
    BY <2>1, ReceiveCounts DEF Placement
  <2>3. ASSUME NEW p \in Payloads \ (late \cup Undecodable)
        PROVE  /\ p \notin sent => receives'[p] = 0
               /\ \A e \in stream : e.payload = p /\ e.id > lastDelivered' => receives'[p] = 0
    <3>1. CASE p \notin sent
      <4>1. receives[p] = 0 /\ \A e \in stream : e.payload # p
        BY <3>1 DEF TimelyOK
      <4> QED
        BY <2>2, <4>1
    <3>2. ASSUME NEW e \in stream, e.payload = p, e.id > lastDelivered'
          PROVE  receives'[p] = 0
      <4>1. e.id > lastDelivered /\ e \notin new
        BY <2>1, <3>2 DEF Placement, TypeOK, Entry
      <4>2. receives[p] = 0 /\ \A f \in stream : f.payload = p => f = e
        BY <3>2, <4>1 DEF TimelyOK
      <4> QED
        BY <2>2, <4>1, <4>2
    <3> QED
      BY <3>1, <3>2
  <2> QED
    BY <2>1, <2>3 DEF TimelyOK
<1>3. ASSUME NEW d \in deliveries, Handle(d)
      PROVE  TimelyOK'
  <2>1. CASE Ack(d)
    BY <2>1 DEF TimelyOK, IdsOK, BatchOK, DeliveriesOK, Placement, TypeOK, Entry,
       Delivery, Ack, Xack, SetPhase, workerVars
  <2>2. CASE AckXdel(d)
    BY <2>2 DEF TimelyOK, IdsOK, BatchOK, DeliveriesOK, Placement, TypeOK, Entry,
       Delivery, AckXdel, Xdel, workerVars, historyVars
  <2>3. CASE AckReplyLost(d)
    BY <2>3 DEF TimelyOK, IdsOK, BatchOK, DeliveriesOK, Placement, TypeOK, Entry,
       Delivery, AckReplyLost, Xdel, SetPhase, workerVars, historyVars
  <2>4. CASE Nack(d)
    BY <2>4 DEF TimelyOK, IdsOK, BatchOK, DeliveriesOK, Placement, TypeOK, Entry,
       Delivery, Nack, serverVars, workerVars, historyVars
  <2>5. CASE NackExhausted(d)
    BY <2>5 DEF TimelyOK, IdsOK, BatchOK, DeliveriesOK, Placement, TypeOK, Entry,
       Delivery, NackExhausted, SetPhase, serverVars, workerVars, historyVars
  <2>6. CASE NackRpush(d)
    BY <2>6 DEF TimelyOK, IdsOK, BatchOK, DeliveriesOK, Placement, TypeOK, Entry,
       Delivery, NackRpush, SetPhase, workerVars, historyVars
  <2>7. CASE NackXack(d)
    BY <2>7 DEF TimelyOK, IdsOK, BatchOK, DeliveriesOK, Placement, TypeOK, Entry,
       Delivery, NackXack, Xack, SetPhase, workerVars, historyVars
  <2>8. CASE CallFails(d)
    BY <2>8 DEF TimelyOK, IdsOK, BatchOK, DeliveriesOK, Placement, TypeOK, Entry,
       Delivery, CallFails, SetPhase, serverVars, workerVars, historyVars
  <2>9. CASE Drop(d)
    BY <2>9 DEF TimelyOK, IdsOK, BatchOK, DeliveriesOK, Placement, TypeOK, Entry,
       Delivery, Drop, serverVars, workerVars, historyVars
  <2> QED
    BY <1>3, <2>1, <2>2, <2>3, <2>4, <2>5, <2>6, <2>7, <2>8, <2>9 DEF Handle
<1>4. ASSUME NEW i \in pel, Deadline(i)
      PROVE  TimelyOK'
  <2>1. PICK e \in stream : /\ e.id = i
                           /\ stale' = stale \cup {i}
                           /\ late' = late \cup {e.payload}
    BY <1>4 DEF Deadline
  <2>2. \A f \in stream : f.id = i => f = e
    BY <2>1 DEF Placement, IdsOK
  <2>3. UNCHANGED <<stream, lastDelivered, batch, sent, receives>>
    BY <1>4 DEF Deadline, workerVars
  <2> QED
    BY <2>1, <2>2, <2>3 DEF TimelyOK
<1>5. ASSUME NEW w \in Workers, Worker(w)
      PROVE  TimelyOK'
  <2>1. CASE Autoclaim(w)
    <3> DEFINE claimed == FirstOf(TimedOut, PendingBatchSize)
    <3>1. PendingBatchSize \in Nat
      OBVIOUS
    <3>2. claimed \subseteq TimedOut
      BY <3>1, TimedOutPrefix DEF Placement
    <3>3. \A e \in claimed : e.payload \in late
      BY <3>2 DEF TimedOut, TimelyOK
    <3>4. /\ batch' = [batch EXCEPT ![w] = claimed]
          /\ stale' \subseteq stale
          /\ UNCHANGED <<stream, lastDelivered, historyVars>>
      BY <2>1 DEF Autoclaim
    <3> HIDE DEF claimed
    <3> QED
      BY <3>3, <3>4 DEF TimelyOK, Placement, TypeOK, historyVars
  <2>2. CASE Enpipe(w)
    BY <2>2 DEF TimelyOK, IdsOK, BatchOK, DeliveriesOK, Placement, TypeOK, Entry,
       Delivery, Enpipe, serverVars, historyVars
  <2>3. CASE FindExhausted(w)
    BY <2>3 DEF TimelyOK, IdsOK, BatchOK, DeliveriesOK, Placement, TypeOK, Entry,
       Delivery, FindExhausted, serverVars, historyVars
  <2>4. CASE WorkerRpush(w)
    BY <2>4 DEF TimelyOK, IdsOK, BatchOK, DeliveriesOK, Placement, TypeOK, Entry,
       Delivery, WorkerRpush, historyVars
  <2>5. CASE AbortBatch(w)
    BY <2>5 DEF TimelyOK, IdsOK, BatchOK, DeliveriesOK, Placement, TypeOK, Entry,
       Delivery, AbortBatch, Restart, serverVars, historyVars
  <2>6. CASE XaddCopy(w)
    BY <2>6 DEF TimelyOK, IdsOK, BatchOK, DeliveriesOK, Placement, TypeOK, Entry,
       Delivery, XaddCopy, Xadd, historyVars
  <2>7. CASE XackBatch(w)
    BY <2>7 DEF TimelyOK, IdsOK, BatchOK, DeliveriesOK, Placement, TypeOK, Entry,
       Delivery, XackBatch, Xack, Ids, historyVars
  <2>8. CASE XdelBatch(w)
    BY <2>8 DEF TimelyOK, IdsOK, BatchOK, DeliveriesOK, Placement, TypeOK, Entry,
       Delivery, XdelBatch, Xdel, Restart, Ids, historyVars
  <2> QED
    BY <1>5, <2>1, <2>2, <2>3, <2>4, <2>5, <2>6, <2>7, <2>8 DEF Worker
<1>6. ASSUME NEW w \in Workers, WorkerFails(w)
      PROVE  TimelyOK'
  BY <1>6 DEF TimelyOK, IdsOK, BatchOK, DeliveriesOK, Placement, TypeOK, Entry,
     Delivery, WorkerFails, Restart, serverVars, historyVars
<1>7. CASE UNCHANGED vars
  BY <1>7 DEF TimelyOK, IdsOK, BatchOK, DeliveriesOK, Placement, TypeOK, Entry,
     Delivery, vars
<1> QED
  BY <1>1, <1>2, <1>3, <1>4, <1>5, <1>6, <1>7 DEF Next

\* Every step keeps OnceWhenTimely: that one entry is handed out once.
LEMMA OnceNext ==
    ASSUME Placement, TimelyOK, OnceWhenTimely, [Next]_vars
    PROVE  OnceWhenTimely'
<1>1. ASSUME NEW n \in 1..MaxMessages, Receive(n)
      PROVE  OnceWhenTimely'
  <2>1. PICK new \in SUBSET stream : \E last \in new :
           /\ IsFiniteSet(new)
           /\ \A e \in new : e.id > lastDelivered /\ e.id <= last.id
           /\ receives' = [p \in Payloads |->
                             receives[p] + Cardinality({e \in new : e.payload = p})]
           /\ UNCHANGED <<stream, sent, late>>
    BY <1>1, ReceiveEffect DEF Placement
  <2>2. /\ \A p \in Payloads : (\A e \in new : e.payload # p) => receives'[p] = receives[p]
        /\ \A e \in new : (\A f \in new : f.payload = e.payload => f = e)
                            => receives'[e.payload] = receives[e.payload] + 1
    BY <2>1, ReceiveCounts DEF Placement
  <2>3. ASSUME NEW p \in sent \ late
        PROVE  receives'[p] <= 1
    <3>1. p \in Payloads \ (late \cup Undecodable)
      BY DEF TimelyOK, Placement, TypeOK
    <3>2. CASE \A e \in new : e.payload # p
      BY <2>2, <3>1, <3>2 DEF OnceWhenTimely
    <3>3. ASSUME NEW e \in new, e.payload = p
          PROVE  receives'[p] <= 1
      <4>1. receives[p] = 0
        BY <2>1, <3>1, <3>3 DEF TimelyOK
      <4>2. \A f \in new : f.payload = e.payload => f = e
        BY <3>1, <3>3 DEF TimelyOK
      <4>3. receives'[p] = 1
        BY <2>2, <3>3, <4>1, <4>2
      <4> QED
        BY <4>3
    <3> QED
      BY <3>2, <3>3
  <2> QED
    BY <2>1, <2>3 DEF OnceWhenTimely
<1>2. ASSUME NEW p \in Payloads, Send(p)
      PROVE  OnceWhenTimely'
  <2>1. p \in late \/ receives[p] = 0
    BY <1>2 DEF Send, TimelyOK
  <2> QED
    BY <1>2, <2>1 DEF Send, OnceWhenTimely
<1>3. ASSUME UNCHANGED <<sent, receives>>, late \subseteq late'
      PROVE  OnceWhenTimely'
  BY <1>3 DEF OnceWhenTimely
<1>4. \/ \E n \in 1..MaxMessages : Receive(n)
      \/ \E p \in Payloads : Send(p)
      \/ UNCHANGED <<sent, receives>> /\ late \subseteq late'
  <2>1. ASSUME NEW d \in deliveries, Handle(d)
        PROVE  UNCHANGED <<sent, receives>> /\ late \subseteq late'
    BY <2>1 DEF Handle, Ack, AckXdel, AckReplyLost, Nack, NackExhausted, NackRpush,
           NackXack, CallFails, Drop, historyVars
  <2>2. ASSUME NEW w \in Workers, Worker(w) \/ WorkerFails(w)
        PROVE  UNCHANGED <<sent, receives>> /\ late \subseteq late'
    BY <2>2 DEF Worker, Autoclaim, Enpipe, FindExhausted, WorkerRpush, AbortBatch, XaddCopy,
           XackBatch, XdelBatch, WorkerFails, historyVars
  <2>3. ASSUME NEW p \in Payloads, SendReplyLost(p) \/ ForeignAdd(p)
        PROVE  UNCHANGED <<sent, receives>> /\ late \subseteq late'
    BY <2>3 DEF SendReplyLost, ForeignAdd, historyVars
  <2>4. ASSUME NEW i \in pel, Deadline(i)
        PROVE  UNCHANGED <<sent, receives>> /\ late \subseteq late'
    BY <2>4 DEF Deadline, historyVars
  <2> QED
    BY <2>1, <2>2, <2>3, <2>4 DEF Next, vars, Producer
<1> QED
  BY <1>1, <1>2, <1>3, <1>4

-----------------------------------------------------------------------------
(* The invariant is inductive, and the theorems *)

\* The invariant holds initially ...
LEMMA StreamsInit == Init => StreamsInv
<1> SUFFICES ASSUME Init PROVE StreamsInv
  OBVIOUS
<1>1. TypeOK
  BY TypeInit
<1>2. DeadLetters = {}
  BY DEF Init, DeadLetters
<1>3. IdsOK /\ BatchOK /\ DeliveriesOK
  BY DEF Init, IdsOK, BatchOK, DeliveriesOK
<1>4. Covered /\ NoLoss /\ DeadLetterNotEarly
  BY <1>2 DEF Init, Covered, NoLoss, DeadLetterNotEarly
<1>5. CountsOK /\ RetriesOK /\ ReceivesBounded
  BY DEF Init, CountsOK, RetriesOK, ReceivesBounded
<1>6. TimelyOK /\ OnceWhenTimely
  BY DEF Init, TimelyOK, OnceWhenTimely
<1> QED
  BY <1>1, <1>3, <1>4, <1>5, <1>6 DEF StreamsInv

\* ... and every step keeps it.
LEMMA StreamsNext == StreamsInv /\ [Next]_vars => StreamsInv'
<1> SUFFICES ASSUME StreamsInv, [Next]_vars PROVE StreamsInv'
  OBVIOUS
<1>1. Placement
  BY DEF StreamsInv, Placement
<1>2. TypeOK' /\ IdsOK' /\ BatchOK' /\ DeliveriesOK'
  BY <1>1, PlacementNext DEF Placement
<1>3. Covered' /\ NoLoss'
  BY <1>1, CoveredNext, NoLossNext DEF StreamsInv
<1>4. CountsOK' /\ DeadLetterNotEarly'
  BY <1>1, CountsNext, DeadLetterNext DEF StreamsInv
<1>5. RetriesOK' /\ ReceivesBounded'
  BY <1>1, RetriesNext, BoundedNext DEF StreamsInv
<1>6. TimelyOK' /\ OnceWhenTimely'
  BY <1>1, TimelyNext, OnceNext DEF StreamsInv
<1> QED
  BY <1>2, <1>3, <1>4, <1>5, <1>6 DEF StreamsInv

\* The conjunction of everything below is an invariant: the one induction the
\* theorems share.
THEOREM StreamsInvariant == Spec => []StreamsInv
BY StreamsInit, StreamsNext, PTL DEF Spec

\* send_raw's promise: a message whose send returned Ok is never lost, for any
\* number of producers, consumers, background tasks, failed calls and crashes.
THEOREM NoMessageLost == Spec => []NoLoss
<1>1. StreamsInv => NoLoss
  BY DEF StreamsInv
<1> QED
  BY <1>1, StreamsInvariant, PTL

\* No copy of a message is handed out more than max_receives times over: nack
\* and reenqueue_timed_out_messages agree on when a message is exhausted.
THEOREM CopiesBounded == Spec => []ReceivesBounded
<1>1. StreamsInv => ReceivesBounded
  BY DEF StreamsInv
<1> QED
  BY <1>1, StreamsInvariant, PTL

\* send_to_dlq is not called before Redis has handed the message out
\* max_receives times.
THEOREM NoEarlyDeadLetter == Spec => []DeadLetterNotEarly
<1>1. StreamsInv => DeadLetterNotEarly
  BY DEF StreamsInv
<1> QED
  BY <1>1, StreamsInvariant, PTL

\* A message sent once and handled in time is handed out once.
THEOREM TimelyHandedOutOnce == Spec => []OnceWhenTimely
<1>1. StreamsInv => OnceWhenTimely
  BY DEF StreamsInv
<1> QED
  BY <1>1, StreamsInvariant, PTL

-----------------------------------------------------------------------------
(* Refinement *)

(* A step that leaves the stream and its pending list alone keeps what they hold. *)
LEMMA HeldKept ==
    ASSUME UNCHANGED <<stream, pel, lastDelivered>>
    PROVE  HeldPayloads' = HeldPayloads
BY DEF HeldPayloads, Live

(* XADD adds its payload to what the stream holds. *)
LEMMA HeldAfterXadd ==
    ASSUME Placement, NEW p, NEW n, Xadd(p, n), UNCHANGED <<pel, lastDelivered>>
    PROVE  HeldPayloads' = HeldPayloads \cup {p}
<1>1. PICK f \in stream' : /\ f.id = lastId + 1
                           /\ f.payload = p
                           /\ stream' = stream \cup {f}
  BY XaddEffect
<1>2. f.id > lastDelivered
  BY <1>1 DEF Placement, TypeOK, IdsOK
<1> QED
  BY <1>1, <1>2 DEF HeldPayloads, Live

\* XACK of ids that were handed out: only their messages can go.
LEMMA HeldAfterXack ==
    ASSUME NEW ids, Xack(ids), UNCHANGED <<stream, lastDelivered>>
    PROVE  /\ HeldPayloads' \subseteq HeldPayloads
           /\ \A e \in stream : Live(e) /\ e.id \notin ids => e.payload \in HeldPayloads'
           /\ \A p \in HeldPayloads : \/ p \in HeldPayloads'
                                      \/ \E e \in stream : e.id \in ids /\ e.payload = p
BY DEF Xack, HeldPayloads, Live

\* XDEL of ids that are not live.
LEMMA HeldAfterXdel ==
    ASSUME NEW ids, Xdel(ids), UNCHANGED <<pel, lastDelivered>>,
           \A e \in stream : e.id \in ids => ~Live(e)
    PROVE  HeldPayloads' = HeldPayloads
BY DEF Xdel, HeldPayloads, Live

(* XREADGROUP moves entries to the pending list and holds the same payloads. *)
LEMMA HeldAfterReceive ==
    ASSUME Placement, NEW n \in 1..MaxMessages, Receive(n)
    PROVE  HeldPayloads' = HeldPayloads
<1>1. TypeOK
  BY DEF Placement
<1>2. PICK new \in SUBSET stream : \E last \in new :
        /\ \A e \in new : e.id > lastDelivered /\ e.id <= last.id
        /\ \A e \in stream : e.id > lastDelivered /\ e.id <= last.id => e \in new
        /\ lastDelivered' = last.id
        /\ pel' = pel \cup Ids(new)
  BY <1>1, ReceiveEffect
<1>3. PICK last \in new :
        /\ \A e \in new : e.id > lastDelivered /\ e.id <= last.id
        /\ \A e \in stream : e.id > lastDelivered /\ e.id <= last.id => e \in new
        /\ lastDelivered' = last.id
        /\ pel' = pel \cup Ids(new)
  BY <1>2
<1>4. stream' = stream /\ lastDelivered \in Nat /\ \A e \in stream : e.id \in Nat
  BY <1>1 DEF Receive, TypeOK, Entry
<1>5. ASSUME NEW e \in stream PROVE Live(e)' <=> Live(e)
  <2>1. CASE e.id \in pel
    BY <1>3, <2>1 DEF Live
  <2>2. CASE e \in new
    BY <1>3, <2>2 DEF Live, Ids
  <2>3. CASE e.id \notin pel /\ e \notin new
    <3>1. e.id \notin Ids(new)
      <4>1. ASSUME NEW f \in new, f.id = e.id PROVE FALSE
        BY <2>3, <4>1 DEF Placement, IdsOK
      <4> QED
        BY <4>1 DEF Ids
    <3>2. e.id > last.id <=> e.id > lastDelivered
      BY <1>3, <1>4, <2>3
    <3> QED
      BY <1>3, <2>3, <3>1, <3>2 DEF Live
  <2> QED
    BY <2>1, <2>2, <2>3
<1> QED
  BY <1>4, <1>5 DEF HeldPayloads

\* Every step of the stream and its clients is a step of the at-least-once queue,
\* or changes nothing of it.
LEMMA StepImplements ==
    StreamsInv /\ StreamsInv' /\ [Next]_vars => [Abstract!Next]_(Abstract!vars)
<1> SUFFICES ASSUME StreamsInv, StreamsInv', [Next]_vars
             PROVE  Abstract!Next \/ UNCHANGED <<sent, HeldPayloads, receives, acked, DeadLetters>>
  BY DEF Abstract!vars
<1> DEFINE Goal == \/ Abstract!Next
                   \/ UNCHANGED <<sent, HeldPayloads, receives, acked, DeadLetters>>
<1>1. Placement /\ Covered /\ CountsOK /\ TypeOK /\ BatchOK /\ DeliveriesOK /\ IdsOK
  BY DEF StreamsInv, Placement
<1>2. /\ receives \in [Payloads -> Nat] /\ receives' \in [Payloads -> Nat]
      /\ MaxReceives \in Nat /\ dlq \in Seq(Payloads)
      /\ HeldPayloads \subseteq Payloads /\ HeldPayloads' \subseteq Payloads
  <2>1. stream \subseteq Entry /\ stream' \subseteq Entry
    BY DEF StreamsInv, TypeOK
  <2>2. HeldPayloads \subseteq Payloads /\ HeldPayloads' \subseteq Payloads
    BY <2>1 DEF HeldPayloads, Entry
  <2> QED
    BY <2>2, StreamsAssumption DEF StreamsInv, TypeOK
<1>3. ASSUME UNCHANGED <<stream, pel, lastDelivered, dlq, sent, receives, acked>> PROVE Goal
  BY <1>3, HeldKept DEF DeadLetters
<1>4. \A d \in deliveries :
         /\ d.payload \in Payloads /\ d.num_receives <= receives[d.payload]
         /\ d.num_receives \in Nat \ {0}
         /\ d.id <= lastDelivered /\ d.id \in Nat
  BY <1>1 DEF TypeOK, Delivery, CountsOK, DeliveriesOK
<1>5. \A w \in Workers : \A e \in batch[w] :
         /\ e.payload \in Payloads /\ NumReceives(e) \in Nat
         /\ NumReceives(e) <= receives[e.payload] /\ receives[e.payload] > 0
  <2>1. ASSUME NEW w \in Workers, NEW e \in batch[w]
        PROVE  e.payload \in Payloads /\ e.num_receives \in Nat
    BY <1>1 DEF TypeOK, Entry
  <2>2. ASSUME NEW w \in Workers, NEW e \in batch[w]
        PROVE  NumReceives(e) <= receives[e.payload] /\ receives[e.payload] \in Nat
    BY <1>1, <1>2, <2>1 DEF CountsOK
  <2> QED
    BY <2>1, <2>2 DEF NumReceives
<1>6. ASSUME NEW p \in Payloads, Producer(p) PROVE Goal
  <2>1. /\ Xadd(p, 0)
        /\ sent' \in {sent, sent \cup {p}}
        /\ UNCHANGED <<pel, lastDelivered, dlq, receives, acked>>
    BY <1>6 DEF Producer, Send, SendReplyLost, ForeignAdd, historyVars
  <2>2. HeldPayloads' = HeldPayloads \cup {p}
    BY <1>1, <2>1, HeldAfterXadd
  <2>3. /\ HeldPayloads' \in SUBSET Payloads
        /\ HeldPayloads \subseteq HeldPayloads'
        /\ sent \subseteq sent'
        /\ sent' \subseteq sent \cup HeldPayloads' \cup acked \cup DeadLetters
    BY <1>2, <2>1, <2>2
  <2>4. UNCHANGED <<receives, acked, DeadLetters>>
    BY <2>1 DEF DeadLetters
  <2>5. Abstract!Send
    BY <2>3, <2>4 DEF Abstract!Send
  <2> QED
    BY <2>5 DEF Abstract!Next
<1>7. ASSUME NEW n \in 1..MaxMessages, Receive(n) PROVE Goal
  <2>1. HeldPayloads' = HeldPayloads
    BY <1>1, <1>7, HeldAfterReceive
  <2>2. UNCHANGED <<sent, acked, DeadLetters>>
    BY <1>7 DEF Receive, DeadLetters
  <2>3. PICK new \in SUBSET stream :
          /\ IsFiniteSet(new)
          /\ \A e \in new : e.id > lastDelivered
          /\ receives' = [p \in Payloads |->
                            receives[p] + Cardinality({e \in new : e.payload = p})]
    BY <1>1, <1>7, ReceiveEffect
  <2>4. /\ \A p \in Payloads : receives[p] <= receives'[p]
        /\ \A p \in Payloads : (\A e \in new : e.payload # p) => receives'[p] = receives[p]
    BY <1>1, <2>3, ReceiveCounts
  <2>5. \A e \in new : e.payload \in HeldPayloads
    BY <2>3 DEF HeldPayloads, Live
  <2>6. \A m \in Payloads : receives'[m] >= receives[m]
    BY <1>2, <2>4
  <2>7. \A m \in Payloads \ HeldPayloads : receives'[m] = receives[m]
    BY <2>4, <2>5
  <2>8. Abstract!HandOut
    BY <1>2, <2>1, <2>2, <2>6, <2>7 DEF Abstract!HandOut
  <2> QED
    BY <2>8 DEF Abstract!Next
<1>8. ASSUME NEW p \in Payloads, receives[p] > 0, receives[p] >= MaxReceives, Rpush(p),
             UNCHANGED <<stream, pel, lastDelivered, sent, receives, acked>>
      PROVE  Goal
  <2>1. DeadLetters' = DeadLetters \cup {p} /\ HeldPayloads' = HeldPayloads
    BY <1>2, <1>8, DeadLettersAfterRpush, HeldKept
  <2>2. Abstract!GiveUp(p)
    BY <1>8, <2>1 DEF Abstract!GiveUp
  <2> QED
    BY <2>2 DEF Abstract!Next
<1>9. ASSUME NEW ids, Xack(ids), UNCHANGED <<stream, lastDelivered, sent, receives, acked, dlq>>,
             \A e \in stream : e.id \in ids =>
                e.payload \in acked \cup DeadLetters \cup HeldPayloads'
      PROVE  Goal
  <2>1. /\ HeldPayloads' \subseteq HeldPayloads
        /\ \A p \in HeldPayloads : \/ p \in HeldPayloads'
                                   \/ \E e \in stream : e.id \in ids /\ e.payload = p
    BY <1>9, HeldAfterXack
  <2>2. HeldPayloads \subseteq HeldPayloads' \cup acked \cup DeadLetters
    BY <1>9, <2>1
  <2>3. Abstract!Forget
    BY <1>9, <2>1, <2>2 DEF Abstract!Forget, DeadLetters
  <2> QED
    BY <2>3 DEF Abstract!Next
<1>10. ASSUME NEW ids, Xdel(ids), UNCHANGED <<pel, lastDelivered, sent, receives, acked, dlq>>,
              \A e \in stream : e.id \in ids => ~Live(e)
       PROVE  Goal
  BY <1>10, HeldAfterXdel DEF DeadLetters
<1>11. ASSUME NEW d \in deliveries, Handle(d) PROVE Goal
  <2> USE DEF serverVars, historyVars
  <2>1. \A e \in stream : e.id = d.id => e.payload = d.payload
    BY <1>1 DEF DeliveriesOK
  <2>2. receives[d.payload] > 0
    BY <1>1, <1>2, <1>4 DEF CountsOK
  <2>3. CASE Ack(d)
    <3>1. /\ Xack({d.id}) /\ acked' = acked \cup {d.payload}
          /\ UNCHANGED <<stream, lastDelivered, sent, receives, dlq>>
      BY <2>3 DEF Ack
    <3>2. /\ HeldPayloads' \subseteq HeldPayloads
          /\ \A p \in HeldPayloads : \/ p \in HeldPayloads'
                                     \/ \E e \in stream : e.id \in {d.id} /\ e.payload = p
      BY <3>1, HeldAfterXack
    <3>3. HeldPayloads' \in {HeldPayloads, HeldPayloads \ {d.payload}}
      BY <2>1, <3>2
    <3>4. Abstract!Ack(d.payload)
      BY <2>2, <3>1, <3>3 DEF Abstract!Ack, DeadLetters
    <3> QED
      BY <1>4, <3>4 DEF Abstract!Next
  <2>4. CASE AckXdel(d) \/ AckReplyLost(d)
    <3>1. /\ Xdel({d.id}) /\ d.phase = "xdel"
          /\ UNCHANGED <<pel, lastDelivered, sent, receives, acked, dlq>>
      BY <2>4 DEF AckXdel, AckReplyLost
    <3>2. \A e \in stream : e.id \in {d.id} => ~Live(e)
      BY <1>1, <1>4, <3>1 DEF DeliveriesOK, Live, TypeOK
    <3> QED
      BY <1>10, <3>1, <3>2
  <2>5. CASE Nack(d) \/ NackExhausted(d) \/ CallFails(d) \/ Drop(d)
    BY <1>3, <2>5 DEF Nack, NackExhausted, CallFails, Drop
  <2>6. CASE NackRpush(d)
    <3>1. /\ Rpush(d.payload) /\ d.phase = "rpush"
          /\ UNCHANGED <<stream, pel, lastDelivered, sent, receives, acked>>
      BY <2>6 DEF NackRpush
    <3>2. receives[d.payload] >= MaxReceives
      BY <1>1, <1>2, <1>4, <3>1 DEF CountsOK, MaxRetriesReached
    <3> QED
      BY <1>4, <1>8, <2>2, <3>1, <3>2
  <2>7. CASE NackXack(d)
    <3>1. /\ Xack({d.id}) /\ d.phase = "xack"
          /\ UNCHANGED <<stream, lastDelivered, sent, receives, acked, dlq>>
      BY <2>7 DEF NackXack
    <3>2. d.payload \in DeadLetters
      BY <1>1, <3>1 DEF DeliveriesOK
    <3> QED
      BY <1>9, <2>1, <3>1, <3>2
  <2> QED
    BY <1>11, <2>3, <2>4, <2>5, <2>6, <2>7 DEF Handle
<1>12. ASSUME NEW i \in pel, Deadline(i) PROVE Goal
  BY <1>3, <1>12 DEF Deadline
<1>13. ASSUME NEW w \in Workers, Worker(w) \/ WorkerFails(w) PROVE Goal
  <2> USE DEF serverVars, historyVars
  <2>1. CASE \/ Autoclaim(w) \/ Enpipe(w) \/ FindExhausted(w) \/ AbortBatch(w)
             \/ WorkerFails(w)
    BY <1>3, <2>1 DEF Autoclaim, Enpipe, FindExhausted, AbortBatch, WorkerFails
  <2>2. CASE WorkerRpush(w)
    <3>1. PICK e \in todo[w] :
            /\ pc[w] = "rpush" /\ IsOldest(e, todo[w]) /\ Rpush(e.payload)
            /\ UNCHANGED <<stream, pel, lastDelivered, sent, receives, acked>>
      BY <2>2 DEF WorkerRpush
    <3>2. e \in batch[w] /\ MaxRetriesReached(NumReceives(e))
      BY <1>1, <3>1 DEF BatchOK, CountsOK
    <3>3. receives[e.payload] >= MaxReceives
      BY <1>2, <1>5, <3>2 DEF MaxRetriesReached
    <3> QED
      BY <1>5, <1>8, <3>1, <3>2, <3>3
  <2>3. CASE XaddCopy(w)
    <3>1. PICK e \in pipe[w] :
            /\ Xadd(e.payload, NumReceives(e))
            /\ UNCHANGED <<pel, lastDelivered, dlq, sent, receives, acked>>
      BY <2>3 DEF XaddCopy
    <3>2. HeldPayloads' = HeldPayloads \cup {e.payload}
      BY <1>1, <3>1, HeldAfterXadd
    <3>3. e.payload \in Payloads /\ receives[e.payload] > 0
      BY <1>1, <1>5 DEF BatchOK
    <3>4. Abstract!Requeue(e.payload)
      BY <3>1, <3>2, <3>3 DEF Abstract!Requeue, DeadLetters
    <3> QED
      BY <3>3, <3>4 DEF Abstract!Next
  <2>4. CASE XackBatch(w)
    <3>1. /\ Xack(Ids(batch[w])) /\ todo[w] = {} /\ pipe[w] = {}
          /\ UNCHANGED <<stream, lastDelivered, sent, receives, acked, dlq>>
      BY <2>4 DEF XackBatch
    <3>2. \A e \in stream : Live(e) /\ e.id \notin Ids(batch[w]) => e.payload \in HeldPayloads'
      BY <3>1, HeldAfterXack
    <3>3. ASSUME NEW e \in stream, e.id \in Ids(batch[w])
          PROVE  e.payload \in acked \cup DeadLetters \cup HeldPayloads'
      <4>1. e \in batch[w]
        BY <1>1, <3>3 DEF Ids, BatchOK
      <4>2. PlacedAbove(e.payload, batch[w])
        BY <1>1, <3>1, <4>1 DEF Covered
      <4>3. CASE Settled(e.payload)
        BY <4>3 DEF Settled
      <4>4. ASSUME NEW f \in stream, f.payload = e.payload, Live(f), \A g \in batch[w] : f.id > g.id
            PROVE  e.payload \in HeldPayloads'
        <5>1. f.id \in Nat /\ \A g \in batch[w] : g.id \in Nat
          BY <1>1 DEF TypeOK, Entry
        <5>2. f.id \notin Ids(batch[w])
          BY <4>4, <5>1 DEF Ids
        <5> QED
          BY <3>2, <4>4, <5>2
      <4> QED
        BY <4>2, <4>3, <4>4 DEF PlacedAbove
    <3> QED
      BY <1>9, <3>1, <3>3
  <2>5. CASE XdelBatch(w)
    <3>1. /\ Xdel(Ids(batch[w])) /\ pc[w] = "xdel"
          /\ UNCHANGED <<pel, lastDelivered, sent, receives, acked, dlq>>
      BY <2>5 DEF XdelBatch
    <3>2. ASSUME NEW e \in stream, e.id \in Ids(batch[w]) PROVE ~Live(e)
      <4>1. e \in batch[w]
        BY <1>1, <3>2 DEF Ids, BatchOK
      <4>2. e.id \notin pel /\ e.id <= lastDelivered /\ e.id \in Nat /\ lastDelivered \in Nat
        BY <1>1, <3>1, <4>1 DEF BatchOK, TypeOK, Entry
      <4> QED
        BY <4>2 DEF Live
    <3> QED
      BY <1>10, <3>1, <3>2
  <2> QED
    BY <1>13, <2>1, <2>2, <2>3, <2>4, <2>5 DEF Worker
<1>14. CASE UNCHANGED vars
  BY <1>3, <1>14 DEF vars
<1> QED
  BY <1>6, <1>7, <1>11, <1>12, <1>13, <1>14 DEF Next

\* The stream, its consumer group and the background tasks implement the
\* at-least-once queue, although a call is several commands between which any
\* other client may run, and may end after any of them.
THEOREM StreamImplementsQueue == Spec => Implements
<1>1. Init => Abstract!Init
  BY DEF Init, Abstract!Init, HeldPayloads, DeadLetters
<1> QED
  BY <1>1, StepImplements, StreamsInvariant, PTL DEF Spec, Implements, Abstract!Spec

=============================================================================
