---------------------------- MODULE BrokersProofs ----------------------------
(***************************************************************************)
(* The safety properties of the backends whose queue is a service or a     *)
(* channel, for any messages, durations, bounds and number of faults.      *)
(***************************************************************************)
EXTENDS Brokers, ListLemmas

-----------------------------------------------------------------------------
(* The batch of a send *)

(* What is left of a batch is the range of its sequence. *)
LEMMA BatchMembers ==
    ASSUME TypeOK
    PROVE  /\ Unsubmitted = ToSet(batch)
           /\ Unsubmitted \subseteq Messages
           /\ Len(batch) \in Nat
           /\ DOMAIN batch = 1..Len(batch)
<1>1. batch \in Seq(Messages)
  BY DEF TypeOK
<1> QED
  BY <1>1, Places, Members DEF Unsubmitted, ToSet

\* A request is a beginning of the batch that is not empty.
LEMMA RequestPlaces ==
    ASSUME TypeOK, batch # <<>>
    PROVE  /\ RequestSize \in 1..Len(batch)
           /\ Request \subseteq Unsubmitted
           /\ Request # {}
           /\ dyn => Request = {batch[1]}
<1>1. batch \in Seq(Messages) /\ Len(batch) \in Nat \ {0}
  <2>1. batch \in Seq(Messages)
    BY DEF TypeOK
  <2> QED
    BY <2>1, Places
<1>2. \A q \in Nat \ {0} : 1 \in 1..q /\ q \in 1..q /\ (q > ChunkSize => ChunkSize \in 1..q)
  BY BrokersAssumption DEF BrokersAssumption
<1>3. RequestSize \in 1..Len(batch)
  BY <1>1, <1>2 DEF RequestSize
<1>4. \A i \in 1..RequestSize : i \in DOMAIN batch
  <2>1. \A q \in Nat : \A r \in 1..q : \A i \in 1..r : i \in 1..q
    OBVIOUS
  <2> QED
    BY <1>1, <1>3, <2>1, BatchMembers
<1>5. 1 \in 1..RequestSize
  <2>1. \A q \in Nat : \A r \in 1..q : 1 \in 1..r
    OBVIOUS
  <2> QED
    BY <1>1, <1>3, <2>1
<1>6. dyn => RequestSize = 1
  BY DEF RequestSize
<1>7. dyn => Request = {batch[1]}
  <2>1. 1..1 = {1}
    OBVIOUS
  <2> QED
    BY <1>6, <2>1 DEF Request
<1> QED
  BY <1>3, <1>4, <1>5, <1>7 DEF Request, Unsubmitted

\* What Advance leaves in the batch is what was not in the request.
LEMMA AdvanceEffect ==
    ASSUME TypeOK, batch # <<>>, Advance
    PROVE  /\ batch' \in Seq(Messages)
           /\ Unsubmitted' \subseteq Unsubmitted
           /\ Unsubmitted \subseteq Request \cup Unsubmitted'
           /\ \/ batch' # <<>> /\ UNCHANGED <<sent, calling>>
              \/ /\ batch' = <<>> /\ Unsubmitted' = {}
                 /\ sent' = sent \cup calling
                 /\ calling' = {}
<1>1. PICK s, r : s = batch /\ r = RequestSize
  OBVIOUS
<1>2. s \in Seq(Messages) /\ r \in 1..Len(s) /\ batch' = SubSeq(s, r + 1, Len(s))
  BY <1>1, RequestPlaces DEF TypeOK, Advance
<1>3. /\ batch' \in Seq(Messages)
      /\ ToSet(batch') \subseteq ToSet(s)
      /\ ToSet(s) \subseteq {s[i] : i \in 1..r} \cup ToSet(batch')
  BY <1>2, RestMembers
<1>4. Unsubmitted' = ToSet(batch') /\ Unsubmitted = ToSet(s)
  BY <1>1 DEF Unsubmitted, ToSet
<1>5. Request = {s[i] : i \in 1..r}
  BY <1>1 DEF Request
<1>6. batch' = <<>> => Unsubmitted' = {}
  BY DEF Unsubmitted
<1> QED
  BY <1>3, <1>4, <1>5, <1>6 DEF Advance

\* What a producer passes.
LEMMA BatchPassed ==
    ASSUME NEW s \in Batches
    PROVE  s \in Seq(Messages) /\ s # <<>> /\ {s[i] : i \in DOMAIN s} # {}
<1>1. PICK n \in 1..Cardinality(Messages) : s \in [1..n -> Messages]
  BY DEF Batches
<1>2. n \in Nat \ {0}
  BY <1>1
<1>3. s \in Seq(Messages) /\ Len(s) = n /\ 1 \in DOMAIN s
  BY <1>1, <1>2
<1> QED
  BY <1>2, <1>3

-----------------------------------------------------------------------------
(* Leases *)

(* Ending the lease of d takes at most the message of d out of the leased ones. *)
LEMMA LeasesButEffect ==
    ASSUME NEW d, leases' = LeasesBut(d)
    PROVE  /\ leases' \subseteq leases
           /\ Leased' \subseteq Leased
           /\ Leased \subseteq Leased' \cup {d.msg}
           /\ ~Valid(d)'
BY DEF LeasesBut, Leased, Valid, IsLeaseOf

(* A delivery whose receipt is still valid is of a leased message. *)
LEMMA ValidLeased == ASSUME NEW d, Valid(d) PROVE d.msg \in Leased
BY DEF Valid, Leased, IsLeaseOf

(* A tick shortens leases, delays and asked-for deadlines and moves no message. *)
LEMMA TickEffect ==
    ASSUME TypeOK, Tick
    PROVE  /\ Leased' = Leased /\ Delayed' = Delayed
           /\ leases' \subseteq Lease /\ waiting' \subseteq Waiting
           /\ deliveries' \subseteq Delivery
           /\ notBefore' \in [Messages -> Nat]
           /\ \A l \in leases' : \E k \in leases :
                 l.msg = k.msg /\ l.n = k.n /\ l.left = Less(k.left)
           /\ \A k \in leases : \E l \in leases' :
                 l.msg = k.msg /\ l.n = k.n /\ l.left = Less(k.left)
           /\ \A w \in waiting' : \E v \in waiting : w.msg = v.msg /\ w.left = Less(v.left)
           /\ \A d \in deliveries' : \E e \in deliveries :
                 /\ d = [e EXCEPT !.asked = Less(@)]
                 /\ d.msg = e.msg /\ d.n = e.n /\ d.spent = e.spent /\ d.asked = Less(e.asked)
                 /\ d.receipt = e.receipt
<1>1. /\ leases \subseteq Lease /\ waiting \subseteq Waiting /\ deliveries \subseteq Delivery
      /\ notBefore \in [Messages -> Nat]
  BY DEF TypeOK
<1>2. \A t \in Nat : Less(t) \in Nat
  BY DEF Less
<1>3. /\ leases' = {[l EXCEPT !.left = Less(@)] : l \in leases}
      /\ waiting' = {[w EXCEPT !.left = Less(@)] : w \in waiting}
      /\ deliveries' = {[d EXCEPT !.asked = Less(@)] : d \in deliveries}
      /\ notBefore' = [m \in Messages |-> Less(notBefore[m])]
  BY DEF Tick
<1> DEFINE L(l) == [l EXCEPT !.left = Less(@)]
           D(d) == [d EXCEPT !.asked = Less(@)]
<1>4. \A l \in leases : L(l) \in Lease /\ L(l).msg = l.msg /\ L(l).n = l.n /\ L(l).left = Less(l.left)
  BY <1>1, <1>2 DEF Lease
<1>5. \A w \in waiting : L(w) \in Waiting /\ L(w).msg = w.msg /\ L(w).left = Less(w.left)
  BY <1>1, <1>2 DEF Waiting
<1>6. \A d \in deliveries : /\ D(d) \in Delivery /\ D(d).msg = d.msg /\ D(d).n = d.n
                            /\ D(d).spent = d.spent /\ D(d).asked = Less(d.asked)
                            /\ D(d).receipt = d.receipt
  BY <1>1, <1>2 DEF Delivery
<1>7. notBefore' \in [Messages -> Nat]
  BY <1>1, <1>2, <1>3
<1>8. /\ leases' = {L(l) : l \in leases}
      /\ waiting' = {L(w) : w \in waiting}
      /\ deliveries' = {D(d) : d \in deliveries}
  BY <1>3
<1>9. \A d \in deliveries : D(d) = [d EXCEPT !.asked = Less(@)]
  OBVIOUS
<1> HIDE DEF L, D
<1>10. leases' \subseteq Lease /\ waiting' \subseteq Waiting /\ deliveries' \subseteq Delivery
  BY <1>4, <1>5, <1>6, <1>8
<1>11. /\ \A l \in leases' : \E k \in leases :
             l.msg = k.msg /\ l.n = k.n /\ l.left = Less(k.left)
       /\ \A k \in leases : \E l \in leases' :
             l.msg = k.msg /\ l.n = k.n /\ l.left = Less(k.left)
  BY <1>4, <1>8
<1>12. /\ \A w \in waiting' : \E v \in waiting : w.msg = v.msg /\ w.left = Less(v.left)
       /\ \A v \in waiting : \E w \in waiting' : w.msg = v.msg /\ w.left = Less(v.left)
  BY <1>5, <1>8
<1>13. \A d \in deliveries' : \E e \in deliveries :
          /\ d = [e EXCEPT !.asked = Less(@)]
          /\ d.msg = e.msg /\ d.n = e.n /\ d.spent = e.spent /\ d.asked = Less(e.asked)
          /\ d.receipt = e.receipt
  <2>1. SUFFICES ASSUME NEW e \in deliveries
                 PROVE  /\ D(e) = [e EXCEPT !.asked = Less(@)]
                        /\ D(e).msg = e.msg /\ D(e).n = e.n /\ D(e).spent = e.spent
                        /\ D(e).asked = Less(e.asked) /\ D(e).receipt = e.receipt
    BY <1>8
  <2> QED
    BY <1>6, <1>9
<1>14. Leased' = Leased
  BY <1>11 DEF Leased
<1>15. Delayed' = Delayed
  BY <1>12 DEF Delayed
<1> QED
  BY <1>7, <1>10, <1>11, <1>12, <1>13, <1>14, <1>15

-----------------------------------------------------------------------------
(* Types *)

(* A fault stays within the number of faults of an instance. *)
LEMMA FaultType == ASSUME TypeOK, Fault PROVE faults' \in 0..MaxFaults
  BY BrokersAssumption DEF TypeOK, Fault

(* Typing of a receive, of receive_all and of a redelivery by the service. *)
LEMMA GiveOutType ==
    ASSUME TypeOK, NEW S \in SUBSET ready, GiveOut(S)
    PROVE  /\ leases' \subseteq Lease
           /\ receives' \in [Messages -> 0..MaxLeases]
           /\ ready' \subseteq ready
<1>1. S \subseteq Messages /\ receives \in [Messages -> 0..MaxLeases] /\ MaxLeases \in Nat
  BY BrokersAssumption DEF TypeOK
<1>2. LeaseLength \in Nat
  BY BrokersAssumption DEF LeaseLength
<1>3. leases' \subseteq Lease
  BY <1>1, <1>2 DEF GiveOut, TypeOK, Lease
<1>4. receives' \in [Messages -> 0..MaxLeases]
  BY <1>1 DEF GiveOut
<1> QED
  BY <1>3, <1>4 DEF GiveOut

(* Typing of a Delivery that a failed call gives back. *)
LEMMA HandBackType ==
    ASSUME TypeOK, NEW d \in deliveries, NEW b \in BOOLEAN, HandBack(d, b)
    PROVE  deliveries' \subseteq Delivery
<1>1. d \in Delivery /\ deliveries \subseteq Delivery
  BY DEF TypeOK
<1>2. [d EXCEPT !.spent = b, !.asked = 0] \in Delivery
  BY <1>1 DEF Delivery
<1> QED
  BY <1>1, <1>2 DEF HandBack

(* Whether a failure spends a Delivery depends on nothing but the backend. *)
LEMMA SpentType == SpentByFailure \in BOOLEAN
BY DEF SpentByFailure

(* The Deliveries of a receive are new, one for each message, and have a receipt
   unless the service left it out. *)
LEMMA Wrapped ==
    ASSUME TypeOK, NEW S \in SUBSET ready, NEW C, Wrap(S, C)
    PROVE  /\ deliveries' \subseteq Delivery
           /\ \A d \in deliveries' : \/ d \in deliveries
                                     \/ /\ d.msg \in S /\ d.n = receives[d.msg] + 1
                                        /\ ~d.spent /\ d.asked = 0 /\ (d.receipt \/ d.msg \in C)
           /\ \A d, e \in deliveries' \ deliveries : d.msg = e.msg => d = e
<1>1. S \subseteq Messages /\ \A m \in S : receives[m] + 1 \in Nat
  BY BrokersAssumption DEF TypeOK
<1> DEFINE D(m) == [msg |-> m, n |-> receives[m] + 1, spent |-> FALSE, receipt |-> m \notin C,
                    asked |-> 0]
<1>2. \A m \in S : D(m) \in Delivery
  BY <1>1 DEF Delivery
<1>3. \A m \in S : /\ D(m).msg = m /\ D(m).n = receives[m] + 1 /\ ~D(m).spent /\ D(m).asked = 0
                   /\ D(m).receipt \/ m \in C
  OBVIOUS
<1>4. deliveries' = deliveries \cup {D(m) : m \in S}
  BY DEF Wrap
<1> HIDE DEF D
<1>5. deliveries' \subseteq Delivery
  BY <1>2, <1>4 DEF TypeOK
<1>6. \A d \in deliveries' \ deliveries : d.msg \in S /\ d = D(d.msg)
  BY <1>3, <1>4
<1> QED
  BY <1>3, <1>5, <1>6

(* Typing of a Delivery that set_ack_deadline gives back. *)
LEMMA AsksType ==
    ASSUME TypeOK, NEW d \in deliveries, NEW t \in Nat, Asks(d, t)
    PROVE  deliveries' \subseteq Delivery
<1>1. d \in Delivery /\ deliveries \subseteq Delivery
  BY DEF TypeOK
<1>2. [d EXCEPT !.asked = t] \in Delivery
  BY <1>1 DEF Delivery
<1> QED
  BY <1>1, <1>2 DEF Asks

\* Duration::as_secs loses less than a second.
LEMMA SecondsLost ==
    ASSUME NEW t \in Nat
    PROVE  WholeSeconds(t) \in Nat /\ WholeSeconds(t) <= t /\ t < WholeSeconds(t) + TicksPerSecond
<1>1. TicksPerSecond \in Nat \ {0}
  BY BrokersAssumption
<1>2. \A k \in Nat \ {0} : /\ t \div k \in Nat /\ t = (k * (t \div k)) + (t % k)
                           /\ t % k \in 0..k - 1
  OBVIOUS
<1>3. PICK q, r : q = t \div TicksPerSecond /\ r = t % TicksPerSecond
  OBVIOUS
<1>4. q \in Nat /\ t = (TicksPerSecond * q) + r /\ r \in 0..TicksPerSecond - 1
  BY <1>1, <1>2, <1>3
<1>5. \A k \in Nat \ {0} : \A a \in Nat : k * a = a * k /\ a * k \in Nat
  OBVIOUS
<1>6. WholeSeconds(t) = q * TicksPerSecond
  BY <1>3 DEF WholeSeconds
<1>7. q * TicksPerSecond \in Nat /\ t = (q * TicksPerSecond) + r
  BY <1>1, <1>4, <1>5
<1> HIDE DEF WholeSeconds
<1>8. \A x \in Nat : \A k \in Nat \ {0} : \A s \in 0..k - 1 : x <= x + s /\ x + s < x + k
  OBVIOUS
<1> QED
  BY <1>1, <1>4, <1>6, <1>7, <1>8

(* Typing of a lease renewed for a whole number of seconds. *)
LEMMA ReletType ==
    ASSUME TypeOK, NEW d \in deliveries, NEW t \in Nat, Relet(d, t)
    PROVE  leases' \subseteq Lease
<1>1. d \in Delivery /\ leases \subseteq Lease /\ WholeSeconds(t) \in Nat
  BY SecondsLost DEF TypeOK
<1> QED
  BY <1>1 DEF Relet, LeasesBut, Lease, Delivery

(* Typing of a scheduled send, its delay counted in ticks. *)
LEMMA KeepType ==
    ASSUME TypeOK, NEW m \in Messages, NEW t \in Nat, Keep(m, t)
    PROVE  /\ DelayTicks(t) \in Nat
           /\ waiting' \subseteq Waiting
           /\ notBefore' \in [Messages -> Nat]
           /\ Delayed' = Delayed \cup {m}
<1>1. DelayTicks(t) \in Nat
  BY SecondsLost DEF DelayTicks
<1>2. PICK w : w = [msg |-> m, left |-> DelayTicks(t)]
  OBVIOUS
<1>3. w \in Waiting /\ w.msg = m
  BY <1>1, <1>2 DEF Waiting
<1>4. waiting' = waiting \cup {w} /\ notBefore' = [notBefore EXCEPT ![m] = t]
  BY <1>2 DEF Keep
<1>5. Delayed' = Delayed \cup {m}
  BY <1>3, <1>4 DEF Delayed
<1> QED
  BY <1>1, <1>3, <1>4, <1>5 DEF TypeOK

\* What a Delivery is of was received, and hence sent.
LEMMA DeliveryKnown ==
    ASSUME TypeOK, SendsOK, ReceiptsOK, NEW x \in leases \cup deliveries
    PROVE  /\ x.msg \in Messages /\ x.n \in Nat /\ receives[x.msg] \in Nat
           /\ receives[x.msg] > 0 /\ x.msg \in Taken /\ x.msg \in tried
<1>1. x.msg \in Messages /\ x.n \in Nat
  BY DEF TypeOK, Lease, Delivery
<1>2. receives[x.msg] \in Nat /\ 1 <= x.n /\ x.n <= receives[x.msg]
  BY <1>1, BrokersAssumption DEF TypeOK, ReceiptsOK
<1>3. receives[x.msg] > 0
  BY <1>1, <1>2
<1> QED
  BY <1>1, <1>2, <1>3 DEF Taken, Received, SendsOK

(* The state after construction is well typed. *)
LEMMA TypeInit == Init => TypeOK
<1>1. <<>> \in Seq(Messages)
  OBVIOUS
<1>2. 0 \in 0..MaxFaults /\ 0 \in 0..MaxLeases
  BY BrokersAssumption
<1>3. /\ [m \in Messages |-> 0] \in [Messages -> 0..MaxLeases]
      /\ [m \in Messages |-> 0] \in [Messages -> Nat]
  BY <1>2
<1> QED
  BY <1>1, <1>2, <1>3 DEF Init, TypeOK

(* Every step keeps the types. *)
LEMMA TypeStep == TypeOK /\ SendsOK /\ ReceiptsOK /\ [Next]_vars => TypeOK'
<1> SUFFICES ASSUME TypeOK, SendsOK, ReceiptsOK, [Next]_vars PROVE TypeOK'
  OBVIOUS
<1> USE DEF config, sendVars, delayVars, historyVars
<1>1. calling \subseteq tried /\ (calling = {} <=> batch = <<>>)
  BY DEF SendsOK, TypeOK
<1>2. batch # <<>> => Request \subseteq Messages /\ Request \subseteq tried
  BY RequestPlaces, BatchMembers DEF SendsOK
<1>3. ASSUME NEW s \in Batches, SendBatch(s) PROVE TypeOK'
  <2>1. s \in Seq(Messages) /\ s # <<>> /\ calling' # {} /\ calling' \subseteq Messages
    <3>1. s \in Seq(Messages) /\ s # <<>> /\ {s[i] : i \in DOMAIN s} # {}
      BY BatchPassed
    <3>2. {s[i] : i \in DOMAIN s} \subseteq Messages
      BY <3>1
    <3> QED
      BY <1>3, <3>1, <3>2 DEF SendBatch
  <2>2. batch' = s /\ tried' = tried \cup calling'
    BY <1>3 DEF SendBatch
  <2>3. UNCHANGED <<config, delayVars, ready, leases, deliveries, closed, faults,
                   sent, refused, swallowed, historyVars, receives>>
    BY <1>3 DEF SendBatch
  <2> HIDE DEF Batches
  <2> QED
    BY <2>1, <2>2, <2>3 DEF TypeOK
<1>4. CASE Refuse
  <2>1. <<>> \in Seq(Messages)
    OBVIOUS
  <2> QED
    BY <1>1, <1>4, <2>1 DEF Refuse, TypeOK
<1>5. ASSUME batch # <<>>, Advance
      PROVE  /\ batch' \in Seq(Messages) /\ calling' \subseteq Messages /\ sent' \subseteq tried
             /\ calling' = {} <=> batch' = <<>>
  BY <1>1, <1>5, AdvanceEffect DEF TypeOK
<1>6. CASE Publish
  BY <1>2, <1>5, <1>6 DEF Publish, TypeOK
<1>7. CASE PublishPartly
  <2>1. faults' \in 0..MaxFaults
    BY <1>7, FaultType DEF PublishPartly
  <2>2. ready' \subseteq Messages /\ swallowed' \subseteq tried
    BY <1>2, <1>7 DEF PublishPartly, TypeOK
  <2>3. ~closed
    BY <1>7 DEF PublishPartly, TypeOK
  <2> QED
    BY <1>5, <1>7, <2>1, <2>2, <2>3 DEF PublishPartly, TypeOK
<1>8. CASE PublishFails
  <2>1. faults' \in 0..MaxFaults /\ <<>> \in Seq(Messages)
    BY <1>8, FaultType DEF PublishFails
  <2> QED
    BY <1>2, <1>8, <2>1 DEF PublishFails, TypeOK
<1>9. CASE PublishToClosed
  <2>1. <<>> \in Seq(Messages)
    OBVIOUS
  <2> QED
    BY <1>9, <2>1 DEF PublishToClosed, TypeOK
<1>10. ASSUME NEW m \in Messages, NEW t \in Delays, SendScheduled(m, t) PROVE TypeOK'
  <2>1. waiting' \subseteq Waiting /\ notBefore' \in [Messages -> Nat]
    BY <1>10, KeepType, BrokersAssumption DEF SendScheduled
  <2> QED
    BY <1>10, <2>1 DEF SendScheduled, MaySchedule, TypeOK
<1>11. ASSUME NEW m \in Messages, NEW t \in Delays, SendScheduledFails(m, t) PROVE TypeOK'
  <2>1. waiting' \subseteq Waiting /\ notBefore' \in [Messages -> Nat]
    <3>1. Keep(m, t) \/ UNCHANGED delayVars
      BY <1>11 DEF SendScheduledFails
    <3> QED
      BY <3>1, KeepType, BrokersAssumption DEF TypeOK
  <2>2. faults' \in 0..MaxFaults
    BY <1>11, FaultType DEF SendScheduledFails
  <2>3. sent' \subseteq tried' /\ swallowed' \subseteq tried' /\ tried' = tried \cup {m}
    BY <1>11 DEF SendScheduledFails, MaySchedule, TypeOK
  <2> QED
    BY <1>11, <2>1, <2>2, <2>3 DEF SendScheduledFails, TypeOK
<1>12. ASSUME NEW w \in waiting, Due(w) PROVE TypeOK'
  <2>1. w.msg \in Messages /\ w.msg \in tried
    BY DEF TypeOK, Waiting, SendsOK, Taken, Received, Delayed
  <2> QED
    BY <1>12, <2>1 DEF Due, TypeOK
<1>13. ASSUME NEW S \in SUBSET ready, Receive(S) \/ ReceiveBare(S) PROVE TypeOK'
  <2>1. GiveOut(S) /\ \E C : Wrap(S, C)
    BY <1>13 DEF Receive, ReceiveBare
  <2>2. deliveries' \subseteq Delivery
    BY <2>1, Wrapped
  <2>3. faults' \in 0..MaxFaults
    BY <1>13, FaultType DEF Receive, ReceiveBare, TypeOK
  <2>4. /\ leases' \subseteq Lease /\ receives' \in [Messages -> 0..MaxLeases]
        /\ ready' \subseteq ready
    BY <2>1, GiveOutType
  <2>5. UNCHANGED <<config, sendVars, delayVars, closed, historyVars>>
    BY <1>13 DEF Receive, ReceiveBare
  <2> QED
    BY <2>2, <2>3, <2>4, <2>5 DEF TypeOK
<1>14. ASSUME NEW S \in SUBSET ready, ReceiveFails(S) PROVE TypeOK'
  BY <1>14, GiveOutType, FaultType DEF ReceiveFails, TypeOK
<1>15. ASSUME NEW l \in leases, LeaseEnds(l) PROVE TypeOK'
  BY <1>15 DEF LeaseEnds, TypeOK, Lease
<1>16. CASE CloseConsumer
  <2>1. ready \subseteq tried
    BY DEF SendsOK, Taken, Received
  <2> QED
    BY <1>16, <2>1 DEF CloseConsumer, TypeOK
<1>17. ASSUME NEW d \in deliveries, Handle(d) PROVE TypeOK'
  <2>1. d \in Delivery /\ d.msg \in Messages /\ d.msg \in tried
    BY DeliveryKnown DEF TypeOK
  <2>2. LeasesBut(d) \subseteq Lease
    BY DEF TypeOK, LeasesBut
  <2>3. ASSUME Delete(d) PROVE leases' \subseteq Lease /\ ready' \subseteq ready /\ acked' \subseteq tried
    BY <2>1, <2>2, <2>3 DEF Delete, TypeOK
  <2>4. CASE Ack(d)
    BY <2>3, <2>4 DEF Ack, TypeOK
  <2>5. CASE AckTooLate(d)
    BY <2>5 DEF AckTooLate, TypeOK
  <2>6. CASE AckFails(d)
    <3>1. leases' \subseteq Lease /\ ready' \subseteq ready /\ acked' \subseteq tried
      BY <2>3, <2>6 DEF AckFails, TypeOK
    <3>2. deliveries' \subseteq Delivery /\ faults' \in 0..MaxFaults
      BY <2>6, HandBackType, SpentType, FaultType DEF AckFails
    <3> QED
      BY <2>6, <3>1, <3>2 DEF AckFails, TypeOK
  <2>7. CASE AckRefused(d)
    BY <2>7, HandBackType, SpentType DEF AckRefused, TypeOK
  <2>14. CASE AckBare(d)
    BY <2>14, HandBackType DEF AckBare, TypeOK
  <2>8. CASE Nack(d)
    <3>1. leases' \subseteq Lease /\ ready' \subseteq Messages /\ discarded' \subseteq tried
      BY <2>1, <2>2, <2>8 DEF Nack, Discards, TypeOK
    <3> QED
      BY <2>8, <3>1 DEF Nack, TypeOK
  <2>9. CASE NackFails(d)
    <3>1. leases' \subseteq Lease /\ ready' \subseteq Messages /\ discarded' \subseteq tried
      BY <2>1, <2>2, <2>9 DEF NackFails, Discards, TypeOK
    <3>2. deliveries' \subseteq Delivery /\ faults' \in 0..MaxFaults
      BY <2>9, HandBackType, SpentType, FaultType DEF NackFails
    <3> QED
      BY <2>9, <3>1, <3>2 DEF NackFails, TypeOK
  <2>10. CASE NackToClosed(d)
    BY <2>1, <2>2, <2>10, HandBackType, SpentType DEF NackToClosed, TypeOK
  <2>11. CASE Drop(d)
    BY <2>1, <2>2, <2>11 DEF Drop, TypeOK
  <2>12. ASSUME NEW t \in Deadlines, SetAckDeadline(d, t) PROVE TypeOK'
    <3>1. t \in Nat
      BY BrokersAssumption
    <3> QED
      BY <2>12, <3>1, ReletType, AsksType DEF SetAckDeadline, TypeOK
  <2>13. ASSUME NEW t \in Deadlines, SetAckDeadlineFails(d, t) PROVE TypeOK'
    <3>1. t \in Nat
      BY BrokersAssumption
    <3>2. leases' \subseteq Lease /\ deliveries' \subseteq Delivery /\ faults' \in 0..MaxFaults
      BY <2>13, <3>1, ReletType, AsksType, FaultType DEF SetAckDeadlineFails, TypeOK
    <3> QED
      BY <2>13, <3>2 DEF SetAckDeadlineFails, TypeOK
  <2> QED
    BY <1>17, <2>4, <2>5, <2>6, <2>7, <2>8, <2>9, <2>10, <2>11, <2>12, <2>13, <2>14 DEF Handle
<1>18. CASE Tick
  BY <1>18, TickEffect DEF Tick, TypeOK
<1>19. CASE UNCHANGED vars
  BY <1>19 DEF vars, TypeOK
<1> QED
  BY <1>3, <1>4, <1>6, <1>7, <1>8, <1>9, <1>10, <1>11, <1>12, <1>13, <1>14, <1>15, <1>16,
     <1>17, <1>18, <1>19 DEF Next

-----------------------------------------------------------------------------
(* What the steps do *)

(* Handing out S leases exactly the messages of S and counts one receive for each. *)
LEMMA GiveOutEffect ==
    ASSUME TypeOK, NEW S \in SUBSET ready, GiveOut(S)
    PROVE  /\ Leased' = Leased \cup S
           /\ \A l \in leases' : \/ l \in leases
                                 \/ l.msg \in S /\ l.n = receives[l.msg] + 1
           /\ leases \subseteq leases'
           /\ \A m \in S : receives'[m] = receives[m] + 1
           /\ \A m \in Messages \ S : receives'[m] = receives[m]
<1>1. S \subseteq Messages
  BY DEF TypeOK
<1> DEFINE L(m) == [msg |-> m, n |-> receives[m] + 1, left |-> LeaseLength]
<1>2. \A m \in S : L(m).msg = m /\ L(m).n = receives[m] + 1
  OBVIOUS
<1>3. leases' = leases \cup {L(m) : m \in S}
  BY DEF GiveOut
<1> HIDE DEF L
<1>4. Leased' = Leased \cup S
  BY <1>2, <1>3 DEF Leased
<1>5. \A l \in leases' : l \in leases \/ (l.msg \in S /\ l.n = receives[l.msg] + 1)
  BY <1>2, <1>3
<1> QED
  BY <1>1, <1>3, <1>4, <1>5 DEF GiveOut

(* The Delivery a failed call returns is of the same lease, spent if the call spends it. *)
LEMMA HandedBack ==
    ASSUME TypeOK, NEW d \in deliveries, NEW b \in BOOLEAN, HandBack(d, b)
    PROVE  \E e : /\ IsLeaseOf(e, d) /\ e.asked = 0 /\ e.spent = b /\ e.receipt = d.receipt
                  /\ deliveries' = (deliveries \ {d}) \cup {e}
<1>1. d \in Delivery
  BY DEF TypeOK
<1>2. PICK e : e = [d EXCEPT !.spent = b, !.asked = 0]
  OBVIOUS
<1>3. e.msg = d.msg /\ e.n = d.n /\ e.asked = 0 /\ e.spent = b /\ e.receipt = d.receipt
  BY <1>1, <1>2 DEF Delivery
<1> QED
  BY <1>2, <1>3 DEF HandBack, IsLeaseOf

(* set_ack_deadline leaves the same lease with the deadline that was asked for. *)
LEMMA Asked ==
    ASSUME TypeOK, NEW d \in deliveries, NEW t, Asks(d, t)
    PROVE  \E e : /\ IsLeaseOf(e, d) /\ e.asked = t /\ e.spent = d.spent /\ e.receipt = d.receipt
                  /\ deliveries' = (deliveries \ {d}) \cup {e}
<1>1. d \in Delivery
  BY DEF TypeOK
<1>2. PICK e : e = [d EXCEPT !.asked = t]
  OBVIOUS
<1>3. e.msg = d.msg /\ e.n = d.n /\ e.asked = t /\ e.spent = d.spent /\ e.receipt = d.receipt
  BY <1>1, <1>2 DEF Delivery
<1> QED
  BY <1>2, <1>3 DEF Asks, IsLeaseOf

(* Renewing a lease keeps every lease and gives this one its whole seconds. *)
LEMMA Relets ==
    ASSUME TypeOK, NEW d \in deliveries, NEW t, Valid(d), Relet(d, t)
    PROVE  /\ Leased' = Leased
           /\ \A l \in leases' : l \in leases \/ IsLeaseOf(l, d)
           /\ \A l \in leases : l \in leases' \/ IsLeaseOf(l, d)
           /\ \E l \in leases' : IsLeaseOf(l, d) /\ l.left = WholeSeconds(t)
<1>1. PICK k : k = [msg |-> d.msg, n |-> d.n, left |-> WholeSeconds(t)]
  OBVIOUS
<1>2. k.msg = d.msg /\ k.n = d.n /\ k.left = WholeSeconds(t)
  BY <1>1
<1>3. leases' = LeasesBut(d) \cup {k}
  BY <1>1 DEF Relet
<1> QED
  BY <1>2, <1>3 DEF LeasesBut, Leased, IsLeaseOf, Valid

\* What an Acker may do: it concerns the Delivery and its lease only.
LEMMA HandleEffect ==
    ASSUME TypeOK, NEW d \in deliveries, Handle(d)
    PROVE  /\ UNCHANGED <<config, sendVars, delayVars, closed, receives>>
           /\ ready' \subseteq ready \cup {d.msg}
           /\ \A l \in leases' : l \in leases \/ (IsLeaseOf(l, d) /\ Valid(d))
           /\ \/ deliveries' = deliveries \ {d}
              \/ \E e : IsLeaseOf(e, d) /\ deliveries' = (deliveries \ {d}) \cup {e}
           /\ Placed \subseteq Placed'
<1> USE DEF config, sendVars, delayVars, historyVars
<1>1. LeasesBut(d) \subseteq leases
  BY DEF LeasesBut
<1>2. ASSUME UNCHANGED delayVars PROVE Delayed' = Delayed
  BY <1>2 DEF Delayed
<1>3. ASSUME UNCHANGED leases PROVE Leased' = Leased
  BY <1>3 DEF Leased
<1>4. ASSUME Delete(d)
      PROVE  /\ leases' \subseteq leases /\ ready' \subseteq ready
             /\ ready \cup Leased \subseteq ready' \cup Leased' \cup acked'
             /\ acked \subseteq acked'
  BY <1>1, <1>3, <1>4, LeasesButEffect DEF Delete
<1>5. CASE Ack(d)
  BY <1>2, <1>4, <1>5 DEF Ack, Placed
<1>6. CASE AckTooLate(d)
  BY <1>2, <1>3, <1>6 DEF AckTooLate, Placed
<1>7. CASE AckFails(d)
  <2>1. /\ leases' \subseteq leases /\ ready' \subseteq ready
        /\ ready \cup Leased \subseteq ready' \cup Leased' \cup acked'
        /\ acked \subseteq acked'
    BY <1>3, <1>4, <1>7 DEF AckFails
  <2>2. \E e : IsLeaseOf(e, d) /\ deliveries' = (deliveries \ {d}) \cup {e}
    BY <1>7, HandedBack, SpentType DEF AckFails
  <2>3. Placed \subseteq Placed'
    BY <1>2, <1>7, <2>1 DEF AckFails, Placed
  <2> QED
    BY <1>7, <2>1, <2>2, <2>3 DEF AckFails
<1>8. CASE AckRefused(d)
  <2>1. \E e : IsLeaseOf(e, d) /\ deliveries' = (deliveries \ {d}) \cup {e}
    BY <1>8, HandedBack, SpentType DEF AckRefused
  <2> QED
    BY <1>2, <1>3, <1>8, <2>1 DEF AckRefused, Placed
<1>14. CASE AckBare(d)
  <2>1. \E e : IsLeaseOf(e, d) /\ deliveries' = (deliveries \ {d}) \cup {e}
    BY <1>14, HandedBack DEF AckBare
  <2> QED
    BY <1>2, <1>3, <1>14, <2>1 DEF AckBare, Placed
<1>9. CASE Nack(d)
  <2>1. leases' \subseteq leases /\ ready' \subseteq ready \cup {d.msg}
    BY <1>1, <1>9 DEF Nack
  <2>2. discarded \subseteq discarded' /\ ready \subseteq ready'
    BY <1>9 DEF Nack, Discards
  <2>3. Leased \subseteq Leased' \cup ready' \cup discarded'
    <3>1. CASE leases' = leases
      BY <1>3, <3>1
    <3>2. CASE leases' = LeasesBut(d) /\ ~Valid(d)
      <4>1. leases' = leases
        BY <3>2 DEF LeasesBut, Valid
      <4> QED
        BY <1>3, <4>1
    <3>3. CASE leases' = LeasesBut(d) /\ Valid(d) /\ NackEffect # "nothing"
      <4>1. NackEffect \in {"discarded", "released"}
        BY <3>3 DEF NackEffect
      <4>2. d.msg \in ready' \cup discarded'
        BY <1>9, <3>3, <4>1 DEF Nack, Discards
      <4> QED
        BY <3>3, <4>2, LeasesButEffect
    <3>4. NackEffect = "nothing" => backend # "in_memory"
      BY DEF NackEffect
    <3> QED
      BY <1>9, <3>1, <3>2, <3>3, <3>4 DEF Nack
  <2>4. Placed \subseteq Placed'
    BY <1>2, <1>9, <2>2, <2>3 DEF Nack, Placed
  <2> QED
    BY <1>9, <2>1, <2>4 DEF Nack
<1>10. CASE NackFails(d)
  <2>1. leases' \subseteq leases /\ ready' \subseteq ready \cup {d.msg}
    BY <1>1, <1>10 DEF NackFails
  <2>2. discarded \subseteq discarded' /\ ready \subseteq ready'
    BY <1>10 DEF NackFails, Discards
  <2>3. Leased \subseteq Leased' \cup ready' \cup discarded'
    <3>1. CASE leases' = leases
      BY <1>3, <3>1
    <3>2. CASE ~UNCHANGED leases
      <4>1. NackEffect \in {"discarded", "released"}
        BY <1>10 DEF NackEffect, NackFails
      <4>2. d.msg \in ready' \cup discarded' /\ leases' = LeasesBut(d)
        BY <1>10, <3>2, <4>1 DEF NackFails, Discards
      <4> QED
        BY <4>2, LeasesButEffect
    <3> QED
      BY <3>1, <3>2
  <2>4. Placed \subseteq Placed'
    BY <1>2, <1>10, <2>2, <2>3 DEF NackFails, Placed
  <2>5. \E e : IsLeaseOf(e, d) /\ deliveries' = (deliveries \ {d}) \cup {e}
    BY <1>10, HandedBack, SpentType DEF NackFails
  <2> QED
    BY <1>10, <2>1, <2>4, <2>5 DEF NackFails
<1>11. CASE NackToClosed(d)
  <2>1. \E e : IsLeaseOf(e, d) /\ deliveries' = (deliveries \ {d}) \cup {e}
    BY <1>11, HandedBack, SpentType DEF NackToClosed
  <2>2. leases' \subseteq leases /\ Leased \subseteq Leased' \cup gone'
    BY <1>11, LeasesButEffect DEF NackToClosed
  <2>3. Placed \subseteq Placed'
    BY <1>2, <1>11, <2>2 DEF NackToClosed, Placed
  <2> QED
    BY <1>11, <2>1, <2>2, <2>3 DEF NackToClosed
<1>12. CASE Drop(d)
  <2>1. leases' \subseteq leases /\ Leased \subseteq Leased' \cup dropped' /\ dropped \subseteq dropped'
    BY <1>3, <1>12, LeasesButEffect DEF Drop
  <2>2. Placed \subseteq Placed'
    BY <1>2, <1>12, <2>1 DEF Drop, Placed
  <2> QED
    BY <1>12, <2>1, <2>2 DEF Drop
<1>13. ASSUME NEW t \in Deadlines, SetAckDeadline(d, t) \/ SetAckDeadlineFails(d, t)
       PROVE  /\ UNCHANGED <<config, sendVars, delayVars, closed, receives, ready>>
              /\ \A l \in leases' : l \in leases \/ (IsLeaseOf(l, d) /\ Valid(d))
              /\ \E e : IsLeaseOf(e, d) /\ deliveries' = (deliveries \ {d}) \cup {e}
              /\ Placed \subseteq Placed'
  <2>1. Leased' = Leased /\ \A l \in leases' : l \in leases \/ (IsLeaseOf(l, d) /\ Valid(d))
    BY <1>3, <1>13, Relets DEF SetAckDeadline, SetAckDeadlineFails
  <2>2. Asks(d, t) \/ Asks(d, 0)
    BY <1>13 DEF SetAckDeadline, SetAckDeadlineFails
  <2>3. \E e : IsLeaseOf(e, d) /\ deliveries' = (deliveries \ {d}) \cup {e}
    BY <2>2, Asked
  <2>4. UNCHANGED <<config, sendVars, delayVars, closed, receives, ready, historyVars>>
    BY <1>13 DEF SetAckDeadline, SetAckDeadlineFails
  <2>5. Placed \subseteq Placed'
    BY <1>2, <2>1, <2>4 DEF Placed
  <2> QED
    BY <2>1, <2>3, <2>4, <2>5
<1> QED
  BY <1>5, <1>6, <1>7, <1>8, <1>9, <1>10, <1>11, <1>12, <1>13, <1>14 DEF Handle

\* No other Delivery loses its lease, and nothing that was neither ready nor leased
\* becomes so.
LEMMA HandleLeases ==
    ASSUME TypeOK, NEW d \in deliveries, Handle(d)
    PROVE  /\ \A l \in leases : l \in leases' \/ IsLeaseOf(l, d)
           /\ ready' \cup Leased' \subseteq ready \cup Leased
<1>1. \A l \in leases : l \in LeasesBut(d) \/ IsLeaseOf(l, d)
  BY DEF LeasesBut
<1>2. UNCHANGED leases => Leased' = Leased
  BY DEF Leased
<1>3. leases' = LeasesBut(d) => Leased' \subseteq Leased
  BY LeasesButEffect
<1>4. Valid(d) => d.msg \in Leased
  BY ValidLeased
<1>5. ASSUME leases' = LeasesBut(d) \/ UNCHANGED leases,
             ready' \subseteq ready \/ (Valid(d) /\ ready' \subseteq ready \cup {d.msg})
      PROVE  /\ \A l \in leases : l \in leases' \/ IsLeaseOf(l, d)
             /\ ready' \cup Leased' \subseteq ready \cup Leased
  BY <1>1, <1>2, <1>3, <1>4, <1>5
<1>6. CASE Ack(d) \/ AckTooLate(d) \/ AckFails(d) \/ AckRefused(d) \/ AckBare(d)
  BY <1>5, <1>6 DEF Ack, AckTooLate, AckFails, AckRefused, AckBare, Delete, historyVars
<1>7. CASE Nack(d) \/ NackFails(d) \/ NackToClosed(d) \/ Drop(d)
  BY <1>5, <1>7 DEF Nack, NackFails, NackToClosed, Drop
<1>8. ASSUME NEW t \in Deadlines, SetAckDeadline(d, t) \/ SetAckDeadlineFails(d, t)
      PROVE  /\ \A l \in leases : l \in leases' \/ IsLeaseOf(l, d)
             /\ ready' \cup Leased' \subseteq ready \cup Leased
  BY <1>2, <1>8, Relets DEF SetAckDeadline, SetAckDeadlineFails
<1> QED
  BY <1>6, <1>7, <1>8 DEF Handle

\* The Delivery e that an Acker's caller has instead of d: it is of the same receive,
\* it can be used again unless the backend is rabbitmq, the channel has no receiver or
\* there is no receipt, and if it has a deadline then the lease has what is left of it
\* in whole seconds.
Returned(d, e) ==
    /\ IsLeaseOf(e, d)
    /\ e.receipt = d.receipt
    /\ e.spent => d.spent \/ backend = "rabbitmq" \/ closed \/ ~d.receipt
    /\ \/ e.asked = 0
       \/ /\ e.asked \in Nat
          /\ \E l \in leases' : IsLeaseOf(l, d) /\ l.left = WholeSeconds(e.asked)

(* After a call on d each Delivery is another one, untouched, or d as the call returned it. *)
LEMMA HandleReturns ==
    ASSUME TypeOK, NEW d \in deliveries, Handle(d), NEW x \in deliveries'
    PROVE  (x \in deliveries /\ x # d) \/ Returned(d, x)
<1>1. CASE deliveries' = deliveries \ {d}
  BY <1>1
<1>2. ASSUME NEW b \in BOOLEAN, HandBack(d, b),
             b => backend = "rabbitmq" \/ closed \/ ~d.receipt
      PROVE  (x \in deliveries /\ x # d) \/ Returned(d, x)
  <2>1. PICK e : /\ IsLeaseOf(e, d) /\ e.asked = 0 /\ e.spent = b /\ e.receipt = d.receipt
                 /\ deliveries' = (deliveries \ {d}) \cup {e}
    BY <1>2, HandedBack
  <2>2. Returned(d, e)
    BY <1>2, <2>1 DEF Returned
  <2> QED
    BY <2>1, <2>2
<1>3. CASE AckFails(d) \/ AckRefused(d) \/ NackFails(d)
  <2>1. HandBack(d, SpentByFailure) /\ backend # "in_memory"
    BY <1>3 DEF AckFails, AckRefused, NackFails
  <2>2. SpentByFailure => backend = "rabbitmq"
    BY <2>1 DEF SpentByFailure
  <2> QED
    BY <1>2, <2>1, <2>2, SpentType
<1>4. CASE NackToClosed(d) \/ AckBare(d)
  BY <1>2, <1>4, SpentType DEF NackToClosed, AckBare
<1>5. ASSUME NEW t \in Deadlines, SetAckDeadline(d, t)
      PROVE  (x \in deliveries /\ x # d) \/ Returned(d, x)
  <2>1. PICK e : /\ IsLeaseOf(e, d) /\ e.asked = t /\ e.spent = d.spent /\ e.receipt = d.receipt
                 /\ deliveries' = (deliveries \ {d}) \cup {e}
    <3>1. Asks(d, t)
      BY <1>5 DEF SetAckDeadline
    <3> QED
      BY <3>1, Asked
  <2>2. \E l \in leases' : IsLeaseOf(l, d) /\ l.left = WholeSeconds(t)
    BY <1>5, Relets DEF SetAckDeadline
  <2>3. t \in Nat
    BY BrokersAssumption
  <2>4. Returned(d, e)
    BY <2>1, <2>2, <2>3 DEF Returned
  <2> QED
    BY <2>1, <2>4
<1>6. ASSUME NEW t \in Deadlines, SetAckDeadlineFails(d, t)
      PROVE  (x \in deliveries /\ x # d) \/ Returned(d, x)
  <2>1. PICK e : /\ IsLeaseOf(e, d) /\ e.asked = 0 /\ e.spent = d.spent /\ e.receipt = d.receipt
                 /\ deliveries' = (deliveries \ {d}) \cup {e}
    <3>1. Asks(d, 0)
      BY <1>6 DEF SetAckDeadlineFails
    <3> QED
      BY <3>1, Asked
  <2> QED
    BY <2>1 DEF Returned
<1> QED
  BY <1>1, <1>3, <1>4, <1>5, <1>6 DEF Handle, Ack, AckTooLate, Nack, Drop

\* The steps that are not a producer's.
ServiceStep ==
    \/ \E w \in waiting : Due(w)
    \/ \E S \in SUBSET ready : Receive(S) \/ ReceiveBare(S) \/ ReceiveFails(S)
    \/ \E l \in leases : LeaseEnds(l)
    \/ CloseConsumer
    \/ \E d \in deliveries : Handle(d)
    \/ Tick

\* They move what the service has and keep account of all of it.
LEMMA ServiceEffect ==
    ASSUME TypeOK, SendsOK, ReceiptsOK, ServiceStep
    PROVE  /\ UNCHANGED <<config, sendVars>>
           /\ Taken' \subseteq Taken
           /\ Placed \subseteq Placed'
           /\ Received' \subseteq Received \cup Placed'
<1> USE DEF config, sendVars, delayVars, historyVars
<1>1. ASSUME UNCHANGED waiting PROVE Delayed' = Delayed
  BY <1>1 DEF Delayed
<1>2. ASSUME UNCHANGED leases PROVE Leased' = Leased
  BY <1>2 DEF Leased
<1>9. UNCHANGED receives => Received' = Received
  BY DEF Received
<1>3. CASE \E w \in waiting : Due(w)
  <2>1. PICK w \in waiting : Due(w)
    BY <1>3
  <2>2. waiting' = waiting \ {w} /\ UNCHANGED <<leases, receives>>
    BY <2>1 DEF Due
  <2>3. Delayed' \subseteq Delayed /\ Delayed \subseteq Delayed' \cup {w.msg} /\ w.msg \in Delayed
    BY <2>2 DEF Delayed
  <2>4. ready' \subseteq ready \cup {w.msg} /\ {w.msg} \subseteq ready' \cup gone'
        /\ gone \subseteq gone' /\ ready \subseteq ready'
    BY <2>1 DEF Due
  <2>5. Taken' \subseteq Taken
    BY <2>2, <2>3, <2>4 DEF Taken, Received
  <2>6. Placed \subseteq Placed'
    BY <1>2, <2>1, <2>2, <2>3, <2>4 DEF Placed, Due
  <2> QED
    BY <1>9, <2>1, <2>2, <2>5, <2>6 DEF Due
<1>4. CASE \E S \in SUBSET ready : Receive(S) \/ ReceiveBare(S) \/ ReceiveFails(S)
  <2>1. PICK S \in SUBSET ready : Receive(S) \/ ReceiveBare(S) \/ ReceiveFails(S)
    BY <1>4
  <2>2. GiveOut(S) /\ UNCHANGED <<config, sendVars, delayVars, historyVars>>
    BY <2>1 DEF Receive, ReceiveBare, ReceiveFails
  <2>3. ready' = ready \ S
    BY <2>2 DEF GiveOut
  <2>4. Leased' = Leased \cup S /\ \A m \in Messages \ S : receives'[m] = receives[m]
    BY <2>2, GiveOutEffect
  <2>5. Taken' \subseteq Taken
    BY <1>1, <2>2, <2>3, <2>4 DEF Taken, Received
  <2>6. Placed \subseteq Placed'
    BY <1>1, <2>2, <2>3, <2>4 DEF Placed
  <2>7. Received' \subseteq Received \cup Placed'
    BY <2>4 DEF Received, Placed
  <2> QED
    BY <2>2, <2>5, <2>6, <2>7
<1>5. CASE \E l \in leases : LeaseEnds(l)
  <2>1. PICK l \in leases : LeaseEnds(l)
    BY <1>5
  <2>2. l.msg \in Taken
    BY DeliveryKnown
  <2>3. leases' = leases \ {l} /\ ready' = ready \cup {l.msg} /\ UNCHANGED <<waiting, receives>>
    BY <2>1 DEF LeaseEnds
  <2>4. Leased \subseteq Leased' \cup {l.msg}
    BY <2>3 DEF Leased
  <2>5. Taken' \subseteq Taken
    BY <1>1, <2>2, <2>3 DEF Taken, Received
  <2>6. Placed \subseteq Placed'
    BY <1>1, <2>1, <2>3, <2>4 DEF Placed, LeaseEnds
  <2> QED
    BY <1>9, <2>1, <2>5, <2>6 DEF LeaseEnds
<1>6. CASE CloseConsumer
  <2>1. Taken' \subseteq Taken
    BY <1>1, <1>6 DEF CloseConsumer, Taken, Received
  <2>2. Placed \subseteq Placed'
    BY <1>1, <1>2, <1>6 DEF CloseConsumer, Placed
  <2> QED
    BY <1>6, <1>9, <2>1, <2>2 DEF CloseConsumer
<1>7. CASE \E d \in deliveries : Handle(d)
  <2>1. PICK d \in deliveries : Handle(d)
    BY <1>7
  <2>2. d.msg \in Taken
    BY DeliveryKnown
  <2>3. /\ UNCHANGED <<config, sendVars, delayVars, closed, receives>>
        /\ ready' \subseteq ready \cup {d.msg}
        /\ Placed \subseteq Placed'
    BY <2>1, HandleEffect
  <2>4. Taken' \subseteq Taken
    BY <1>1, <2>2, <2>3 DEF Taken, Received
  <2> QED
    BY <1>9, <2>3, <2>4
<1>8. CASE Tick
  <2>1. Leased' = Leased /\ Delayed' = Delayed
    BY <1>8, TickEffect
  <2> QED
    BY <1>8, <2>1 DEF Tick, Taken, Received, Placed
<1> QED
  BY <1>3, <1>4, <1>5, <1>6, <1>7, <1>8 DEF ServiceStep

\* The steps of producers.
SendStep ==
    \/ \E s \in Batches : SendBatch(s)
    \/ Refuse \/ Publish \/ PublishPartly \/ PublishFails \/ PublishToClosed
    \/ \E m \in Messages, t \in Delays : SendScheduled(m, t) \/ SendScheduledFails(m, t)

\* Nothing a consumer has changes.
LEMMA SendKeeps == SendStep => UNCHANGED <<config, leases, deliveries, receives, Leased>>
BY DEF SendStep, SendBatch, Refuse, Publish, PublishPartly, PublishFails, PublishToClosed,
       SendScheduled, SendScheduledFails, Leased

\* A request adds what is in it and nothing else to what the service has.
LEMMA RequestEffect ==
    ASSUME TypeOK, SendsOK, ReceiptsOK, Publish \/ PublishPartly \/ PublishFails
    PROVE  /\ Request \subseteq Unsubmitted /\ Request \subseteq calling
           /\ ready' \subseteq ready \cup Request
           /\ Taken' \subseteq Taken \cup Request
           /\ Placed \subseteq Placed'
           /\ ~TooLarge
           /\ \/ Advance /\ Request \subseteq Placed' \cup swallowed'
              \/ batch' = <<>> /\ calling' = {} /\ UNCHANGED sent
           /\ swallowed \subseteq swallowed'
           /\ UNCHANGED <<config, tried, refused, waiting, notBefore>>
<1>1. batch # <<>> /\ ~TooLarge
  BY DEF Publish, PublishPartly, PublishFails
<1>2. Request \subseteq Unsubmitted /\ Request \subseteq calling
  BY <1>1, RequestPlaces DEF SendsOK
<1>3. /\ ready \subseteq ready' /\ ready' \subseteq ready \cup Request
      /\ swallowed \subseteq swallowed'
      /\ UNCHANGED <<config, tried, refused, waiting, notBefore, leases, receives, historyVars>>
  BY DEF Publish, PublishPartly, PublishFails, delayVars
<1>4. UNCHANGED <<Delayed, Leased, acked, discarded, dropped, gone>>
  BY <1>3 DEF Delayed, Leased, historyVars
<1>5. Taken' \subseteq Taken \cup Request
  BY <1>3, <1>4 DEF Taken, Received
<1>6. Placed \subseteq Placed'
  BY <1>3, <1>4 DEF Placed
<1>7. \/ Advance /\ Request \subseteq ready' \cup swallowed'
      \/ batch' = <<>> /\ calling' = {} /\ UNCHANGED sent
  BY DEF Publish, PublishPartly, PublishFails
<1>8. ready' \subseteq Placed'
  BY DEF Placed
<1> QED
  BY <1>1, <1>2, <1>3, <1>5, <1>6, <1>7, <1>8

\* So does a scheduled send, of a message nothing is known of.
LEMMA ScheduleEffect ==
    ASSUME TypeOK, SendsOK, ReceiptsOK, NEW m \in Messages, NEW t \in Delays,
           SendScheduled(m, t) \/ SendScheduledFails(m, t)
    PROVE  /\ calling = {} /\ batch = <<>> /\ m \notin tried /\ tried' = tried \cup {m}
           /\ backend \in {"sqs", "azure"} => m \notin Unsendable
           /\ UNCHANGED <<config, batch, calling, refused, ready>>
           /\ Keep(m, t) \/ UNCHANGED <<waiting, notBefore>>
           /\ Taken' \subseteq Taken \cup {m}
           /\ Placed \subseteq Placed'
           /\ sent \subseteq sent' /\ sent' \subseteq sent \cup Placed' \cup swallowed'
           /\ swallowed \subseteq swallowed'
           /\ t \in Nat
<1>1. t \in Nat
  BY BrokersAssumption
<1>2. MaySchedule(m) /\ (Keep(m, t) \/ UNCHANGED <<waiting, notBefore>>)
  BY DEF SendScheduled, SendScheduledFails, delayVars
<1>3. calling = {} /\ batch = <<>> /\ m \notin tried /\ tried' = tried \cup {m}
      /\ (backend \in {"sqs", "azure"} => m \notin Unsendable)
  BY <1>2 DEF MaySchedule, TypeOK
<1>4. UNCHANGED <<config, batch, calling, refused, ready, leases, receives, historyVars>>
      /\ swallowed \subseteq swallowed'
  BY DEF SendScheduled, SendScheduledFails
<1>5. Delayed' = Delayed \/ Delayed' = Delayed \cup {m}
  <2>1. UNCHANGED waiting => UNCHANGED Delayed
    BY DEF Delayed
  <2> QED
    BY <1>1, <1>2, <2>1, KeepType
<1>6. UNCHANGED <<Leased, acked, discarded, dropped, gone>>
  BY <1>4 DEF Leased, historyVars
<1>7. Taken' \subseteq Taken \cup {m}
  BY <1>4, <1>5 DEF Taken, Received
<1>8. Placed \subseteq Placed'
  BY <1>4, <1>5, <1>6 DEF Placed
<1>9. \/ UNCHANGED sent
      \/ sent' = sent \cup {m} /\ (Keep(m, t) \/ m \in swallowed')
  BY DEF SendScheduled, SendScheduledFails
<1>10. Keep(m, t) => m \in Delayed'
  BY <1>1, KeepType
<1>11. Delayed' \subseteq Placed'
  BY DEF Placed
<1> QED
  BY <1>1, <1>2, <1>3, <1>4, <1>7, <1>8, <1>9, <1>10, <1>11

\* The start of a send.
LEMMA BatchEffect ==
    ASSUME TypeOK, SendsOK, NEW s \in Batches, SendBatch(s)
    PROVE  /\ calling' \cap tried = {} /\ tried' = tried \cup calling'
           /\ Unsubmitted' = calling' /\ calling' \subseteq Messages
           /\ UNCHANGED <<config, sent, refused, swallowed, Taken, Placed, waiting, notBefore, ready>>
<1>1. calling' = {s[i] : i \in DOMAIN s} /\ batch' = s /\ tried' = tried \cup calling'
  BY DEF SendBatch
<1>2. calling' \cap tried = {}
  BY <1>1 DEF SendBatch
<1>3. Unsubmitted' = calling'
  BY <1>1 DEF Unsubmitted
<1>4. UNCHANGED <<config, sent, refused, swallowed, waiting, notBefore, ready, leases, receives,
                  acked, discarded, dropped, gone>>
  BY DEF SendBatch, delayVars, historyVars
<1>5. UNCHANGED <<Taken, Placed>>
  BY <1>4 DEF Taken, Received, Placed, Delayed, Leased
<1>6. calling' \subseteq Messages
  BY <1>1, BatchPassed
<1> QED
  BY <1>1, <1>2, <1>3, <1>4, <1>5, <1>6

\* The end of a send that sends no more.
LEMMA EndEffect ==
    ASSUME Refuse \/ PublishToClosed
    PROVE  /\ batch' = <<>> /\ Unsubmitted' = {} /\ calling' = {}
           /\ UNCHANGED <<config, sent, swallowed, tried, Taken, Placed, waiting, notBefore, ready>>
           /\ UNCHANGED refused \/ (TooLarge /\ refused' = refused \cup calling)
<1>1. UNCHANGED <<config, sent, tried, swallowed, waiting, notBefore, ready, leases, receives,
                  acked, discarded, dropped, gone>>
  BY DEF Refuse, PublishToClosed, delayVars, historyVars
<1>2. UNCHANGED <<Taken, Placed>>
  BY <1>1 DEF Taken, Received, Placed, Delayed, Leased
<1>3. batch' = <<>> /\ calling' = {}
  BY DEF Refuse, PublishToClosed
<1>4. Unsubmitted' = {}
  BY <1>3 DEF Unsubmitted
<1> QED
  BY <1>1, <1>2, <1>3, <1>4 DEF Refuse, PublishToClosed

-----------------------------------------------------------------------------
(* The parts of the invariant *)

(* Every step is one of the producer, one of the consumer and the service, or a stutter. *)
LEMMA StepKinds == [Next]_vars => SendStep \/ ServiceStep \/ UNCHANGED vars
BY DEF Next, SendStep, ServiceStep

\* Nothing of what the invariant speaks of changes when no variable does.
LEMMA Stutter ==
    ASSUME UNCHANGED vars
    PROVE  UNCHANGED <<backend, dyn, batch, calling, waiting, ready, leases, deliveries, tried,
                       receives, sent, refused, swallowed, acked, discarded, dropped, gone,
                       notBefore>>
BY DEF vars, config, sendVars, delayVars, historyVars

(* What the service has was submitted, and a send that has not returned is neither sent nor refused. *)
LEMMA SendsStep == TypeOK /\ SendsOK /\ ReceiptsOK /\ [Next]_vars => SendsOK'
<1> SUFFICES ASSUME TypeOK, SendsOK, ReceiptsOK, [Next]_vars PROVE SendsOK'
  OBVIOUS
<1>1. /\ Unsubmitted \subseteq calling /\ calling \subseteq tried /\ calling \subseteq Messages
      /\ calling \cap (sent \cup refused) = {} /\ Taken \subseteq tried
      /\ sent \cup refused \subseteq tried
      /\ \A m \in (Messages \ tried) \cup calling : notBefore[m] = 0
      /\ notBefore \in [Messages -> Nat]
  BY DEF SendsOK, TypeOK
<1>2. ASSUME NEW s \in Batches, SendBatch(s) PROVE SendsOK'
  <2>1. /\ calling' \cap tried = {} /\ tried' = tried \cup calling'
        /\ Unsubmitted' = calling' /\ calling' \subseteq Messages
        /\ UNCHANGED <<sent, refused, Taken, notBefore>>
    BY <1>2, BatchEffect
  <2> QED
    BY <1>1, <2>1 DEF SendsOK
<1>3. CASE Refuse \/ PublishToClosed
  <2>1. /\ Unsubmitted' = {} /\ calling' = {}
        /\ UNCHANGED <<sent, tried, Taken, notBefore>>
    BY <1>3, EndEffect
  <2> QED
    BY <1>1, <2>1 DEF SendsOK
<1>4. CASE Publish \/ PublishPartly \/ PublishFails
  <2>1. /\ Request \subseteq calling /\ Taken' \subseteq Taken \cup Request
        /\ Advance \/ (batch' = <<>> /\ calling' = {})
        /\ UNCHANGED <<tried, refused, notBefore>>
    BY <1>4, RequestEffect
  <2>2. Taken' \subseteq tried'
    BY <1>1, <2>1
  <2>3. CASE batch' = <<>> /\ calling' = {}
    <3>1. Unsubmitted' = {}
      BY <2>3 DEF Unsubmitted
    <3> QED
      BY <1>1, <2>1, <2>2, <2>3, <3>1 DEF SendsOK
  <2>4. CASE Advance
    <3>1. batch # <<>>
      BY <1>4 DEF Publish, PublishPartly, PublishFails
    <3>2. /\ Unsubmitted' \subseteq Unsubmitted
          /\ \/ UNCHANGED <<sent, calling>>
             \/ Unsubmitted' = {} /\ calling' = {}
      BY <2>4, <3>1, AdvanceEffect
    <3> QED
      BY <1>1, <2>1, <2>2, <3>2 DEF SendsOK
  <2> QED
    BY <2>1, <2>3, <2>4
<1>5. ASSUME NEW m \in Messages, NEW t \in Delays,
             SendScheduled(m, t) \/ SendScheduledFails(m, t)
      PROVE  SendsOK'
  <2>1. /\ calling = {} /\ batch = <<>> /\ tried' = tried \cup {m}
        /\ UNCHANGED <<batch, calling, refused>>
        /\ Keep(m, t) \/ UNCHANGED notBefore
        /\ Taken' \subseteq Taken \cup {m}
    BY <1>5, ScheduleEffect
  <2>2. Unsubmitted' = {}
    BY <2>1 DEF Unsubmitted
  <2>3. \A k \in Messages \ tried' : notBefore'[k] = 0
    BY <1>1, <2>1 DEF Keep
  <2> QED
    BY <1>1, <2>1, <2>2, <2>3 DEF SendsOK
<1>6. CASE ServiceStep
  <2>1. UNCHANGED <<batch, calling, tried, sent, refused>> /\ Taken' \subseteq Taken
    BY <1>6, ServiceEffect DEF sendVars
  <2>2. UNCHANGED Unsubmitted
    BY <2>1 DEF Unsubmitted
  <2>3. UNCHANGED notBefore \/ notBefore' = [m \in Messages |-> Less(notBefore[m])]
    <3>1. CASE \E d \in deliveries : Handle(d)
      BY <3>1, HandleEffect DEF delayVars
    <3>2. CASE Tick
      BY <3>2 DEF Tick
    <3> QED
      BY <1>6, <3>1, <3>2 DEF ServiceStep, Due, Receive, ReceiveBare, ReceiveFails, LeaseEnds, CloseConsumer,
                              delayVars
  <2>4. \A m \in (Messages \ tried) \cup calling : notBefore'[m] = 0
    BY <1>1, <2>3 DEF Less
  <2> QED
    BY <1>1, <2>1, <2>2, <2>4 DEF SendsOK
<1>7. CASE UNCHANGED vars
  BY <1>7, Stutter DEF SendsOK, Unsubmitted, Taken, Received, Delayed
<1> QED
  BY <1>2, <1>3, <1>4, <1>5, <1>6, <1>7, StepKinds DEF SendStep

(* Whatever a send has submitted stays placed: at the service, leased, or settled. *)
LEMMA SubmittedStep ==
    TypeOK /\ SendsOK /\ ReceiptsOK /\ SubmittedOK /\ [Next]_vars => SubmittedOK'
<1> SUFFICES ASSUME TypeOK, SendsOK, ReceiptsOK, SubmittedOK, [Next]_vars PROVE SubmittedOK'
  OBVIOUS
<1>1. /\ sent \cup (calling \ Unsubmitted) \subseteq Placed \cup swallowed
      /\ Received \subseteq Placed
  BY DEF SubmittedOK
<1>8. SendStep => UNCHANGED Received
  BY SendKeeps DEF Received
<1>2. ASSUME NEW s \in Batches, SendBatch(s) PROVE SubmittedOK'
  BY <1>1, <1>2, <1>8, BatchEffect DEF SubmittedOK, SendStep
<1>3. CASE Refuse \/ PublishToClosed
  BY <1>1, <1>3, <1>8, EndEffect DEF SubmittedOK, SendStep
<1>4. CASE Publish \/ PublishPartly \/ PublishFails
  <2>1. /\ Placed \subseteq Placed' /\ swallowed \subseteq swallowed'
        /\ \/ Advance /\ Request \subseteq Placed' \cup swallowed'
           \/ batch' = <<>> /\ calling' = {} /\ UNCHANGED sent
    BY <1>4, RequestEffect
  <2>4. UNCHANGED Received
    BY <1>4, <1>8 DEF SendStep
  <2>2. CASE batch' = <<>> /\ calling' = {} /\ UNCHANGED sent
    BY <1>1, <2>1, <2>2, <2>4 DEF SubmittedOK
  <2>3. CASE Advance /\ Request \subseteq Placed' \cup swallowed'
    <3>1. batch # <<>>
      BY <1>4 DEF Publish, PublishPartly, PublishFails
    <3>2. /\ Unsubmitted \subseteq Request \cup Unsubmitted'
          /\ \/ UNCHANGED <<sent, calling>>
             \/ Unsubmitted' = {} /\ sent' = sent \cup calling /\ calling' = {}
      BY <2>3, <3>1, AdvanceEffect
    <3> QED
      BY <1>1, <2>1, <2>3, <2>4, <3>2 DEF SubmittedOK
  <2> QED
    BY <2>1, <2>2, <2>3
<1>5. ASSUME NEW m \in Messages, NEW t \in Delays,
             SendScheduled(m, t) \/ SendScheduledFails(m, t)
      PROVE  SubmittedOK'
  <2>1. /\ calling = {} /\ UNCHANGED calling
        /\ Placed \subseteq Placed' /\ swallowed \subseteq swallowed'
        /\ sent' \subseteq sent \cup Placed' \cup swallowed'
    BY <1>5, ScheduleEffect
  <2>2. UNCHANGED Received
    BY <1>5, <1>8 DEF SendStep
  <2> QED
    BY <1>1, <2>1, <2>2 DEF SubmittedOK
<1>6. CASE ServiceStep
  <2>1. /\ UNCHANGED <<batch, calling, sent, swallowed>> /\ Placed \subseteq Placed'
        /\ Received' \subseteq Received \cup Placed'
    BY <1>6, ServiceEffect DEF sendVars
  <2>2. UNCHANGED Unsubmitted
    BY <2>1 DEF Unsubmitted
  <2> QED
    BY <1>1, <2>1, <2>2 DEF SubmittedOK
<1>7. CASE UNCHANGED vars
  BY <1>1, <1>7, Stutter DEF SubmittedOK, Unsubmitted, Placed, Delayed, Leased, Received
<1> QED
  BY <1>2, <1>3, <1>4, <1>5, <1>6, <1>7, StepKinds DEF SendStep

\* Where a send looks at its messages, no request has one that it refuses.
LEMMA RequestSendable ==
    ASSUME TypeOK, batch # <<>>, ~TooLarge, backend \in {"sqs", "azure"}
    PROVE  Request \cap Unsendable = {}
<1>1. Request \subseteq Unsubmitted /\ (dyn => Request = {batch[1]})
  BY RequestPlaces
<1> QED
  BY <1>1 DEF TooLarge, Unsubmitted

(* As long as a batch may be refused as a whole, none of it is at the service. *)
LEMMA RefusalsStep ==
    TypeOK /\ SendsOK /\ ReceiptsOK /\ RefusalsOK /\ RefusedWhole /\ [Next]_vars
        => RefusalsOK' /\ RefusedWhole'
<1> SUFFICES ASSUME TypeOK, SendsOK, ReceiptsOK, RefusalsOK, RefusedWhole, [Next]_vars
             PROVE  RefusalsOK' /\ RefusedWhole'
  OBVIOUS
<1>1. backend \in {"sqs", "azure"} /\ ~dyn /\ TooLarge => calling \cap Taken = {}
  BY DEF RefusalsOK
<1>2. /\ backend \in {"sqs", "azure"} => Taken \cap Unsendable = {}
      /\ backend \in {"sqs", "azure"} /\ ~dyn => Taken \cap refused = {}
  BY DEF RefusedWhole
<1>3. /\ Taken \subseteq tried /\ calling \subseteq tried /\ calling \cap refused = {}
      /\ refused \subseteq tried
  BY DEF SendsOK, TypeOK
<1>4. ASSUME backend' = backend, dyn' = dyn,
             backend \in {"sqs", "azure"} => Taken' \cap Unsendable = {},
             backend \in {"sqs", "azure"} /\ ~dyn => Taken' \cap refused' = {}
      PROVE  RefusedWhole'
  BY <1>4 DEF RefusedWhole
<1>5. ASSUME batch' = <<>> PROVE RefusalsOK'
  BY <1>5 DEF RefusalsOK, TooLarge
<1>6. ASSUME NEW s \in Batches, SendBatch(s) PROVE RefusalsOK' /\ RefusedWhole'
  <2>1. calling' \cap tried = {} /\ UNCHANGED <<backend, dyn, refused, Taken>>
    BY <1>6, BatchEffect DEF config
  <2>2. RefusalsOK'
    BY <1>3, <2>1 DEF RefusalsOK
  <2> QED
    BY <1>2, <1>4, <2>1, <2>2
<1>7. CASE Refuse \/ PublishToClosed
  <2>1. /\ batch' = <<>> /\ UNCHANGED <<backend, dyn, Taken>>
        /\ UNCHANGED refused \/ (TooLarge /\ refused' = refused \cup calling)
    BY <1>7, EndEffect DEF config
  <2> QED
    BY <1>1, <1>2, <1>4, <1>5, <2>1
<1>8. CASE Publish \/ PublishPartly \/ PublishFails
  <2>1. /\ Request \subseteq calling /\ Taken' \subseteq Taken \cup Request /\ ~TooLarge
        /\ Advance \/ batch' = <<>>
        /\ UNCHANGED <<backend, dyn, refused>>
    BY <1>8, RequestEffect DEF config
  <2>2. batch # <<>>
    BY <1>8 DEF Publish, PublishPartly, PublishFails
  <2>3. backend \in {"sqs", "azure"} => Request \cap Unsendable = {}
    BY <2>1, <2>2, RequestSendable
  <2>4. RefusedWhole'
    BY <1>2, <1>3, <1>4, <2>1, <2>3
  <2>5. RefusalsOK'
    <3>1. CASE Advance
      <4>1. Unsubmitted' \subseteq Unsubmitted
        BY <2>2, <3>1, AdvanceEffect
      <4>2. backend \in {"sqs", "azure"} /\ ~dyn => Unsubmitted \cap Unsendable = {}
        BY <2>1, <2>2 DEF TooLarge, Unsubmitted
      <4>3. TooLarge' /\ ~dyn' => Unsubmitted' \cap Unsendable # {}
        BY DEF TooLarge, Unsubmitted
      <4> QED
        BY <2>1, <4>1, <4>2, <4>3 DEF RefusalsOK
    <3> QED
      BY <1>5, <2>1, <3>1
  <2> QED
    BY <2>4, <2>5
<1>9. ASSUME NEW m \in Messages, NEW t \in Delays,
             SendScheduled(m, t) \/ SendScheduledFails(m, t)
      PROVE  RefusalsOK' /\ RefusedWhole'
  <2>1. /\ batch' = <<>> /\ m \notin tried /\ (backend \in {"sqs", "azure"} => m \notin Unsendable)
        /\ Taken' \subseteq Taken \cup {m} /\ UNCHANGED <<backend, dyn, refused>>
    BY <1>9, ScheduleEffect DEF config
  <2> QED
    BY <1>2, <1>3, <1>4, <1>5, <2>1
<1>10. CASE ServiceStep
  <2>1. UNCHANGED <<backend, dyn, batch, calling, refused>> /\ Taken' \subseteq Taken
    BY <1>10, ServiceEffect DEF sendVars, config
  <2>2. UNCHANGED TooLarge
    BY <2>1 DEF TooLarge
  <2>3. RefusalsOK'
    BY <1>1, <2>1, <2>2 DEF RefusalsOK
  <2> QED
    BY <1>2, <1>4, <2>1, <2>3
<1>11. CASE UNCHANGED vars
  <2>1. UNCHANGED <<Taken, TooLarge, backend, dyn, calling, refused>>
    BY <1>11, Stutter DEF Taken, Received, Delayed, TooLarge
  <2> QED
    BY <2>1 DEF RefusalsOK, RefusedWhole
<1> QED
  BY <1>6, <1>7, <1>8, <1>9, <1>10, <1>11, StepKinds DEF SendStep

\* A receive is a new one: no lease and no Delivery has its number.
LEMMA ReceiveEffect ==
    ASSUME TypeOK, ReceiptsOK, NEW S \in SUBSET ready, Receive(S) \/ ReceiveBare(S) \/ ReceiveFails(S)
    PROVE  /\ \A l \in leases' : \A d \in deliveries : IsLeaseOf(l, d) => l \in leases
           /\ leases \subseteq leases' /\ Leased' = Leased \cup S
           /\ \A d \in deliveries' : \/ d \in deliveries
                                     \/ /\ d.msg \in S /\ d.n = receives[d.msg] + 1
                                        /\ ~d.spent /\ d.asked = 0
                                        /\ d.receipt \/ backend = "sqs"
           /\ \A d, e \in deliveries' \ deliveries : d.msg = e.msg => d = e
           /\ \A m \in Messages : receives'[m] >= receives[m]
           /\ \A m \in S : receives'[m] = receives[m] + 1
           /\ \A m \in Messages : receives[m] \in Nat
<1>1. S \subseteq Messages /\ receives \in [Messages -> 0..MaxLeases] /\ MaxLeases \in Nat
  BY BrokersAssumption DEF TypeOK
<1>2. \A m \in Messages : receives[m] \in Nat
  BY <1>1
<1>3. GiveOut(S)
  BY DEF Receive, ReceiveBare, ReceiveFails
<1>4. /\ Leased' = Leased \cup S /\ leases \subseteq leases'
      /\ \A l \in leases' : l \in leases \/ (l.msg \in S /\ l.n = receives[l.msg] + 1)
      /\ \A m \in S : receives'[m] = receives[m] + 1
      /\ \A m \in Messages \ S : receives'[m] = receives[m]
  BY <1>3, GiveOutEffect
<1>5. \A m \in Messages : receives'[m] >= receives[m]
  BY <1>2, <1>4
<1>6. \A l \in leases' : \A d \in deliveries : IsLeaseOf(l, d) => l \in leases
  <2> SUFFICES ASSUME NEW l \in leases', NEW d \in deliveries, IsLeaseOf(l, d), l \notin leases
               PROVE  FALSE
    OBVIOUS
  <2>1. d.msg \in Messages /\ d.n \in Nat /\ d.n <= receives[d.msg]
    BY DEF TypeOK, Delivery, ReceiptsOK
  <2>2. d.n = receives[d.msg] + 1
    BY <1>4 DEF IsLeaseOf
  <2> QED
    BY <1>2, <2>1, <2>2
<1> DEFINE New == /\ \A d \in deliveries' : \/ d \in deliveries
                                            \/ /\ d.msg \in S /\ d.n = receives[d.msg] + 1
                                               /\ ~d.spent /\ d.asked = 0
                                               /\ d.receipt \/ backend = "sqs"
                  /\ \A d, e \in deliveries' \ deliveries : d.msg = e.msg => d = e
<1>7. ASSUME NEW C, Wrap(S, C), C = {} \/ backend = "sqs" PROVE New
  <2>1. /\ \A d \in deliveries' : \/ d \in deliveries
                                 \/ /\ d.msg \in S /\ d.n = receives[d.msg] + 1
                                    /\ ~d.spent /\ d.asked = 0 /\ (d.receipt \/ d.msg \in C)
        /\ \A d, e \in deliveries' \ deliveries : d.msg = e.msg => d = e
    BY <1>7, Wrapped
  <2> QED
    BY <1>7, <2>1
<1>8. ASSUME UNCHANGED deliveries PROVE New
  BY <1>8
<1>9. New
  BY <1>7, <1>8 DEF Receive, ReceiveBare, ReceiveFails
<1> QED
  BY <1>2, <1>4, <1>5, <1>6, <1>9

(* Leases and Deliveries stay those of receives that took place, one Delivery for each. *)
LEMMA ReceiptsStep == TypeOK /\ ReceiptsOK /\ [Next]_vars => ReceiptsOK'
<1> SUFFICES ASSUME TypeOK, ReceiptsOK, [Next]_vars PROVE ReceiptsOK'
  OBVIOUS
<1>1. /\ \A x \in leases \cup deliveries : /\ 1 <= x.n /\ x.n <= receives[x.msg]
                                           /\ x.msg \in Messages /\ x.n \in Nat
      /\ \A d, e \in deliveries : IsLeaseOf(d, e) => d = e
      /\ \A m \in Messages : receives[m] \in Nat
  BY BrokersAssumption DEF ReceiptsOK, TypeOK, Lease, Delivery
<1>2. CASE UNCHANGED <<leases, deliveries, receives>>
  BY <1>2 DEF ReceiptsOK, IsLeaseOf
<1>3. CASE SendStep
  BY <1>2, <1>3, SendKeeps
<1>4. ASSUME NEW S \in SUBSET ready, Receive(S) \/ ReceiveBare(S) \/ ReceiveFails(S) PROVE ReceiptsOK'
  <2>1. GiveOut(S) /\ S \subseteq Messages
    BY <1>4 DEF Receive, ReceiveBare, ReceiveFails, TypeOK
  <2>2. /\ \A d \in deliveries' : d \in deliveries \/ (d.msg \in S /\ d.n = receives[d.msg] + 1)
        /\ \A d, e \in deliveries' \ deliveries : d.msg = e.msg => d = e
        /\ \A m \in Messages : receives'[m] >= receives[m]
        /\ \A m \in S : receives'[m] = receives[m] + 1
    BY <1>4, ReceiveEffect
  <2>3. \A m \in Messages : receives'[m] \in Nat
    BY <2>1, GiveOutType, BrokersAssumption
  <2>4. \A l \in leases' : l \in leases \/ (l.msg \in S /\ l.n = receives[l.msg] + 1)
    BY <2>1, GiveOutEffect
  <2>5. \A x \in leases' \cup deliveries' : 1 <= x.n /\ x.n <= receives'[x.msg]
    BY <1>1, <2>1, <2>2, <2>3, <2>4
  <2>6. ASSUME NEW d \in deliveries', NEW e \in deliveries', IsLeaseOf(d, e) PROVE d = e
    <3>1. ASSUME NEW a \in deliveries, NEW b \in deliveries' \ deliveries
          PROVE  ~IsLeaseOf(a, b) /\ ~IsLeaseOf(b, a)
      <4>1. a.msg \in Messages /\ a.n \in Nat /\ a.n <= receives[a.msg]
        BY <1>1
      <4>2. b.n = receives[b.msg] + 1
        BY <2>2
      <4>3. \A x, y \in Nat : x <= y => x # y + 1
        OBVIOUS
      <4> QED
        BY <1>1, <4>1, <4>2, <4>3 DEF IsLeaseOf
    <3>2. CASE d \in deliveries /\ e \in deliveries
      BY <1>1, <2>6, <3>2
    <3>3. CASE d \notin deliveries /\ e \notin deliveries
      BY <2>2, <2>6, <3>3 DEF IsLeaseOf
    <3> QED
      BY <2>6, <3>1, <3>2, <3>3
  <2> QED
    BY <2>5, <2>6 DEF ReceiptsOK, IsLeaseOf
<1>5. ASSUME NEW d \in deliveries, Handle(d) PROVE ReceiptsOK'
  <2>1. /\ \A l \in leases' : l \in leases \/ IsLeaseOf(l, d)
        /\ UNCHANGED receives
        /\ \/ deliveries' = deliveries \ {d}
           \/ \E e : IsLeaseOf(e, d) /\ deliveries' = (deliveries \ {d}) \cup {e}
    BY <1>5, HandleEffect
  <2>2. \A x \in leases' \cup deliveries' : 1 <= x.n /\ x.n <= receives'[x.msg]
    BY <1>1, <2>1 DEF IsLeaseOf
  <2>3. CASE deliveries' = deliveries \ {d}
    BY <1>1, <2>2, <2>3 DEF ReceiptsOK, IsLeaseOf
  <2>4. ASSUME NEW e, IsLeaseOf(e, d), deliveries' = (deliveries \ {d}) \cup {e}
        PROVE  ReceiptsOK'
    <3>1. \A x \in deliveries \ {d} : ~IsLeaseOf(x, e) /\ ~IsLeaseOf(e, x)
      BY <1>1, <2>4 DEF IsLeaseOf
    <3>2. \A x, y \in deliveries' : IsLeaseOf(x, y) => x = y
      BY <1>1, <2>4, <3>1
    <3> QED
      BY <2>2, <3>2 DEF ReceiptsOK, IsLeaseOf
  <2> QED
    BY <2>1, <2>3, <2>4
<1>6. CASE Tick
  <2>1. /\ \A l \in leases' : \E k \in leases : l.msg = k.msg /\ l.n = k.n
        /\ \A d \in deliveries' : \E e \in deliveries :
              d = [e EXCEPT !.asked = Less(@)] /\ d.msg = e.msg /\ d.n = e.n
    BY <1>6, TickEffect
  <2>2. UNCHANGED receives
    BY <1>6 DEF Tick
  <2>3. \A x \in leases' \cup deliveries' : 1 <= x.n /\ x.n <= receives'[x.msg]
    BY <1>1, <2>1, <2>2
  <2>4. ASSUME NEW d \in deliveries', NEW e \in deliveries', IsLeaseOf(d, e) PROVE d = e
    <3>1. PICK a \in deliveries : d = [a EXCEPT !.asked = Less(@)] /\ d.msg = a.msg /\ d.n = a.n
      BY <2>1
    <3>2. PICK b \in deliveries : e = [b EXCEPT !.asked = Less(@)] /\ e.msg = b.msg /\ e.n = b.n
      BY <2>1
    <3>3. a = b
      BY <1>1, <2>4, <3>1, <3>2 DEF IsLeaseOf
    <3> QED
      BY <3>1, <3>2, <3>3
  <2> QED
    BY <2>3, <2>4 DEF ReceiptsOK, IsLeaseOf
<1>7. ASSUME NEW l \in leases, LeaseEnds(l) PROVE ReceiptsOK'
  <2>1. leases' \subseteq leases /\ UNCHANGED <<deliveries, receives>>
    BY <1>7 DEF LeaseEnds
  <2> QED
    BY <1>1, <2>1 DEF ReceiptsOK, IsLeaseOf
<1>8. CASE CloseConsumer \/ \E w \in waiting : Due(w)
  BY <1>2, <1>8 DEF CloseConsumer, Due
<1>9. CASE UNCHANGED vars
  BY <1>2, <1>9, Stutter
<1> QED
  BY <1>3, <1>4, <1>5, <1>6, <1>7, <1>8, <1>9, StepKinds DEF ServiceStep

(* A Delivery is spent only where its backend, its channel or its receipt explains it. *)
LEMMA SpentStep == TypeOK /\ ReceiptsOK /\ SpentOK /\ [Next]_vars => SpentOK'
<1> DEFINE Explained(d) == /\ ~d.receipt => backend = "sqs"
                           /\ d.spent => backend = "rabbitmq" \/ closed \/ ~d.receipt
<1> SUFFICES ASSUME TypeOK, ReceiptsOK, SpentOK, [Next]_vars, NEW x \in deliveries'
             PROVE  /\ ~x.receipt => backend' = "sqs"
                    /\ x.spent => backend' = "rabbitmq" \/ closed' \/ ~x.receipt
  BY DEF SpentOK
<1>1. UNCHANGED backend /\ (closed => closed')
  <2>1. CASE SendStep
    BY <2>1 DEF SendStep, SendBatch, Refuse, Publish, PublishPartly, PublishFails, PublishToClosed,
                SendScheduled, SendScheduledFails, config
  <2>2. CASE \E d \in deliveries : Handle(d)
    BY <2>2, HandleEffect DEF config
  <2>3. CASE UNCHANGED vars
    BY <2>3 DEF vars, config
  <2> QED
    BY <2>1, <2>2, <2>3, StepKinds DEF ServiceStep, Due, Receive, ReceiveBare, ReceiveFails,
                                       LeaseEnds, CloseConsumer, Tick, config
<1>2. \A d \in deliveries : Explained(d)
  BY DEF SpentOK
<1>3. SUFFICES Explained(x)
  BY <1>1
<1>4. CASE x \in deliveries
  BY <1>2, <1>4
<1>5. ASSUME NEW S \in SUBSET ready, Receive(S) \/ ReceiveBare(S) \/ ReceiveFails(S)
      PROVE  Explained(x)
  BY <1>4, <1>5, ReceiveEffect
<1>6. ASSUME NEW d \in deliveries, Handle(d) PROVE Explained(x)
  <2>1. CASE Returned(d, x)
    BY <1>2, <2>1 DEF Returned
  <2> QED
    BY <1>4, <1>6, <2>1, HandleReturns
<1>7. CASE Tick
  BY <1>2, <1>7, TickEffect
<1>8. CASE UNCHANGED deliveries
  BY <1>4, <1>8
<1>9. SendStep => UNCHANGED deliveries
  BY SendKeeps
<1> HIDE DEF Explained
<1> QED
  BY <1>5, <1>6, <1>7, <1>8, <1>9, Stutter, StepKinds DEF ServiceStep, Due, LeaseEnds, CloseConsumer

-----------------------------------------------------------------------------
(* Time *)

(* A scheduled message may be early by at least one tick. *)
LEMMA EarlyByType ==
    TypeOK => EarlyBy \in Nat \ {0} /\ TicksPerSecond \in Nat \ {0}
BY BrokersAssumption DEF EarlyBy

\* A tick takes as much from what is asked as from what is granted.
LEMMA LessKeepsGap ==
    ASSUME NEW a \in Nat, NEW b \in Nat, NEW g \in Nat \ {0}, a < b + g
    PROVE  Less(a) < Less(b) + g
BY DEF Less

\* DelayTicks loses less than EarlyBy.
LEMMA DelayLost ==
    ASSUME TypeOK, NEW t \in Nat
    PROVE  t < DelayTicks(t) + EarlyBy
<1>1. t < WholeSeconds(t) + TicksPerSecond
  BY SecondsLost
<1>2. t < t + 1
  OBVIOUS
<1> QED
  BY <1>1, <1>2 DEF DelayTicks, EarlyBy

(* What is left of a delay is what is left of the time asked for, up to EarlyBy. *)
LEMMA DelaysStep ==
    TypeOK /\ SendsOK /\ ReceiptsOK /\ DelaysOK /\ NotPremature /\ [Next]_vars
        => DelaysOK' /\ NotPremature'
<1> SUFFICES ASSUME TypeOK, SendsOK, ReceiptsOK, DelaysOK, NotPremature, [Next]_vars
             PROVE  DelaysOK' /\ NotPremature'
  OBVIOUS
<1>1. /\ \A w \in waiting : w.msg \in Messages /\ w.left \in Nat /\ w.msg \in tried
      /\ \A w \in waiting : notBefore[w.msg] < w.left + EarlyBy
      /\ \A m \in ready \cup Leased : notBefore[m] < EarlyBy /\ m \in tried /\ m \in Messages
      /\ notBefore \in [Messages -> Nat]
      /\ EarlyBy \in Nat \ {0}
  <2>1. waiting \subseteq Waiting /\ ready \subseteq Messages /\ notBefore \in [Messages -> Nat]
    BY DEF TypeOK
  <2>2. \A l \in leases : l.msg \in tried /\ l.msg \in Messages
    BY DeliveryKnown
  <2>3. Delayed \cup ready \subseteq tried
    BY DEF SendsOK, Taken, Received
  <2> QED
    BY <2>1, <2>2, <2>3, EarlyByType DEF DelaysOK, NotPremature, Waiting, Delayed, Leased
<1>2. ASSUME UNCHANGED EarlyBy, UNCHANGED notBefore, waiting' \subseteq waiting,
             \A m \in ready' \cup Leased' : m \in ready \cup Leased \/ notBefore[m] < EarlyBy
      PROVE  DelaysOK' /\ NotPremature'
  BY <1>1, <1>2 DEF DelaysOK, NotPremature
<1>3. UNCHANGED backend => UNCHANGED EarlyBy
  BY DEF EarlyBy
<1>4. UNCHANGED leases => UNCHANGED Leased
  BY DEF Leased
<1>5. CASE SendStep
  <2>1. UNCHANGED <<EarlyBy, Leased>>
    BY <1>3, <1>5, SendKeeps DEF config
  <2>2. ASSUME NEW s \in Batches, SendBatch(s) PROVE DelaysOK' /\ NotPremature'
    BY <1>2, <2>1, <2>2, BatchEffect
  <2>3. CASE Refuse \/ PublishToClosed
    BY <1>2, <2>1, <2>3, EndEffect
  <2>4. CASE Publish \/ PublishPartly \/ PublishFails
    <3>1. /\ ready' \subseteq ready \cup Request /\ Request \subseteq calling
          /\ UNCHANGED <<waiting, notBefore>>
      BY <2>4, RequestEffect
    <3>2. \A m \in Request : notBefore[m] < EarlyBy
      BY <1>1, <3>1 DEF SendsOK
    <3> QED
      BY <1>2, <2>1, <3>1, <3>2
  <2>5. ASSUME NEW m \in Messages, NEW t \in Delays,
               SendScheduled(m, t) \/ SendScheduledFails(m, t)
        PROVE  DelaysOK' /\ NotPremature'
    <3>1. /\ m \notin tried /\ UNCHANGED ready /\ t \in Nat
          /\ Keep(m, t) \/ UNCHANGED <<waiting, notBefore>>
      BY <2>5, ScheduleEffect
    <3>2. CASE UNCHANGED <<waiting, notBefore>>
      BY <1>2, <2>1, <3>1, <3>2
    <3>3. CASE Keep(m, t)
      <4>1. PICK k : k = [msg |-> m, left |-> DelayTicks(t)]
        OBVIOUS
      <4>2. waiting' = waiting \cup {k} /\ notBefore' = [notBefore EXCEPT ![m] = t]
        BY <3>3, <4>1 DEF Keep
      <4>3. t < k.left + EarlyBy /\ k.msg = m
        BY <3>1, <4>1, DelayLost
      <4>4. \A x \in tried \cap Messages : notBefore'[x] = notBefore[x]
        BY <1>1, <3>1, <4>2
      <4>5. notBefore'[m] = t
        BY <1>1, <4>2
      <4>6. DelaysOK'
        BY <1>1, <2>1, <4>2, <4>3, <4>4, <4>5 DEF DelaysOK
      <4>7. NotPremature'
        BY <1>1, <2>1, <3>1, <4>4 DEF NotPremature
      <4> QED
        BY <4>6, <4>7
    <3> QED
      BY <3>1, <3>2, <3>3
  <2> QED
    BY <1>5, <2>2, <2>3, <2>4, <2>5 DEF SendStep
<1>6. ASSUME NEW w \in waiting, Due(w) PROVE DelaysOK' /\ NotPremature'
  <2>1. /\ w.left = 0 /\ waiting' \subseteq waiting /\ ready' \subseteq ready \cup {w.msg}
        /\ UNCHANGED <<notBefore, leases, backend>>
    BY <1>6 DEF Due, config
  <2>2. notBefore[w.msg] < EarlyBy
    BY <1>1, <2>1
  <2> QED
    BY <1>2, <1>3, <1>4, <2>1, <2>2
<1>7. ASSUME NEW S \in SUBSET ready, Receive(S) \/ ReceiveBare(S) \/ ReceiveFails(S)
      PROVE  DelaysOK' /\ NotPremature'
  <2>1. /\ ready' \subseteq ready /\ UNCHANGED <<waiting, notBefore, backend>>
    BY <1>7 DEF Receive, ReceiveBare, ReceiveFails, GiveOut, config, delayVars
  <2>2. Leased' = Leased \cup S
    BY <1>7, ReceiveEffect
  <2> QED
    BY <1>2, <1>3, <2>1, <2>2
<1>8. ASSUME NEW l \in leases, LeaseEnds(l) PROVE DelaysOK' /\ NotPremature'
  <2>1. /\ leases' \subseteq leases /\ ready' = ready \cup {l.msg}
        /\ UNCHANGED <<waiting, notBefore, backend>>
    BY <1>8 DEF LeaseEnds, config, delayVars
  <2>2. Leased' \subseteq Leased /\ l.msg \in Leased
    BY <2>1 DEF Leased
  <2> QED
    BY <1>2, <1>3, <2>1, <2>2
<1>9. CASE CloseConsumer
  BY <1>2, <1>3, <1>4, <1>9 DEF CloseConsumer, config, delayVars
<1>10. ASSUME NEW d \in deliveries, Handle(d) PROVE DelaysOK' /\ NotPremature'
  <2>1. UNCHANGED <<waiting, notBefore, backend>>
    BY <1>10, HandleEffect DEF config, delayVars
  <2>2. ready' \cup Leased' \subseteq ready \cup Leased
    BY <1>10, HandleLeases
  <2> QED
    BY <1>2, <1>3, <2>1, <2>2
<1>11. CASE Tick
  <2>1. /\ Leased' = Leased /\ UNCHANGED <<ready, EarlyBy>>
        /\ \A w \in waiting' : \E v \in waiting : w.msg = v.msg /\ w.left = Less(v.left)
    BY <1>3, <1>11, TickEffect DEF Tick, config
  <2>2. \A m \in Messages : notBefore'[m] = Less(notBefore[m]) /\ notBefore[m] \in Nat
    BY <1>1, <1>11 DEF Tick
  <2>3. ASSUME NEW w \in waiting' PROVE notBefore'[w.msg] < w.left + EarlyBy'
    <3>1. PICK v \in waiting : w.msg = v.msg /\ w.left = Less(v.left)
      BY <2>1
    <3>2. Less(notBefore[v.msg]) < Less(v.left) + EarlyBy
      BY <1>1, <2>2, LessKeepsGap
    <3> QED
      BY <1>1, <2>1, <2>2, <3>1, <3>2
  <2>4. ASSUME NEW m \in ready' \cup Leased' PROVE notBefore'[m] < EarlyBy'
    <3>1. m \in Messages /\ notBefore[m] \in Nat /\ notBefore[m] < EarlyBy
      BY <1>1, <2>1, <2>2
    <3>2. Less(notBefore[m]) < EarlyBy
      BY <1>1, <3>1 DEF Less
    <3> QED
      BY <2>1, <2>2, <3>1, <3>2
  <2> QED
    BY <2>3, <2>4 DEF DelaysOK, NotPremature
<1>12. CASE UNCHANGED vars
  BY <1>2, <1>3, <1>4, <1>12, Stutter
<1> QED
  BY <1>5, <1>6, <1>7, <1>8, <1>9, <1>10, <1>11, <1>12, StepKinds DEF ServiceStep

(* A lease keeps lasting as long as the deadline asked for, up to a second. *)
LEMMA DeadlinesStep == TypeOK /\ ReceiptsOK /\ DeadlinesOK /\ [Next]_vars => DeadlinesOK'
<1> SUFFICES ASSUME TypeOK, ReceiptsOK, DeadlinesOK, [Next]_vars,
                    NEW x \in deliveries', x.asked >= TicksPerSecond
             PROVE  \E l \in leases' : IsLeaseOf(l, x) /\ x.asked < l.left + TicksPerSecond
  BY DEF DeadlinesOK, IsLeaseOf
<1>1. /\ \A l \in leases : l.left \in Nat
      /\ \A d \in deliveries : d.asked \in Nat
      /\ TicksPerSecond \in Nat \ {0}
  BY BrokersAssumption DEF TypeOK, Lease, Delivery
<1>2. ASSUME NEW d \in deliveries, d.asked >= TicksPerSecond
      PROVE  \E l \in leases : IsLeaseOf(l, d) /\ d.asked < l.left + TicksPerSecond
  BY <1>2 DEF DeadlinesOK
<1>3. CASE leases \subseteq leases' /\ deliveries' \subseteq deliveries
  BY <1>2, <1>3
<1>4. CASE SendStep
  BY <1>3, <1>4, SendKeeps
<1>5. ASSUME NEW S \in SUBSET ready, Receive(S) \/ ReceiveBare(S) \/ ReceiveFails(S)
      PROVE  \E l \in leases' : IsLeaseOf(l, x) /\ x.asked < l.left + TicksPerSecond
  <2>1. leases \subseteq leases' /\ (x \in deliveries \/ x.asked = 0)
    BY <1>5, ReceiveEffect
  <2>2. x \in deliveries
    BY <1>1, <2>1
  <2> QED
    BY <1>2, <2>1, <2>2
<1>6. ASSUME NEW k \in leases, LeaseEnds(k)
      PROVE  \E l \in leases' : IsLeaseOf(l, x) /\ x.asked < l.left + TicksPerSecond
  <2>1. leases' = leases \ {k} /\ k.left = 0 /\ x \in deliveries
    BY <1>6 DEF LeaseEnds
  <2>2. PICK l \in leases : IsLeaseOf(l, x) /\ x.asked < l.left + TicksPerSecond
    BY <1>2, <2>1
  <2>3. x.asked \in Nat
    BY <1>1, <2>1
  <2>4. l.left # 0
    BY <1>1, <2>2, <2>3
  <2> QED
    BY <2>1, <2>2, <2>4
<1>7. ASSUME NEW d \in deliveries, Handle(d)
      PROVE  \E l \in leases' : IsLeaseOf(l, x) /\ x.asked < l.left + TicksPerSecond
  <2>1. CASE x \in deliveries /\ x # d
    <3>1. PICK l \in leases : IsLeaseOf(l, x) /\ x.asked < l.left + TicksPerSecond
      BY <1>2, <2>1
    <3>2. ~IsLeaseOf(x, d)
      BY <2>1 DEF ReceiptsOK
    <3>3. ~IsLeaseOf(l, d)
      BY <3>1, <3>2 DEF IsLeaseOf
    <3> QED
      BY <1>7, <3>1, <3>3, HandleLeases
  <2>2. CASE Returned(d, x)
    <3>1. x.asked # 0
      BY <1>1
    <3>2. PICK l \in leases' : IsLeaseOf(l, d) /\ l.left = WholeSeconds(x.asked)
      BY <2>2, <3>1 DEF Returned
    <3>3. x.asked \in Nat
      BY <2>2, <3>1 DEF Returned
    <3>4. x.asked < l.left + TicksPerSecond
      BY <3>2, <3>3, SecondsLost
    <3> QED
      BY <2>2, <3>2, <3>4 DEF Returned, IsLeaseOf
  <2> QED
    BY <1>7, <2>1, <2>2, HandleReturns
<1>8. CASE Tick
  <2>1. PICK e \in deliveries : x.msg = e.msg /\ x.n = e.n /\ x.asked = Less(e.asked)
    BY <1>8, TickEffect
  <2>2. e.asked >= TicksPerSecond
    BY <1>1, <2>1 DEF Less
  <2>3. PICK k \in leases : IsLeaseOf(k, e) /\ e.asked < k.left + TicksPerSecond
    BY <1>2, <2>2
  <2>4. PICK l \in leases' : l.msg = k.msg /\ l.n = k.n /\ l.left = Less(k.left)
    BY <1>8, TickEffect
  <2>5. x.asked < l.left + TicksPerSecond
    BY <1>1, <2>1, <2>3, <2>4, LessKeepsGap
  <2> QED
    BY <2>1, <2>3, <2>4, <2>5 DEF IsLeaseOf
<1>9. CASE CloseConsumer \/ \E w \in waiting : Due(w)
  BY <1>3, <1>9 DEF CloseConsumer, Due
<1>10. CASE UNCHANGED vars
  BY <1>3, <1>10, Stutter
<1> QED
  BY <1>4, <1>5, <1>6, <1>7, <1>8, <1>9, <1>10, StepKinds DEF ServiceStep

-----------------------------------------------------------------------------
(* The theorems *)

(* The invariant holds after construction. *)
LEMMA BrokersInit == Init => BrokersInv
<1> SUFFICES ASSUME Init PROVE BrokersInv
  OBVIOUS
<1>1. TypeOK
  BY TypeInit
<1>2. Unsubmitted = {} /\ Delayed = {} /\ Leased = {} /\ Taken = {}
  BY DEF Init, Unsubmitted, Delayed, Leased, Taken, Received
<1>3. SendsOK /\ SubmittedOK
  BY <1>2 DEF Init, SendsOK, SubmittedOK, Received
<1>4. ReceiptsOK /\ SpentOK /\ DelaysOK /\ DeadlinesOK
  BY DEF Init, ReceiptsOK, SpentOK, DelaysOK, DeadlinesOK
<1>5. RefusalsOK /\ RefusedWhole /\ NotPremature
  BY <1>2 DEF Init, RefusalsOK, RefusedWhole, NotPremature
<1> QED
  BY <1>1, <1>3, <1>4, <1>5 DEF BrokersInv

\* BrokersInv is inductive: what callers, Ackers and the service know of each message
\* fits together after every step of producer, consumer, service and clock.
THEOREM BrokersInvariant == Spec => []BrokersInv
<1>1. BrokersInv /\ [Next]_vars => BrokersInv'
  BY TypeStep, SendsStep, ReceiptsStep, SubmittedStep, SpentStep, RefusalsStep, DelaysStep,
     DeadlinesStep DEF BrokersInv
<1> QED
  BY <1>1, BrokersInit, PTL DEF Spec

\* With every backend, a message that send returned Ok for and the service took, and
\* a message that was ever received, is acked or rejected for good, or can still be
\* received.
THEOREM NoMessageLost == Spec => []NoLoss
<1>1. BrokersInv => NoLoss
  BY DEF BrokersInv, SubmittedOK, Placed, NoLoss
<1> QED
  BY <1>1, BrokersInvariant, PTL

\* The Delivery that comes back with the error of a failed ack or nack can be tried
\* again, unless the acker of rabbitmq was taken, the channel in memory has lost its
\* receiver or sqs gave no receipt handle; and then its message is settled, can be
\* received again or went with the channel.
THEOREM FailedCallsRetryable == Spec => []Retryable
<1>1. BrokersInv => Retryable
  <2> SUFFICES ASSUME BrokersInv, NEW d \in deliveries, d.spent
               PROVE  (backend = "rabbitmq" \/ closed \/ ~d.receipt) /\ d.msg \in Placed
    BY DEF Retryable
  <2>1. d.msg \in Messages /\ receives[d.msg] > 0
    BY DeliveryKnown DEF BrokersInv
  <2>2. d.msg \in Placed
    BY <2>1 DEF BrokersInv, SubmittedOK, Received
  <2> QED
    BY <2>2 DEF BrokersInv, SpentOK
<1> QED
  BY <1>1, BrokersInvariant, PTL

\* send_batch_inner of sqs and send_raw_batch of azure refuse a batch before they
\* submit any of it, whatever the sizes of batch and chunk.
THEOREM RefusedBatchesWhole == Spec => []RefusedWhole
<1>1. BrokersInv => RefusedWhole
  BY DEF BrokersInv
<1> QED
  BY <1>1, BrokersInvariant, PTL

\* send_raw_scheduled delays every message by its duration, up to the part of a
\* second that as_secs() drops.
THEOREM ScheduledNotPremature == Spec => []NotPremature
<1>1. BrokersInv => NotPremature
  BY DEF BrokersInv
<1> QED
  BY <1>1, BrokersInvariant, PTL

\* set_ack_deadline keeps the lease to the last whole second of the duration.
THEOREM DeadlineHonoured == Spec => []DeadlineKept
<1>1. BrokersInv => DeadlineKept
  BY DEF BrokersInv, DeadlinesOK, DeadlineKept, Valid
<1> QED
  BY <1>1, BrokersInvariant, PTL

-----------------------------------------------------------------------------
(* The backends are at-least-once queues *)

Promised == sent \ swallowed
Held     == Delayed \cup ready \cup Leased \cup gone
Dead     == discarded \cup dropped

(* What the service holds are messages. *)
LEMMA HeldType == TypeOK => Held \subseteq Messages
BY DEF TypeOK, Held, Delayed, Leased, Waiting, Lease

\* The steps of producers add to what is held, and to what is promised only what the
\* service answered for.
LEMMA SendImplements ==
    ASSUME BrokersInv, BrokersInv', SendStep
    PROVE  Abstract!Send
<1>1. /\ TypeOK /\ SendsOK /\ ReceiptsOK /\ TypeOK'
      /\ sent' \subseteq Placed' \cup swallowed' /\ sent \subseteq tried /\ calling \cap sent = {}
  BY DEF BrokersInv, SubmittedOK, SendsOK, TypeOK
<1>2. UNCHANGED <<receives, Leased, acked, discarded, dropped, gone>>
  BY DEF SendStep, SendBatch, Refuse, Publish, PublishPartly, PublishFails, PublishToClosed,
         SendScheduled, SendScheduledFails, Leased, historyVars
<1>3. /\ Delayed \subseteq Delayed' /\ ready \subseteq ready'
      /\ sent \subseteq sent' /\ sent \cap (swallowed' \ swallowed) = {}
  <2>1. UNCHANGED waiting => UNCHANGED Delayed
    BY DEF Delayed
  <2>2. ASSUME batch # <<>>, Advance PROVE sent \subseteq sent'
    BY <1>1, <2>2, AdvanceEffect
  <2>3. ASSUME batch # <<>> PROVE Request \cap sent = {}
    BY <1>1, <2>3, RequestPlaces DEF SendsOK
  <2>4. CASE Publish \/ PublishPartly \/ PublishFails
    BY <2>1, <2>2, <2>3, <2>4 DEF Publish, PublishPartly, PublishFails, delayVars
  <2>5. ASSUME NEW m \in Messages, NEW t \in Delays,
               SendScheduled(m, t) \/ SendScheduledFails(m, t)
        PROVE  /\ Delayed \subseteq Delayed' /\ ready \subseteq ready'
               /\ sent \subseteq sent' /\ sent \cap (swallowed' \ swallowed) = {}
    <3>1. m \notin tried /\ UNCHANGED ready /\ sent \subseteq sent' /\ t \in Nat
          /\ (Keep(m, t) \/ UNCHANGED waiting)
      BY <1>1, <2>5, ScheduleEffect
    <3>2. swallowed' \subseteq swallowed \cup {m}
      BY <2>5 DEF SendScheduled, SendScheduledFails
    <3>3. Delayed \subseteq Delayed'
      BY <1>1, <2>1, <3>1, KeepType
    <3> QED
      BY <1>1, <3>1, <3>2, <3>3
  <2>6. CASE Refuse \/ PublishToClosed \/ \E s \in Batches : SendBatch(s)
    BY <2>1, <2>6 DEF Refuse, PublishToClosed, SendBatch, delayVars
  <2> QED
    BY <2>4, <2>5, <2>6 DEF SendStep
<1>4. Held \subseteq Held' /\ Promised \subseteq Promised'
  BY <1>2, <1>3 DEF Held, Promised
<1>5. Promised' \subseteq Promised \cup Held' \cup acked \cup Dead
  BY <1>1, <1>2 DEF Promised, Placed, Held, Dead
<1>6. Held' \in SUBSET Messages
  BY <1>1, HeldType DEF Held, Delayed, Leased, TypeOK, Waiting, Lease
<1>7. UNCHANGED <<receives, acked, Dead>>
  BY <1>2 DEF Dead
<1> QED
  BY <1>4, <1>5, <1>6, <1>7 DEF Abstract!Send, Held, Promised, Dead

\* What a call of an Acker does to the message of its Delivery: it is deleted, given
\* up, or stays held.
LEMMA HandleHeld ==
    ASSUME TypeOK, NEW d \in deliveries, Handle(d)
    PROVE  /\ Held \subseteq Held' \cup {d.msg} /\ Held' \subseteq Held \cup {d.msg}
           /\ \/ /\ acked' = acked \cup {d.msg} /\ UNCHANGED Dead /\ Held' \subseteq Held
              \/ /\ Dead' = Dead \cup {d.msg} /\ UNCHANGED acked /\ Held' \subseteq Held
              \/ UNCHANGED <<acked, Dead>> /\ Held \subseteq Held'
<1> USE DEF historyVars
<1>1. UNCHANGED Delayed
  <2>1. UNCHANGED waiting
    BY HandleEffect DEF delayVars
  <2> QED
    BY <2>1 DEF Delayed
<1>2. ready' \cup Leased' \subseteq ready \cup Leased
  BY HandleLeases
<1>3. UNCHANGED leases => UNCHANGED Leased
  BY DEF Leased
<1>4. leases' = LeasesBut(d) => Leased \subseteq Leased' \cup {d.msg}
  BY LeasesButEffect
<1>5. leases' = LeasesBut(d) /\ ~Valid(d) => UNCHANGED leases
  BY DEF LeasesBut, Valid
<1> DEFINE Goal ==
      /\ Held \subseteq Held' \cup {d.msg} /\ Held' \subseteq Held \cup {d.msg}
      /\ \/ /\ acked' = acked \cup {d.msg} /\ UNCHANGED Dead /\ Held' \subseteq Held
         \/ /\ Dead' = Dead \cup {d.msg} /\ UNCHANGED acked /\ Held' \subseteq Held
         \/ UNCHANGED <<acked, Dead>> /\ Held \subseteq Held'
<1>6. ASSUME Delete(d), UNCHANGED <<discarded, dropped, gone>> PROVE Goal
  BY <1>1, <1>2, <1>3, <1>4, <1>6 DEF Delete, Held, Dead
<1>7. ASSUME UNCHANGED <<ready, Leased, acked, discarded, dropped, gone>> PROVE Goal
  BY <1>1, <1>7 DEF Held, Dead
<1>8. CASE Ack(d)
  BY <1>6, <1>8 DEF Ack
<1>9. CASE AckTooLate(d) \/ AckRefused(d) \/ AckBare(d)
  BY <1>3, <1>7, <1>9 DEF AckTooLate, AckRefused, AckBare
<1>10. CASE AckFails(d)
  BY <1>3, <1>6, <1>7, <1>10 DEF AckFails
\* A nack the service heard of.
<1>11. ASSUME leases' = LeasesBut(d), Valid(d), NackEffect # "nothing", Discards(d),
              ready' = IF NackEffect = "released" THEN ready \cup {d.msg} ELSE ready,
              UNCHANGED <<acked, dropped, gone>>
       PROVE  Goal
  <2>1. CASE NackEffect = "released"
    BY <1>1, <1>2, <1>4, <1>11, <2>1 DEF Discards, Held, Dead
  <2>2. CASE NackEffect = "discarded"
    BY <1>1, <1>2, <1>4, <1>11, <2>2 DEF Discards, Held, Dead
  <2>3. NackEffect \in {"released", "discarded", "nothing"}
    BY DEF NackEffect
  <2> QED
    BY <1>11, <2>1, <2>2, <2>3
<1>12. CASE Nack(d)
  <2>1. CASE NackEffect = "nothing"
    <3>1. backend # "in_memory"
      BY <2>1 DEF NackEffect
    <3> QED
      BY <1>3, <1>7, <1>12, <2>1, <3>1 DEF Nack, Discards
  <2>2. CASE NackEffect # "nothing" /\ Valid(d)
    BY <1>11, <1>12, <2>2 DEF Nack
  <2>3. CASE NackEffect # "nothing" /\ ~Valid(d)
    <3>1. NackEffect # "discarded"
      BY <1>12, <2>3 DEF Nack, NackEffect
    <3> QED
      BY <1>3, <1>5, <1>7, <1>12, <2>3, <3>1 DEF Nack, Discards
  <2> QED
    BY <2>1, <2>2, <2>3
<1>13. CASE NackFails(d)
  BY <1>3, <1>7, <1>11, <1>13 DEF NackFails
<1>14. CASE NackToClosed(d)
  <2>1. /\ leases' = LeasesBut(d) /\ gone' = gone \cup {d.msg}
        /\ UNCHANGED <<ready, acked, discarded, dropped>>
    BY <1>14 DEF NackToClosed
  <2> QED
    BY <1>1, <1>2, <1>4, <2>1 DEF Held, Dead
<1>15. CASE Drop(d)
  <2>1. CASE UNCHANGED <<leases, dropped>>
    BY <1>3, <1>7, <1>15, <2>1 DEF Drop
  <2>2. CASE leases' = LeasesBut(d) /\ dropped' = dropped \cup {d.msg}
    <3>1. UNCHANGED <<ready, acked, discarded, gone>>
      BY <1>15 DEF Drop
    <3> QED
      BY <1>1, <1>2, <1>4, <2>2, <3>1 DEF Held, Dead
  <2> QED
    BY <1>15, <2>1, <2>2 DEF Drop
<1>16. ASSUME NEW t \in Deadlines, SetAckDeadline(d, t) \/ SetAckDeadlineFails(d, t) PROVE Goal
  BY <1>3, <1>7, <1>16, Relets DEF SetAckDeadline, SetAckDeadlineFails
<1> QED
  BY <1>8, <1>9, <1>10, <1>12, <1>13, <1>14, <1>15, <1>16 DEF Handle

(* Every step of a backend is a step of the at-least-once queue or a stutter. *)
LEMMA StepImplements ==
    BrokersInv /\ BrokersInv' /\ [Next]_vars => [Abstract!Next]_(Abstract!vars)
<1> SUFFICES ASSUME BrokersInv, BrokersInv', [Next]_vars
             PROVE  Abstract!Next \/ UNCHANGED <<Promised, Held, receives, acked, Dead>>
  BY DEF Abstract!vars, Promised, Held, Dead
<1>1. TypeOK /\ SendsOK /\ ReceiptsOK /\ TypeOK'
  BY DEF BrokersInv
<1>2. receives \in [Messages -> Nat] /\ receives' \in [Messages -> Nat]
  <2>1. \A f \in [Messages -> 0..MaxLeases] : f \in [Messages -> Nat]
    BY BrokersAssumption
  <2> QED
    BY <1>1, <2>1 DEF TypeOK
<1>3. CASE SendStep
  BY <1>3, SendImplements DEF Abstract!Next
<1>4. ASSUME ServiceStep PROVE UNCHANGED Promised
  BY <1>1, <1>4, ServiceEffect DEF sendVars, Promised
<1>5. UNCHANGED waiting => UNCHANGED Delayed
  BY DEF Delayed
<1>6. UNCHANGED leases => UNCHANGED Leased
  BY DEF Leased
<1>7. ASSUME NEW w \in waiting, Due(w)
      PROVE  UNCHANGED <<Promised, Held, receives, acked, Dead>>
  <2>1. /\ waiting' = waiting \ {w}
        /\ \/ gone' = gone \cup {w.msg} /\ UNCHANGED ready
           \/ ready' = ready \cup {w.msg} /\ UNCHANGED gone
        /\ UNCHANGED <<leases, receives, acked, discarded, dropped>>
    BY <1>7 DEF Due
  <2>2. Delayed = Delayed' \cup {w.msg}
    BY <2>1 DEF Delayed
  <2> QED
    BY <1>4, <1>6, <1>7, <2>1, <2>2 DEF Held, Dead, ServiceStep
<1>8. ASSUME NEW S \in SUBSET ready, Receive(S) \/ ReceiveBare(S) \/ ReceiveFails(S)
      PROVE  Abstract!HandOut
  <2>1. /\ ready' = ready \ S
        /\ UNCHANGED <<waiting, acked, discarded, dropped, gone>>
    BY <1>8 DEF Receive, ReceiveBare, ReceiveFails, GiveOut, delayVars, historyVars
  <2>2. /\ Leased' = Leased \cup S
        /\ \A m \in Messages : receives'[m] >= receives[m]
    BY <1>1, <1>8, ReceiveEffect
  <2>3. GiveOut(S)
    BY <1>8 DEF Receive, ReceiveBare, ReceiveFails
  <2>4. \A m \in Messages \ S : receives'[m] = receives[m]
    BY <1>1, <2>3, GiveOutEffect
  <2>5. Held' = Held /\ S \subseteq Held /\ Dead' = Dead
    BY <1>5, <2>1, <2>2 DEF Held, Dead
  <2>6. UNCHANGED Promised
    BY <1>4, <1>8 DEF ServiceStep
  <2>7. \A m \in Messages \ Held : receives'[m] = receives[m]
    BY <2>4, <2>5
  <2> QED
    BY <1>2, <2>1, <2>2, <2>5, <2>6, <2>7 DEF Abstract!HandOut, Held, Dead, Promised
<1>9. ASSUME NEW l \in leases, LeaseEnds(l)
      PROVE  UNCHANGED <<Promised, Held, receives, acked, Dead>>
  <2>1. /\ leases' = leases \ {l} /\ ready' = ready \cup {l.msg}
        /\ UNCHANGED <<waiting, receives, acked, discarded, dropped, gone>>
    BY <1>9 DEF LeaseEnds, delayVars, historyVars
  <2>2. Leased = Leased' \cup {l.msg}
    BY <2>1 DEF Leased
  <2> QED
    BY <1>4, <1>5, <1>9, <2>1, <2>2 DEF Held, Dead, ServiceStep
<1>10. CASE CloseConsumer
  BY <1>4, <1>5, <1>6, <1>10 DEF CloseConsumer, Held, Dead, ServiceStep, delayVars
<1>11. CASE Tick
  <2>1. Leased' = Leased /\ Delayed' = Delayed
    BY <1>1, <1>11, TickEffect
  <2> QED
    BY <1>4, <1>11, <2>1 DEF Tick, Held, Dead, ServiceStep, historyVars
<1>12. ASSUME NEW d \in deliveries, Handle(d)
       PROVE  \/ \E m \in Messages : Abstract!Ack(m) \/ Abstract!GiveUp(m) \/ Abstract!Requeue(m)
              \/ UNCHANGED <<Promised, Held, receives, acked, Dead>>
  <2>1. PICK m : m = d.msg
    OBVIOUS
  <2>2. m \in Messages /\ receives[m] > 0 /\ receives[m] \in Nat
    BY <1>1, <2>1, DeliveryKnown
  <2>3. receives[m] >= 1
    BY <2>2
  <2>4. UNCHANGED <<Promised, receives>>
    BY <1>1, <1>4, <1>12, HandleEffect DEF ServiceStep
  <2>5. /\ Held \subseteq Held' \cup {m} /\ Held' \subseteq Held \cup {m}
        /\ \/ /\ acked' = acked \cup {m} /\ UNCHANGED Dead /\ Held' \subseteq Held
           \/ /\ Dead' = Dead \cup {m} /\ UNCHANGED acked /\ Held' \subseteq Held
           \/ UNCHANGED <<acked, Dead>> /\ Held \subseteq Held'
    BY <1>1, <1>12, <2>1, HandleHeld
  <2>6. CASE acked' = acked \cup {m} /\ UNCHANGED Dead /\ Held' \subseteq Held
    <3>1. Held' \in {Held, Held \ {m}}
      BY <2>5, <2>6
    <3>2. Abstract!Ack(m)
      BY <2>2, <2>4, <2>6, <3>1 DEF Abstract!Ack, Held, Dead, Promised
    <3> QED
      BY <2>2, <3>2
  <2>7. CASE Dead' = Dead \cup {m} /\ UNCHANGED acked /\ Held' \subseteq Held
    <3>1. Held' \in {Held, Held \ {m}}
      BY <2>5, <2>7
    <3>2. Abstract!GiveUp(m)
      BY <2>2, <2>3, <2>4, <2>7, <3>1 DEF Abstract!GiveUp, Held, Dead, Promised
    <3> QED
      BY <2>2, <3>2
  <2>8. CASE UNCHANGED <<acked, Dead>> /\ Held' = Held \cup {m}
    <3>1. Abstract!Requeue(m)
      BY <2>2, <2>4, <2>8 DEF Abstract!Requeue, Held, Dead, Promised
    <3> QED
      BY <2>2, <3>1
  <2>9. CASE UNCHANGED <<acked, Dead, Held>>
    BY <2>4, <2>9
  <2> QED
    BY <2>5, <2>6, <2>7, <2>8, <2>9
<1>13. CASE UNCHANGED vars
  BY <1>5, <1>6, <1>13, Stutter DEF Promised, Held, Dead
<1> QED
  BY <1>3, <1>7, <1>8, <1>9, <1>10, <1>11, <1>12, <1>13, StepKinds DEF ServiceStep, Abstract!Next

\* Each of the five backends is an at-least-once queue: every step of a producer, a
\* consumer, an Acker, the service or the clock is a step of AtLeastOnceQueue, or
\* changes nothing a caller can be told of.
THEOREM BackendsImplementQueue == Spec => Implements
<1>1. Init => Abstract!Init
  BY DEF Init, Abstract!Init, Delayed, Leased
<1> QED
  BY <1>1, StepImplements, BrokersInvariant, PTL DEF Spec, Implements, Abstract!Spec

=============================================================================
