----------------------- MODULE AtLeastOnceQueueProofs -----------------------
(***************************************************************************)
(* What the abstract queue guarantees, and with it every module that is    *)
(* shown to implement it.                                                  *)
(***************************************************************************)
EXTENDS AtLeastOnceQueue, TLAPS

\* Holds of AtLeastOnceQueue: its variables keep their types.
LEMMA TypeStep == TypeOK /\ [Next]_vars => TypeOK'
<1> SUFFICES ASSUME TypeOK, [Next]_vars PROVE TypeOK'
  OBVIOUS
<1> USE DEF TypeOK
<1>1. CASE Send
  BY <1>1 DEF Send
<1>2. CASE HandOut
  BY <1>2 DEF HandOut
<1>3. CASE Forget
  BY <1>3 DEF Forget
<1>4. ASSUME NEW m \in Messages, Ack(m) PROVE TypeOK'
  BY <1>4 DEF Ack
<1>5. ASSUME NEW m \in Messages, GiveUp(m) PROVE TypeOK'
  BY <1>5 DEF GiveUp
<1>6. ASSUME NEW m \in Messages, Requeue(m) PROVE TypeOK'
  BY <1>6 DEF Requeue
<1>7. CASE UNCHANGED vars
  BY <1>7 DEF vars
<1> QED
  BY <1>1, <1>2, <1>3, <1>4, <1>5, <1>6, <1>7 DEF Next

(* Every reachable state of the queue is well typed. *)
LEMMA TypeCorrect == Spec => []TypeOK
<1>1. Init => TypeOK
  BY DEF Init, TypeOK
<1> QED
  BY <1>1, TypeStep, PTL DEF Spec

\* At least once: a message whose send returned Ok is with the queue until it was
\* acked or given up, whatever is received, requeued or forgotten meanwhile.
THEOREM PromisesKept == Spec => []NothingLost
<1>1. Init => NothingLost
  BY DEF Init, NothingLost
<1>2. NothingLost /\ [Next]_vars => NothingLost'
  <2> SUFFICES ASSUME NothingLost, [Next]_vars PROVE NothingLost'
    OBVIOUS
  <2> USE DEF NothingLost
  <2>1. CASE Send
    BY <2>1 DEF Send
  <2>2. CASE HandOut
    BY <2>2 DEF HandOut
  <2>3. CASE Forget
    BY <2>3 DEF Forget
  <2>4. ASSUME NEW m \in Messages, Ack(m) PROVE NothingLost'
    BY <2>4 DEF Ack
  <2>5. ASSUME NEW m \in Messages, GiveUp(m) PROVE NothingLost'
    BY <2>5 DEF GiveUp
  <2>6. ASSUME NEW m \in Messages, Requeue(m) PROVE NothingLost'
    BY <2>6 DEF Requeue
  <2>7. CASE UNCHANGED vars
    BY <2>7 DEF vars
  <2> QED
    BY <2>1, <2>2, <2>3, <2>4, <2>5, <2>6, <2>7 DEF Next
<1> QED
  BY <1>1, <1>2, PTL DEF Spec

\* Only messages that were received are acked, and only those that were received
\* often enough are given up: receives never decrease.
THEOREM SettledAfterReceive == GiveUpAfter \in Nat => (Spec => []ReceivedFirst)
<1> SUFFICES ASSUME GiveUpAfter \in Nat PROVE Spec => []ReceivedFirst
  OBVIOUS
<1>1. Init => ReceivedFirst
  BY DEF Init, ReceivedFirst
<1>2. TypeOK /\ ReceivedFirst /\ [Next]_vars => ReceivedFirst'
  <2> SUFFICES ASSUME TypeOK, ReceivedFirst, [Next]_vars PROVE ReceivedFirst'
    OBVIOUS
  <2> USE DEF TypeOK, ReceivedFirst
  <2>1. CASE Send
    BY <2>1 DEF Send
  <2>2. CASE HandOut
    BY <2>2 DEF HandOut
  <2>3. CASE Forget
    BY <2>3 DEF Forget
  <2>4. ASSUME NEW m \in Messages, Ack(m) PROVE ReceivedFirst'
    BY <2>4 DEF Ack
  <2>5. ASSUME NEW m \in Messages, GiveUp(m) PROVE ReceivedFirst'
    BY <2>5 DEF GiveUp
  <2>6. ASSUME NEW m \in Messages, Requeue(m) PROVE ReceivedFirst'
    BY <2>6 DEF Requeue
  <2>7. CASE UNCHANGED vars
    BY <2>7 DEF vars
  <2> QED
    BY <2>1, <2>2, <2>3, <2>4, <2>5, <2>6, <2>7 DEF Next
<1> QED
  BY <1>1, <1>2, TypeCorrect, PTL DEF Spec

=============================================================================
