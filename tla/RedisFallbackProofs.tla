------------------------- MODULE RedisFallbackProofs -------------------------
(***************************************************************************)
(* The safety properties of the main queue on lists, for any number of     *)
(* keys, payloads, consumers, background tasks and faults.                 *)
(***************************************************************************)
EXTENDS RedisFallback, ListLemmas

-----------------------------------------------------------------------------
(* Lists of keys *)

IdsDistinct(l) == \A i, j \in 1..Len(l) : l[i].id = l[j].id => i = j

\* A key with a new id may be pushed at either end.
LEMMA DistinctAfterCons ==
    ASSUME NEW l \in Seq(Key), NEW k \in Key, IdsDistinct(l),
           \A f \in ToSet(l) : f.id # k.id, NEW t, t = <<k>> \o l
    PROVE  IdsDistinct(t)
<1>1. /\ Len(l) \in Nat
      /\ Len(t) = Len(l) + 1
      /\ t[1] = k
      /\ \A i \in 2..Len(l) + 1 : i - 1 \in 1..Len(l) /\ t[i] = l[i - 1]
  BY ConsPlaces, Places
<1>2. \A i \in 1..Len(l) : l[i].id # k.id
  BY Members
<1>3. SUFFICES ASSUME NEW i \in 1..Len(t), NEW j \in 1..Len(t), t[i].id = t[j].id
               PROVE  i = j
  BY DEF IdsDistinct
<1>4. i = 1 \/ i \in 2..Len(l) + 1
  BY <1>1
<1>5. j = 1 \/ j \in 2..Len(l) + 1
  BY <1>1
<1>6. CASE i = 1 /\ j = 1
  BY <1>6
<1>7. CASE i = 1 /\ j \in 2..Len(l) + 1
  BY <1>1, <1>2, <1>3, <1>7
<1>8. CASE j = 1 /\ i \in 2..Len(l) + 1
  BY <1>1, <1>2, <1>3, <1>8
<1>9. CASE i \in 2..Len(l) + 1 /\ j \in 2..Len(l) + 1
  <2>1. i - 1 \in 1..Len(l) /\ j - 1 \in 1..Len(l) /\ t[i] = l[i - 1] /\ t[j] = l[j - 1]
    BY <1>1, <1>9
  <2>2. i - 1 = j - 1
    BY <1>3, <2>1 DEF IdsDistinct
  <2> QED
    BY <2>2
<1> QED
  BY <1>4, <1>5, <1>6, <1>7, <1>8, <1>9

(* A key with a fresh identifier keeps the identifiers of a list distinct (RPUSH). *)
LEMMA DistinctAfterAppend ==
    ASSUME NEW l \in Seq(Key), NEW k \in Key, IdsDistinct(l),
           \A f \in ToSet(l) : f.id # k.id, NEW t, t = Append(l, k)
    PROVE  IdsDistinct(t)
<1>1. /\ Len(l) \in Nat
      /\ Len(t) = Len(l) + 1
      /\ t[Len(l) + 1] = k
      /\ \A i \in 1..Len(l) : t[i] = l[i]
  BY AppendPlaces, Places
<1>2. \A i \in 1..Len(l) : l[i].id # k.id
  BY Members
<1>3. SUFFICES ASSUME NEW i \in 1..Len(t), NEW j \in 1..Len(t), t[i].id = t[j].id
               PROVE  i = j
  BY DEF IdsDistinct
<1>4. i \in 1..Len(l) \/ i = Len(l) + 1
  BY <1>1
<1>5. j \in 1..Len(l) \/ j = Len(l) + 1
  BY <1>1
<1> QED
  BY <1>1, <1>2, <1>3, <1>4, <1>5 DEF IdsDistinct

\* The key that BRPOPLPUSH takes leaves the others, and none of them has its id.
LEMMA DistinctAfterFront ==
    ASSUME NEW l \in Seq(Key), l # <<>>, IdsDistinct(l), NEW t, t = Front(l)
    PROVE  /\ IdsDistinct(t)
           /\ \A f \in ToSet(t) : f.id # Last(l).id
<1>1. /\ t \in Seq(Key)
      /\ Len(l) \in Nat \ {0}
      /\ Len(t) = Len(l) - 1
      /\ \A i \in 1..Len(t) : t[i] = l[i]
      /\ Last(l) = l[Len(l)]
  BY FrontPlaces
<1>2. \A i \in 1..Len(t) : i \in 1..Len(l) /\ i # Len(l)
  BY <1>1
<1>3. Len(l) \in 1..Len(l)
  BY <1>1
<1>4. IdsDistinct(t)
  BY <1>1, <1>2 DEF IdsDistinct
<1>5. ASSUME NEW f \in ToSet(t) PROVE f.id # Last(l).id
  <2>1. PICK i \in 1..Len(t) : t[i] = f
    BY <1>1, Members
  <2> QED
    BY <1>1, <1>2, <1>3, <2>1 DEF IdsDistinct
<1> QED
  BY <1>4, <1>5

(* LREM keeps the identifiers of a list distinct. *)
LEMMA DistinctAfterRemove ==
    ASSUME NEW l \in Seq(Key), IdsDistinct(l), NEW k, NEW t, t = RemoveFirst(l, k)
    PROVE  IdsDistinct(t)
<1>1. CASE k \notin ToSet(l)
  BY <1>1, RemoveAbsent
<1>2. CASE k \in ToSet(l)
  <2>1. /\ Len(l) \in Nat \ {0}
        /\ Len(t) = Len(l) - 1
    BY <1>2, RemovePlaces
  <2>a. PICK m \in 1..Len(l) : RemovedAt(l, m, k, t)
    BY <1>2, RemovePlaces
  <2>2. \A i \in 1..Len(t) : t[i] = IF i < m THEN l[i] ELSE l[i + 1]
    BY <2>a DEF RemovedAt
  <2>3. SUFFICES ASSUME NEW i \in 1..Len(t), NEW j \in 1..Len(t), t[i].id = t[j].id
                 PROVE  i = j
    BY DEF IdsDistinct
  <2>4. i \in 1..Len(l) /\ i + 1 \in 1..Len(l) /\ j \in 1..Len(l) /\ j + 1 \in 1..Len(l)
    BY <2>1
  <2>5. CASE i < m /\ j < m
    BY <2>2, <2>3, <2>4, <2>5 DEF IdsDistinct
  <2>6. CASE i < m /\ ~(j < m)
    <3>1. i = j + 1
      BY <2>2, <2>3, <2>4, <2>6 DEF IdsDistinct
    <3> QED
      BY <2>6, <3>1
  <2>7. CASE ~(i < m) /\ j < m
    <3>1. i + 1 = j
      BY <2>2, <2>3, <2>4, <2>7 DEF IdsDistinct
    <3> QED
      BY <2>7, <3>1
  <2>8. CASE ~(i < m) /\ ~(j < m)
    <3>1. i + 1 = j + 1
      BY <2>2, <2>3, <2>4, <2>8 DEF IdsDistinct
    <3> QED
      BY <3>1
  <2> QED
    BY <2>5, <2>6, <2>7, <2>8
<1> QED
  BY <1>1, <1>2

\* The parts of a batch.
LEMMA LastOfMembers ==
    ASSUME NEW l \in Seq(Key), NEW n \in Nat \ {0}
    PROVE  LastOf(l, n) \in Seq(Key) /\ ToSet(LastOf(l, n)) \subseteq ToSet(l)
<1> DEFINE m == IF Len(l) > n THEN Len(l) - n + 1 ELSE 1
<1>1. m \in 1..Len(l) + 1
  <2>1. \A q \in Nat : (IF q > n THEN q - n + 1 ELSE 1) \in 1..q + 1
    OBVIOUS
  <2> QED
    BY <2>1, Places
<1>2. LastOf(l, n) = SubSeq(l, m, Len(l))
  BY DEF LastOf
<1> HIDE DEF m
<1> QED
  BY <1>1, <1>2, SuffixPlaces

\* FromDue leaves members of the batch, from a key below the limit on.
LEMMA FromDueMembers ==
    ASSUME NEW l \in Seq(Key), NEW ids, NEW t, t = FromDue(l, ids)
    PROVE  /\ t \in Seq(Key)
           /\ ToSet(t) \subseteq ToSet(l)
           /\ t # <<>> => Head(t).id \in ids
<1> DEFINE due == {i \in DOMAIN l : l[i].id \in ids}
<1>1. CASE due = {}
  <2>1. t = <<>>
    BY <1>1 DEF FromDue
  <2> QED
    BY <2>1 DEF ToSet
<1>2. CASE due # {}
  <2>1. due \subseteq Nat /\ due \subseteq 1..Len(l) /\ \A i \in due : l[i].id \in ids
    BY Places
  <2> DEFINE m == Min(due)
  <2>2. t = SubSeq(l, m, Len(l))
    BY <1>2 DEF FromDue
  <2>3. m \in due
    BY <1>2, <2>1, LeastNumber
  <2> HIDE DEF due
  <2>4. m \in 1..Len(l) /\ Len(l) \in Nat /\ m \in 1..Len(l) + 1 /\ l[m].id \in ids
    <3>1. m \in 1..Len(l) /\ l[m].id \in ids
      BY <2>1, <2>3
    <3>2. \A q \in Nat : \A i \in 1..q : i \in 1..q + 1
      OBVIOUS
    <3> HIDE DEF m
    <3> QED
      BY <3>1, <3>2, Places
  <2> HIDE DEF m
  <2>5. /\ t \in Seq(Key)
        /\ Len(t) = Len(l) - m + 1
        /\ \A i \in 1..Len(t) : m + i - 1 \in 1..Len(l) /\ t[i] = l[m + i - 1]
        /\ ToSet(t) \subseteq ToSet(l)
    BY <2>2, <2>4, SuffixPlaces, Zenon
  <2>6. 1 \in 1..Len(t) /\ m + 1 - 1 = m
    <3>1. \A q \in Nat : \A i \in 1..q : 1 \in 1..q - i + 1 /\ i + 1 - 1 = i
      OBVIOUS
    <3> QED
      BY <2>4, <2>5, <3>1
  <2>7. Head(t) = l[m]
    BY <2>5, <2>6
  <2> QED
    BY <2>4, <2>5, <2>7
<1> QED
  BY <1>1, <1>2

-----------------------------------------------------------------------------
(* What the commands do to the lists *)

(* The lists and the keys a task remembers hold keys only. *)
LEMMA AllKeys ==
    ASSUME TypeOK
    PROVE  /\ ToSet(main) \subseteq Key
           /\ ToSet(processing) \subseteq Key
           /\ \A w \in Workers : ToSet(todo[w]) \subseteq Key
<1>1. main \in Seq(Key) /\ processing \in Seq(Key) /\ \A w \in Workers : todo[w] \in Seq(Key)
  BY DEF TypeOK
<1> QED
  BY <1>1, Members

(* A new key carries the payload, the count it was made with and the next identifier. *)
LEMMA KeyMade ==
    ASSUME TypeOK, NEW p \in Payloads, NEW n \in Nat
    PROVE  /\ NewKey(p, n) \in Key
           /\ NewKey(p, n).id = lastId + 1
           /\ NewKey(p, n).payload = p
           /\ NewKey(p, n).num_receives = n
  BY DEF TypeOK, Key, NewKey

(* What a send does to the lists. *)
LEMMA AfterLpush ==
    ASSUME TypeOK, NEW p \in Payloads, Lpush(p)
    PROVE  /\ main' \in Seq(Key)
           /\ main' = <<NewKey(p, 0)>> \o main
           /\ ToSet(main') = ToSet(main) \cup {NewKey(p, 0)}
           /\ processing' = processing
           /\ lastId' = lastId + 1
<1>1. main \in Seq(Key) /\ NewKey(p, 0) \in Key /\ main' = <<NewKey(p, 0)>> \o main
  BY KeyMade DEF TypeOK, Lpush
<1>2. main' \in Seq(Key)
  BY <1>1, ConsPlaces
<1>3. ToSet(main') = ToSet(main) \cup {NewKey(p, 0)}
  BY <1>1, ConsMembers
<1> QED
  BY <1>1, <1>2, <1>3 DEF Lpush, MakesKey

(* What BRPOPLPUSH does to the lists. *)
LEMMA AfterReceive ==
    ASSUME TypeOK, Receive
    PROVE  /\ main # <<>>
           /\ Last(main) \in Key
           /\ main' = Front(main)
           /\ main' \in Seq(Key)
           /\ ToSet(main) = ToSet(main') \cup {Last(main)}
           /\ processing' = <<Last(main)>> \o processing
           /\ processing' \in Seq(Key)
           /\ ToSet(processing') = ToSet(processing) \cup {Last(main)}
           /\ lastId' = lastId
<1>1. /\ main \in Seq(Key) /\ main # <<>> /\ processing \in Seq(Key)
      /\ main' = Front(main)
      /\ processing' = <<Last(main)>> \o processing
      /\ lastId' = lastId
  BY DEF TypeOK, Receive, timeVars
<1>2. main' \in Seq(Key) /\ Last(main) \in Key
  BY <1>1, FrontPlaces
<1>3. ToSet(main) = ToSet(main') \cup {Last(main)}
  BY <1>1, FrontMembers
<1>4. processing' \in Seq(Key)
  BY <1>1, <1>2, ConsPlaces
<1>5. ToSet(processing') = ToSet(processing) \cup {Last(main)}
  BY <1>1, <1>2, ConsMembers
<1> QED
  BY <1>1, <1>2, <1>3, <1>4, <1>5

(* What LREM does to the processing list. *)
LEMMA AfterLrem ==
    ASSUME TypeOK, NEW k, Lrem(k)
    PROVE  /\ processing' = RemoveFirst(processing, k)
           /\ processing' \in Seq(Key)
           /\ ToSet(processing') \subseteq ToSet(processing)
           /\ ToSet(processing) \subseteq ToSet(processing') \cup {k}
<1>1. processing \in Seq(Key) /\ processing' = RemoveFirst(processing, k)
  BY DEF TypeOK, Lrem, Without
<1> QED
  BY <1>1, RemoveMembers

\* What a task works on is a key.
LEMMA AtWork ==
    ASSUME TypeOK, NEW w \in Workers, todo[w] # <<>>
    PROVE  /\ Head(todo[w]) \in Key
           /\ Head(todo[w]) \in ToSet(todo[w])
           /\ Head(todo[w]).id \in Nat \ {0}
           /\ Head(todo[w]).payload \in Payloads
           /\ NumReceives(Head(todo[w])) \in Nat
<1>1. todo[w] \in Seq(Key)
  BY DEF TypeOK
<1>2. Head(todo[w]) \in ToSet(todo[w]) /\ ToSet(todo[w]) \subseteq Key
  BY <1>1, TailPlaces, Members
<1> QED
  BY <1>2 DEF Key, NumReceives

(* What the RPUSH of the processing task does to the lists. *)
LEMMA AfterMoveToMain ==
    ASSUME TypeOK, NEW w \in Workers, MoveToMain(w),
           NEW n, n = NewKey(Head(todo[w]).payload, NumReceives(Head(todo[w])))
    PROVE  /\ todo[w] # <<>>
           /\ n \in Key
           /\ n.id = lastId + 1
           /\ n.payload = Head(todo[w]).payload
           /\ n.num_receives = NumReceives(Head(todo[w]))
           /\ main' = Append(main, n)
           /\ main' \in Seq(Key)
           /\ ToSet(main') = ToSet(main) \cup {n}
           /\ processing' = processing
           /\ lastId' = lastId + 1
<1>1. /\ todo[w] # <<>> /\ main \in Seq(Key)
      /\ main' = Append(main, n)
      /\ processing' = processing
      /\ lastId' = lastId + 1
  BY DEF TypeOK, MoveToMain, MakesKey
<1>2. /\ n \in Key
      /\ n.id = lastId + 1
      /\ n.payload = Head(todo[w]).payload
      /\ n.num_receives = NumReceives(Head(todo[w]))
  BY <1>1, AtWork, KeyMade
<1>3. main' \in Seq(Key)
  BY <1>1, <1>2, AppendPlaces
<1>4. ToSet(main') = ToSet(main) \cup {n}
  BY <1>1, <1>2, AppendMembers
<1> QED
  BY <1>1, <1>2, <1>3, <1>4

\* What a task reads and what it goes on with.
LEMMA AfterPeek ==
    ASSUME TypeOK, NEW w \in Workers, Peek(w)
    PROVE  /\ <<Last(processing)>> \in Seq(Key)
           /\ ToSet(<<Last(processing)>>) \subseteq ToSet(processing)
<1>1. processing \in Seq(Key) /\ processing # <<>>
  BY DEF TypeOK, Peek
<1>2. Last(processing) \in Key /\ Last(processing) \in ToSet(processing)
  BY <1>1, FrontPlaces, FrontMembers
<1> QED
  BY <1>2 DEF ToSet

(* What the LRANGE of the processing task finds: keys of the list, the first one due. *)
LEMMA AfterFetch ==
    ASSUME TypeOK, NEW w \in Workers,
           NEW keys, keys = FromDue(LastOf(processing, BatchSize), limit[w])
    PROVE  /\ keys \in Seq(Key)
           /\ ToSet(keys) \subseteq ToSet(processing)
           /\ keys # <<>> => Head(keys).id \in limit[w] \cap {k.id : k \in ToSet(keys)}
<1>1. processing \in Seq(Key) /\ BatchSize \in Nat \ {0}
  BY FallbackAssumption DEF TypeOK
<1>2. /\ LastOf(processing, BatchSize) \in Seq(Key)
      /\ ToSet(LastOf(processing, BatchSize)) \subseteq ToSet(processing)
  BY <1>1, LastOfMembers
<1>3. /\ keys \in Seq(Key)
      /\ ToSet(keys) \subseteq ToSet(LastOf(processing, BatchSize))
      /\ keys # <<>> => Head(keys).id \in limit[w]
  BY <1>2, FromDueMembers
<1>4. keys # <<>> => Head(keys) \in ToSet(keys)
  BY <1>3, TailPlaces
<1> QED
  BY <1>2, <1>3, <1>4

(* What is left of the fetched keys after the LREM of the first. *)
LEMMA AfterLremHead ==
    ASSUME TypeOK, NEW w \in Workers, todo[w] # <<>>,
           NEW keys, keys = FromDue(Tail(todo[w]), limit[w])
    PROVE  /\ keys \in Seq(Key)
           /\ ToSet(keys) \subseteq ToSet(todo[w])
           /\ keys # <<>> => Head(keys).id \in limit[w]
<1> DEFINE rest == Tail(todo[w])
<1>1. todo[w] \in Seq(Key)
  BY DEF TypeOK
<1>2. rest \in Seq(Key) /\ ToSet(rest) \subseteq ToSet(todo[w])
  BY <1>1, TailPlaces
<1>3. keys = FromDue(rest, limit[w])
  OBVIOUS
<1> HIDE DEF rest
<1>4. /\ keys \in Seq(Key)
      /\ ToSet(keys) \subseteq ToSet(rest)
      /\ keys # <<>> => Head(keys).id \in limit[w]
  BY <1>2, <1>3, FromDueMembers
<1> QED
  BY <1>2, <1>4

-----------------------------------------------------------------------------
(* Types *)

(* The state after construction is well typed. *)
LEMMA TypeInit == Init => TypeOK
  BY FallbackAssumption DEF Init, TypeOK, TaskState

\* A new ksuid leaves the sets of ids within their bounds.
LEMMA IdsGrow ==
    ASSUME TypeOK, lastId' = lastId + 1, UNCHANGED <<aged, limit>>
    PROVE  /\ lastId' \in Nat
           /\ aged' \subseteq 1..lastId'
           /\ limit' \in [Workers -> SUBSET (1..lastId')]
<1>1. lastId \in Nat /\ aged \subseteq 1..lastId /\ limit \in [Workers -> SUBSET (1..lastId)]
  BY DEF TypeOK
<1>2. lastId' \in Nat /\ 1..lastId \subseteq 1..lastId'
  BY <1>1
<1> QED
  BY <1>1, <1>2, Zenon

(* A send keeps the types. *)
LEMMA TypeLpush ==
    ASSUME TypeOK, NEW p \in Payloads, Lpush(p), faults' \in 0..MaxFaults,
           sent' \subseteq Payloads, late' \subseteq Payloads
    PROVE  TypeOK'
<1>1. main' \in Seq(Key)
  BY AfterLpush
<1>2. /\ lastId' = lastId + 1
      /\ UNCHANGED <<processing, dlq, aged, deliveries, pc, todo, limit, acked, receives>>
  BY DEF Lpush, MakesKey, taskVars
<1> QED
  BY <1>1, <1>2, IdsGrow DEF TypeOK

(* A fault stays within the number of faults of an instance. *)
LEMMA FaultType == ASSUME TypeOK, Fault PROVE faults' \in 0..MaxFaults
  BY FallbackAssumption DEF TypeOK, Fault

(* A task that fails starts its loop again with nothing remembered. *)
LEMMA RestartType ==
    ASSUME TypeOK, NEW w \in Workers, Restart(w)
    PROVE  /\ pc' \in [Workers -> TaskState]
           /\ todo' \in [Workers -> Seq(Key)]
           /\ limit' \in [Workers -> SUBSET (1..lastId)]
<1>1. <<>> \in Seq(Key)
  OBVIOUS
<1> QED
  BY <1>1 DEF TypeOK, Restart, TaskState

(* A received key makes a Delivery. *)
LEMMA HeldDelivery ==
    ASSUME TypeOK, NEW k \in Key PROVE [key |-> k, phase |-> "held"] \in Delivery
  BY DEF Delivery

(* A nack half done keeps the types of the deliveries. *)
LEMMA SetPhaseType ==
    ASSUME TypeOK, NEW d \in deliveries, NEW ph \in {"held", "lrem"}, SetPhase(d, ph)
    PROVE  deliveries' \subseteq Delivery
  BY DEF TypeOK, SetPhase, Delivery

\* Every step keeps the types, given that a task that is about to LREM has a key.
LEMMA TypeStep == TypeOK /\ TasksOK /\ [Next]_vars => TypeOK'
<1> SUFFICES ASSUME TypeOK, TasksOK, [Next]_vars PROVE TypeOK'
  OBVIOUS
<1> USE DEF listVars, timeVars, taskVars, historyVars
<1>1. ASSUME NEW p \in Payloads, Send(p) PROVE TypeOK'
  <2>1. Lpush(p) /\ faults' \in 0..MaxFaults /\ sent' \subseteq Payloads /\ late' \subseteq Payloads
    BY <1>1 DEF Send, TypeOK
  <2> QED
    BY <2>1, TypeLpush
<1>2. ASSUME NEW p \in Payloads, SendReplyLost(p) PROVE TypeOK'
  <2>1. Lpush(p) /\ Fault /\ sent' \subseteq Payloads /\ late' \subseteq Payloads
    BY <1>2 DEF SendReplyLost, TypeOK
  <2> QED
    BY <2>1, FaultType, TypeLpush
<1>3. ASSUME NEW p \in Payloads, ForeignAdd(p) PROVE TypeOK'
  <2>1. Lpush(p) /\ faults' \in 0..MaxFaults /\ sent' \subseteq Payloads /\ late' \subseteq Payloads
    BY <1>3 DEF ForeignAdd, TypeOK
  <2> QED
    BY <2>1, TypeLpush
<1>4. CASE Receive
  <2>1. main' \in Seq(Key) /\ processing' \in Seq(Key) /\ Last(main) \in Key
    BY <1>4, AfterReceive
  <2>2. deliveries' \subseteq Delivery
    BY <1>4, <2>1, HeldDelivery DEF Receive, TypeOK
  <2>3. receives' \in [Payloads -> Nat]
    <3>1. Last(main).payload \in Payloads
      BY <2>1 DEF Key
    <3> QED
      BY <1>4, <3>1 DEF Receive, TypeOK
  <2> QED
    BY <1>4, <2>1, <2>2, <2>3 DEF Receive, TypeOK
<1>5. ASSUME NEW d \in deliveries, Handle(d) PROVE TypeOK'
  <2> USE DEF TypeOK
  <2>1. d \in Delivery /\ d.key \in Key /\ d.key.payload \in Payloads
    BY DEF Delivery, Key
  <2>2. CASE Ack(d)
    BY <2>1, <2>2, AfterLrem DEF Ack
  <2>3. CASE AckReplyLost(d)
    BY <2>1, <2>3, AfterLrem, FaultType DEF AckReplyLost
  <2>4. CASE Drop(d)
    BY <2>4 DEF Drop
  <2>5. CASE Nack(d)
    BY <2>5 DEF Nack
  <2>6. CASE NackRpush(d)
    BY <2>1, <2>6, SetPhaseType DEF NackRpush
  <2>7. CASE NackLrem(d)
    BY <2>7, AfterLrem DEF NackLrem
  <2>8. CASE NackFails(d)
    <3>1. faults' \in 0..MaxFaults /\ deliveries' \subseteq Delivery /\ processing' \in Seq(Key)
      BY <2>8, AfterLrem, FaultType, SetPhaseType DEF NackFails
    <3> QED
      BY <2>8, <3>1 DEF NackFails
  <2> QED
    BY <1>5, <2>2, <2>3, <2>4, <2>5, <2>6, <2>7, <2>8 DEF Handle
<1>6. ASSUME NEW i \in 1..lastId, Age(i) PROVE TypeOK'
  BY <1>6 DEF Age, TypeOK
<1>7. ASSUME NEW k \in ToSet(processing), Deadline(k) PROVE TypeOK'
  <2>1. k.payload \in Payloads
    BY AllKeys DEF Key
  <2> QED
    BY <1>7, <2>1 DEF Deadline, TypeOK
<1>8. ASSUME NEW w \in Workers, Worker(w) PROVE TypeOK'
  <2> USE DEF TypeOK
  <2>1. CASE Peek(w)
    <3>1. todo' \in [Workers -> Seq(Key)] /\ pc' \in [Workers -> TaskState]
      BY <2>1, AfterPeek DEF Peek, TaskState
    <3> QED
      BY <2>1, <3>1 DEF Peek
  <2>2. CASE ReadClock(w)
    <3>1. CASE todo[w][1].id \notin aged
      <4>1. Restart(w)
        BY <2>2, <3>1 DEF ReadClock
      <4> QED
        BY <2>2, <4>1, RestartType DEF ReadClock
    <3>2. CASE todo[w][1].id \in aged
      <4>1. /\ limit' = [limit EXCEPT ![w] = aged]
            /\ pc' = [pc EXCEPT ![w] = "fetch"]
            /\ UNCHANGED todo
        BY <2>2, <3>2 DEF ReadClock
      <4> QED
        BY <2>2, <4>1 DEF ReadClock, TaskState
    <3> QED
      BY <3>1, <3>2
  <2>3. CASE Fetch(w)
    <3> DEFINE keys == FromDue(LastOf(processing, BatchSize), limit[w])
    <3>1. keys \in Seq(Key)
      BY AfterFetch
    <3>2. /\ todo' = [todo EXCEPT ![w] = keys]
          /\ limit' = [limit EXCEPT ![w] = @ \cap {k.id : k \in ToSet(keys)}]
          /\ pc' = [pc EXCEPT ![w] = "scan"]
          /\ UNCHANGED <<listVars, timeVars, deliveries, faults, historyVars>>
      BY <2>3 DEF Fetch
    <3> HIDE DEF keys
    <3> QED
      BY <3>1, <3>2 DEF TaskState
  <2>4. CASE MoveToMain(w)
    <3>1. main' \in Seq(Key) /\ lastId' = lastId + 1 /\ processing' = processing
      BY <2>4, AfterMoveToMain
    <3>2. /\ pc' = [pc EXCEPT ![w] = "lrem"]
          /\ UNCHANGED <<dlq, aged, deliveries, todo, limit, faults, historyVars>>
      BY <2>4 DEF MoveToMain
    <3> QED
      BY <3>1, <3>2, IdsGrow DEF TaskState
  <2>5. CASE MoveToDlq(w)
    BY <2>5, AtWork DEF MoveToDlq, TaskState
  <2>6. CASE LremHead(w)
    <3> DEFINE keys == FromDue(Tail(todo[w]), limit[w])
    <3>1. todo[w] # <<>>
      BY <2>6 DEF LremHead, TasksOK, TaskOK
    <3>2. keys \in Seq(Key)
      BY <3>1, AfterLremHead
    <3>3. processing' \in Seq(Key)
      BY <2>6, AfterLrem DEF LremHead
    <3>4. /\ todo' = [todo EXCEPT ![w] = keys]
          /\ pc' = [pc EXCEPT ![w] = "scan"]
          /\ UNCHANGED <<main, dlq, timeVars, deliveries, limit, faults, historyVars>>
      BY <2>6 DEF LremHead
    <3> HIDE DEF keys
    <3> QED
      BY <3>2, <3>3, <3>4 DEF TaskState
  <2>7. CASE EndOfCall(w)
    BY <2>7, RestartType DEF EndOfCall
  <2> QED
    BY <1>8, <2>1, <2>2, <2>3, <2>4, <2>5, <2>6, <2>7 DEF Worker
<1>9. ASSUME NEW w \in Workers, WorkerFails(w) PROVE TypeOK'
  BY <1>9, RestartType, FaultType DEF WorkerFails, TypeOK
<1>10. CASE UNCHANGED vars
  BY <1>10 DEF vars, TypeOK
<1> QED
  BY <1>1, <1>2, <1>3, <1>4, <1>5, <1>6, <1>7, <1>8, <1>9, <1>10 DEF Next, Producer

-----------------------------------------------------------------------------
(* Keys *)

\* KeysOK, with members in place of places.
KeysSetwise ==
    /\ \A k \in ToSet(main) \cup ToSet(processing) : k.id <= lastId
    /\ IdsDistinct(main)
    /\ IdsDistinct(processing)
    /\ \A f \in ToSet(main), g \in ToSet(processing) : f.id # g.id

(* KeysOK speaks of the members of the lists and of distinct identifiers only. *)
LEMMA KeysAsSets == TypeOK => (KeysOK <=> KeysSetwise)
<1> SUFFICES ASSUME TypeOK PROVE KeysOK <=> KeysSetwise
  OBVIOUS
<1>1. main \in Seq(Key) /\ processing \in Seq(Key)
  BY DEF TypeOK
<1>2. DOMAIN main = 1..Len(main) /\ DOMAIN processing = 1..Len(processing)
  BY <1>1, Places
<1>3. (\A i \in DOMAIN main, j \in DOMAIN processing : main[i].id # processing[j].id)
        <=> (\A f \in ToSet(main), g \in ToSet(processing) : f.id # g.id)
  BY DEF ToSet
<1> QED
  BY <1>2, <1>3 DEF KeysOK, KeysSetwise, Listed, IdsDistinct

\* Why a key may go from the processing list.
Replaced(k) ==
    \/ k.payload \in acked' \cup dlq'
    \/ \E f \in Listed : f.payload = k.payload /\ f.id > k.id

\* What a step can do to the lists and the ids.
ListStep ==
    \/ \E p \in Payloads : Lpush(p)
    \/ Receive
    \/ \E k \in Key : Lrem(k) /\ Replaced(k) /\ UNCHANGED <<main, lastId>>
    \/ \E w \in Workers : MoveToMain(w)
    \/ UNCHANGED <<main, processing, lastId>>

(* Every step changes the lists by one of the commands of ListStep. *)
LEMMA EveryStepIsListStep ==
    ASSUME TypeOK, TasksOK, DeliveriesOK, Moved, [Next]_vars
    PROVE  ListStep
<1> USE DEF listVars, timeVars
<1>1. ASSUME NEW p \in Payloads, Producer(p) PROVE ListStep
  BY <1>1 DEF Producer, Send, SendReplyLost, ForeignAdd, ListStep
<1>2. CASE Receive
  BY <1>2 DEF ListStep
<1>3. ASSUME NEW d \in deliveries, Handle(d) PROVE ListStep
  <2>1. d.key \in Key
    BY DEF TypeOK, Delivery
  <2>2. CASE Ack(d) \/ AckReplyLost(d)
    <3>1. Replaced(d.key)
      BY <2>2 DEF Ack, AckReplyLost, Replaced
    <3> QED
      BY <2>1, <2>2, <3>1 DEF Ack, AckReplyLost, ListStep
  <2>3. CASE NackLrem(d) \/ NackFails(d)
    <3>1. d.key.payload \in dlq'
      BY <2>3 DEF NackLrem, NackFails, DeliveriesOK
    <3>2. Replaced(d.key)
      BY <3>1 DEF Replaced
    <3> QED
      BY <2>1, <2>3, <3>2 DEF NackLrem, NackFails, ListStep
  <2>4. CASE Drop(d) \/ Nack(d) \/ NackRpush(d)
    BY <2>4 DEF Drop, Nack, NackRpush, ListStep
  <2> QED
    BY <1>3, <2>2, <2>3, <2>4 DEF Handle
<1>4. ASSUME NEW i \in 1..lastId, Age(i) PROVE ListStep
  BY <1>4 DEF Age, ListStep
<1>5. ASSUME NEW k \in ToSet(processing), Deadline(k) PROVE ListStep
  BY <1>5 DEF Deadline, ListStep
<1>6. ASSUME NEW w \in Workers, Worker(w) PROVE ListStep
  <2>1. CASE MoveToMain(w)
    BY <2>1 DEF ListStep
  <2>2. CASE LremHead(w)
    <3>1. Head(todo[w]) \in Key
      BY <2>2, AtWork DEF LremHead, TasksOK, TaskOK
    <3>2. Replaced(Head(todo[w]))
      BY <2>2 DEF LremHead, Moved, Settled, Replaced, historyVars
    <3> QED
      BY <2>2, <3>1, <3>2 DEF LremHead, ListStep
  <2>3. CASE Peek(w) \/ ReadClock(w) \/ Fetch(w) \/ MoveToDlq(w) \/ EndOfCall(w)
    BY <2>3 DEF Peek, ReadClock, Fetch, MoveToDlq, EndOfCall, ListStep
  <2> QED
    BY <1>6, <2>1, <2>2, <2>3 DEF Worker
<1>7. ASSUME NEW w \in Workers, WorkerFails(w) PROVE ListStep
  BY <1>7 DEF WorkerFails, ListStep
<1>8. CASE UNCHANGED vars
  BY <1>8 DEF vars, ListStep
<1> QED
  BY <1>1, <1>2, <1>3, <1>4, <1>5, <1>6, <1>7, <1>8 DEF Next

(* KeysOK holds after construction. *)
LEMMA KeysInit == Init => KeysOK
<1> SUFFICES ASSUME Init PROVE KeysOK
  OBVIOUS
<1>1. main = <<>> /\ processing = <<>> /\ TypeOK
  BY TypeInit DEF Init
<1>2. ToSet(main) = {} /\ ToSet(processing) = {} /\ Len(main) = 0 /\ Len(processing) = 0
  BY <1>1 DEF ToSet
<1> QED
  BY <1>1, <1>2, KeysAsSets DEF KeysSetwise, IdsDistinct

\* Every key stays on one list, once.
LEMMA KeysStep == ASSUME TypeOK, TypeOK', KeysOK, ListStep PROVE KeysOK'
<1>1. /\ main \in Seq(Key) /\ processing \in Seq(Key) /\ lastId \in Nat
      /\ ToSet(main) \subseteq Key /\ ToSet(processing) \subseteq Key
  BY AllKeys DEF TypeOK
<1>2. KeysSetwise
  BY KeysAsSets
<1>3. \A k \in Key : k.id \in Nat
  BY DEF Key
<1>4. \A k \in ToSet(main) \cup ToSet(processing) : k.id # lastId + 1 /\ k.id <= lastId + 1
  BY <1>1, <1>2, <1>3 DEF KeysSetwise
<1>5. SUFFICES KeysSetwise'
  <2>1. TypeOK' => (KeysOK' <=> KeysSetwise')
    BY KeysAsSets, PTL
  <2> QED
    BY <2>1
<1> USE DEF KeysSetwise
<1>6. ASSUME NEW p \in Payloads, Lpush(p) PROVE KeysSetwise'
  <2> DEFINE n == NewKey(p, 0)
  <2>1. n \in Key /\ n.id = lastId + 1
    BY KeyMade
  <2>2. /\ main' = <<n>> \o main
        /\ ToSet(main') = ToSet(main) \cup {n}
        /\ processing' = processing
        /\ lastId' = lastId + 1
    BY <1>6, AfterLpush
  <2> HIDE DEF n
  <2>3. IdsDistinct(main')
    BY <1>1, <1>2, <1>4, <2>1, <2>2, DistinctAfterCons
  <2>4. IdsDistinct(processing')
    BY <1>2, <2>2
  <2>5. \A k \in ToSet(main') \cup ToSet(processing') : k.id <= lastId'
    BY <1>1, <1>4, <2>1, <2>2
  <2>6. \A f \in ToSet(main'), g \in ToSet(processing') : f.id # g.id
    BY <1>2, <1>4, <2>1, <2>2
  <2> QED
    BY <2>3, <2>4, <2>5, <2>6
<1>7. CASE Receive
  <2> DEFINE k == Last(main)
  <2>1. /\ main # <<>>
        /\ k \in Key
        /\ main' = Front(main)
        /\ ToSet(main) = ToSet(main') \cup {k}
        /\ processing' = <<k>> \o processing
        /\ ToSet(processing') = ToSet(processing) \cup {k}
        /\ lastId' = lastId
    BY <1>7, AfterReceive
  <2>2. IdsDistinct(main') /\ \A f \in ToSet(main') : f.id # k.id
    BY <1>1, <1>2, <2>1, DistinctAfterFront
  <2> HIDE DEF k
  <2>3. IdsDistinct(processing')
    BY <1>1, <1>2, <2>1, DistinctAfterCons
  <2> QED
    BY <1>1, <1>2, <2>1, <2>2, <2>3
<1>8. ASSUME NEW k \in Key, Lrem(k), UNCHANGED <<main, lastId>> PROVE KeysSetwise'
  <2>1. /\ processing' = RemoveFirst(processing, k)
        /\ ToSet(processing') \subseteq ToSet(processing)
    BY <1>8, AfterLrem
  <2>2. IdsDistinct(processing')
    BY <1>1, <1>2, <2>1, DistinctAfterRemove
  <2> QED
    BY <1>1, <1>2, <1>8, <2>1, <2>2
<1>9. ASSUME NEW w \in Workers, MoveToMain(w) PROVE KeysSetwise'
  <2> DEFINE n == NewKey(Head(todo[w]).payload, NumReceives(Head(todo[w])))
  <2>1. /\ n \in Key
        /\ n.id = lastId + 1
        /\ main' = Append(main, n)
        /\ ToSet(main') = ToSet(main) \cup {n}
        /\ processing' = processing
        /\ lastId' = lastId + 1
    BY <1>9, AfterMoveToMain
  <2> HIDE DEF n
  <2>2. IdsDistinct(main')
    BY <1>1, <1>2, <1>4, <2>1, DistinctAfterAppend
  <2> QED
    BY <1>1, <1>2, <1>4, <2>1, <2>2
<1>10. CASE UNCHANGED <<main, processing, lastId>>
  BY <1>2, <1>10 DEF IdsDistinct
<1> QED
  BY <1>6, <1>7, <1>8, <1>9, <1>10 DEF ListStep

-----------------------------------------------------------------------------
(* What tasks and deliveries remember *)

(* What a task or a Delivery remembers of a key stays true: identifiers are never reused. *)
LEMMA RememberedKept ==
    ASSUME TypeOK, KeysOK, ListStep, NEW k \in Key, Remembers(k)
    PROVE  Remembers(k)'
<1>1. lastId \in Nat /\ k.id \in Nat
  BY DEF TypeOK, Key
<1>2. /\ k.id <= lastId
      /\ \A f \in ToSet(main) : f.id # k.id
      /\ \A f \in ToSet(processing) : f.id = k.id => f = k
  BY DEF Remembers
<1> DEFINE Kept == /\ k.id <= lastId'
                   /\ \A f \in ToSet(main') : f.id # k.id
                   /\ \A f \in ToSet(processing') : f.id = k.id => f = k
<1>3. SUFFICES Kept
  BY DEF Remembers
<1>4. ASSUME NEW n, n.id = lastId + 1, ToSet(main') = ToSet(main) \cup {n},
             processing' = processing, lastId' = lastId + 1
      PROVE  Kept
  BY <1>1, <1>2, <1>4
<1>5. ASSUME NEW p \in Payloads, Lpush(p) PROVE Kept
  BY <1>4, <1>5, AfterLpush, KeyMade
<1>6. CASE Receive
  BY <1>2, <1>6, AfterReceive
<1>7. ASSUME NEW f \in Key, Lrem(f), UNCHANGED <<main, lastId>> PROVE Kept
  BY <1>2, <1>7, AfterLrem
<1>8. ASSUME NEW w \in Workers, MoveToMain(w) PROVE Kept
  BY <1>4, <1>8, AfterMoveToMain
<1>9. CASE UNCHANGED <<main, processing, lastId>>
  BY <1>2, <1>9
<1> QED
  BY <1>5, <1>6, <1>7, <1>8, <1>9 DEF ListStep

ProcessingKnown == \A k \in ToSet(processing) : Remembers(k)

(* A key of the processing list may be remembered. *)
LEMMA OnProcessing == TypeOK /\ KeysOK => ProcessingKnown
<1> SUFFICES ASSUME TypeOK, KeysOK, NEW k \in ToSet(processing) PROVE Remembers(k)
  BY DEF ProcessingKnown
<1>1. KeysSetwise /\ processing \in Seq(Key)
  BY KeysAsSets DEF TypeOK
<1>2. PICK i \in 1..Len(processing) : processing[i] = k
  BY <1>1, Members
<1>3. ASSUME NEW f \in ToSet(processing), f.id = k.id PROVE f = k
  <2>1. PICK j \in 1..Len(processing) : processing[j] = f
    BY <1>1, Members
  <2> QED
    BY <1>1, <1>2, <1>3, <2>1 DEF KeysSetwise, IdsDistinct
<1> QED
  BY <1>1, <1>3 DEF KeysSetwise, Remembers

\* A task that does nothing is not disturbed by what the others do.
LEMMA TaskKept ==
    ASSUME TypeOK, KeysOK, ListStep, NEW w \in Workers, TaskOK(w),
           pc'[w] = pc[w], todo'[w] = todo[w], limit'[w] = limit[w], aged \subseteq aged'
    PROVE  TaskOK(w)'
<1>1. ToSet(todo[w]) \subseteq Key
  BY AllKeys
<1>2. \A k \in ToSet(todo[w]) : Remembers(k)'
  BY <1>1, RememberedKept DEF TaskOK
<1> QED
  BY <1>2 DEF TaskOK

(* A step of anybody else keeps what a task remembers true. *)
LEMMA TasksKept ==
    ASSUME TypeOK, KeysOK, ListStep, TasksOK, UNCHANGED taskVars, aged \subseteq aged'
    PROVE  TasksOK'
  BY TaskKept DEF TasksOK, taskVars

\* A call that returned remembers nothing.
LEMMA RestartedTask ==
    ASSUME TypeOK, NEW w \in Workers, Restart(w)
    PROVE  /\ TaskOK(w)'
           /\ \A v \in Workers \ {w} :
                 pc'[v] = pc[v] /\ todo'[v] = todo[v] /\ limit'[v] = limit[v]
<1>1. pc'[w] = "idle" /\ todo'[w] = <<>> /\ limit'[w] = {}
  BY DEF Restart, TypeOK
<1>2. ToSet(todo'[w]) = {}
  BY <1>1 DEF ToSet
<1> QED
  BY <1>1, <1>2 DEF TaskOK, Restart, TypeOK

(* TasksOK holds after construction. *)
LEMMA TasksInit == Init => TasksOK
<1> SUFFICES ASSUME Init, NEW w \in Workers PROVE TaskOK(w)
  BY DEF TasksOK
<1>1. pc[w] = "idle" /\ todo[w] = <<>> /\ limit[w] = {}
  BY DEF Init
<1>2. ToSet(todo[w]) = {}
  BY <1>1 DEF ToSet
<1> QED
  BY <1>1, <1>2 DEF TaskOK

\* A task knows only keys it read from the processing list, and works on one that
\* is below its limit.
LEMMA TasksStep ==
    ASSUME TypeOK, TypeOK', KeysOK, KeysOK', ListStep, TasksOK, [Next]_vars
    PROVE  TasksOK'
<1> USE DEF listVars, timeVars
<1>1. ASSUME NEW p \in Payloads, Producer(p) PROVE TasksOK'
  BY <1>1, TasksKept DEF Producer, Send, SendReplyLost, ForeignAdd, Lpush
<1>2. CASE Receive
  BY <1>2, TasksKept DEF Receive
<1>3. ASSUME NEW d \in deliveries, Handle(d) PROVE TasksOK'
  BY <1>3, TasksKept DEF Handle, Ack, AckReplyLost, Drop, Nack, NackRpush, NackLrem, NackFails
<1>4. ASSUME NEW i \in 1..lastId, Age(i) PROVE TasksOK'
  BY <1>4, TasksKept DEF Age
<1>5. ASSUME NEW k \in ToSet(processing), Deadline(k) PROVE TasksOK'
  BY <1>5, TasksKept DEF Deadline
<1>6. ASSUME NEW w \in Workers, Worker(w) \/ WorkerFails(w) PROVE TasksOK'
  <2>1. /\ pc \in [Workers -> TaskState] /\ todo \in [Workers -> Seq(Key)]
        /\ limit \in [Workers -> SUBSET (1..lastId)]
        /\ TaskOK(w)
    BY DEF TypeOK, TasksOK
  <2>2. ASSUME TaskOK(w)', aged \subseteq aged',
               \A v \in Workers \ {w} :
                  pc'[v] = pc[v] /\ todo'[v] = todo[v] /\ limit'[v] = limit[v]
        PROVE  TasksOK'
    BY <2>2, TaskKept DEF TasksOK
  <2>3. aged' = aged
    BY <1>6 DEF Worker, WorkerFails, Peek, ReadClock, Fetch, MoveToMain, MoveToDlq,
                LremHead, EndOfCall
  <2>4. \A k \in ToSet(processing') : Remembers(k)'
    <3>1. TypeOK' /\ KeysOK' => ProcessingKnown'
      BY OnProcessing, PTL
    <3> QED
      BY <3>1 DEF ProcessingKnown
  <2>5. \A k \in ToSet(todo[w]) : Remembers(k)'
    BY AllKeys, RememberedKept, <2>1 DEF TaskOK
  <2>6. CASE Restart(w)
    BY <2>2, <2>3, <2>6, RestartedTask
  <2>7. CASE Peek(w)
    <3>1. /\ pc'[w] = "clock" /\ todo'[w] = <<Last(processing)>> /\ limit'[w] = limit[w]
          /\ processing' = processing
      BY <2>1, <2>7 DEF Peek
    <3>2. ToSet(todo'[w]) \subseteq ToSet(processing')
      BY <2>7, <3>1, AfterPeek
    <3>3. TaskOK(w)'
      BY <2>1, <2>3, <2>4, <3>1, <3>2 DEF TaskOK
    <3> QED
      BY <2>1, <2>2, <2>3, <2>7, <3>3 DEF Peek
  <2>8. CASE ReadClock(w)
    <3>1. CASE todo[w][1].id \notin aged
      BY <2>6, <2>8, <3>1 DEF ReadClock
    <3>2. CASE todo[w][1].id \in aged
      <4>1. /\ limit' = [limit EXCEPT ![w] = aged]
            /\ pc' = [pc EXCEPT ![w] = "fetch"]
            /\ todo' = todo
            /\ pc[w] = "clock"
        BY <2>8, <3>2 DEF ReadClock
      <4>2. limit'[w] = aged /\ pc'[w] = "fetch" /\ todo'[w] = todo[w]
        BY <2>1, <4>1
      <4>3. TaskOK(w)'
        BY <2>3, <2>5, <4>2 DEF TaskOK
      <4> QED
        BY <2>1, <2>2, <2>3, <4>1, <4>3
    <3> QED
      BY <3>1, <3>2
  <2>9. CASE Fetch(w)
    <3> DEFINE keys == FromDue(LastOf(processing, BatchSize), limit[w])
    <3>1. /\ ToSet(keys) \subseteq ToSet(processing)
          /\ keys # <<>> => Head(keys).id \in limit[w] \cap {k.id : k \in ToSet(keys)}
      BY AfterFetch
    <3>2. /\ todo' = [todo EXCEPT ![w] = keys]
          /\ limit' = [limit EXCEPT ![w] = @ \cap {k.id : k \in ToSet(keys)}]
          /\ pc' = [pc EXCEPT ![w] = "scan"]
          /\ processing' = processing
      BY <2>9 DEF Fetch
    <3> HIDE DEF keys
    <3>3. /\ todo'[w] = keys
          /\ limit'[w] = limit[w] \cap {k.id : k \in ToSet(keys)}
          /\ pc'[w] = "scan"
      BY <2>1, <3>2
    <3>4. TaskOK(w)'
      BY <2>1, <2>3, <2>4, <3>1, <3>2, <3>3 DEF TaskOK
    <3> QED
      BY <2>1, <2>2, <2>3, <3>2, <3>4
  <2>10. CASE MoveToMain(w) \/ MoveToDlq(w)
    <3>1. /\ pc' = [pc EXCEPT ![w] = "lrem"]
          /\ UNCHANGED <<todo, limit>>
          /\ pc[w] = "scan" /\ todo[w] # <<>>
      BY <2>10 DEF MoveToMain, MoveToDlq
    <3>2. pc'[w] = "lrem"
      BY <2>1, <3>1
    <3>3. TaskOK(w)'
      BY <2>1, <2>3, <2>5, <3>1, <3>2 DEF TaskOK
    <3> QED
      BY <2>1, <2>2, <2>3, <3>1, <3>3
  <2>11. CASE LremHead(w)
    <3> DEFINE keys == FromDue(Tail(todo[w]), limit[w])
    <3>1. todo[w] # <<>>
      BY <2>1, <2>11 DEF LremHead, TaskOK
    <3>2. /\ ToSet(keys) \subseteq ToSet(todo[w])
          /\ keys # <<>> => Head(keys).id \in limit[w]
      BY <3>1, AfterLremHead
    <3>3. /\ todo' = [todo EXCEPT ![w] = keys]
          /\ pc' = [pc EXCEPT ![w] = "scan"]
          /\ limit' = limit
      BY <2>11 DEF LremHead
    <3> HIDE DEF keys
    <3>4. todo'[w] = keys /\ pc'[w] = "scan"
      BY <2>1, <3>3
    <3>5. TaskOK(w)'
      BY <2>1, <2>3, <2>5, <3>2, <3>3, <3>4 DEF TaskOK
    <3> QED
      BY <2>1, <2>2, <2>3, <3>3, <3>5
  <2> QED
    BY <1>6, <2>6, <2>7, <2>8, <2>9, <2>10, <2>11 DEF Worker, WorkerFails, EndOfCall
<1>7. CASE UNCHANGED vars
  BY <1>7, TasksKept DEF vars, taskVars
<1> QED
  BY <1>1, <1>2, <1>3, <1>4, <1>5, <1>6, <1>7 DEF Next

\* The dead letter list and the acks only grow.
LEMMA SettledGrows ==
    ASSUME [Next]_vars
    PROVE  acked \subseteq acked' /\ dlq \subseteq dlq'
<1> USE DEF listVars, historyVars
<1>1. ASSUME NEW p \in Payloads, Producer(p) PROVE UNCHANGED <<acked, dlq>>
  BY <1>1 DEF Producer, Send, SendReplyLost, ForeignAdd, Lpush
<1>2. ASSUME Receive PROVE UNCHANGED <<acked, dlq>>
  BY <1>2 DEF Receive
<1>3. ASSUME NEW d \in deliveries, Handle(d) PROVE acked \subseteq acked' /\ dlq \subseteq dlq'
  BY <1>3 DEF Handle, Ack, AckReplyLost, Drop, Nack, NackRpush, NackLrem, NackFails
<1>4. ASSUME NEW i \in 1..lastId, Age(i) PROVE UNCHANGED <<acked, dlq>>
  BY <1>4 DEF Age
<1>5. ASSUME NEW k \in ToSet(processing), Deadline(k) PROVE UNCHANGED <<acked, dlq>>
  BY <1>5 DEF Deadline
<1>6. ASSUME NEW w \in Workers, Worker(w) \/ WorkerFails(w)
      PROVE  acked \subseteq acked' /\ dlq \subseteq dlq'
  BY <1>6 DEF Worker, WorkerFails, Peek, ReadClock, Fetch, MoveToMain, MoveToDlq,
              LremHead, EndOfCall
<1>7. CASE UNCHANGED vars
  BY <1>7 DEF vars
<1> QED
  BY <1>1, <1>2, <1>3, <1>4, <1>5, <1>6, <1>7 DEF Next

\* What a step can do to the Deliveries: take some away, hand out the end of the
\* main list, or move one on in its nack.
DeliveryStep ==
    \/ deliveries' \subseteq deliveries
    \/ Receive
    \/ \E d \in deliveries : NackRpush(d) \/ NackFails(d)

(* Every step changes the deliveries by one of the cases of DeliveryStep. *)
LEMMA EveryStepIsDeliveryStep == ASSUME [Next]_vars PROVE DeliveryStep
<1>1. ASSUME NEW p \in Payloads, Producer(p) PROVE DeliveryStep
  BY <1>1 DEF Producer, Send, SendReplyLost, ForeignAdd, Lpush, DeliveryStep
<1>2. ASSUME NEW d \in deliveries, Handle(d) PROVE DeliveryStep
  BY <1>2 DEF Handle, Ack, AckReplyLost, Drop, Nack, NackLrem, DeliveryStep
<1>3. ASSUME NEW i \in 1..lastId, Age(i) PROVE DeliveryStep
  BY <1>3 DEF Age, DeliveryStep
<1>4. ASSUME NEW k \in ToSet(processing), Deadline(k) PROVE DeliveryStep
  BY <1>4 DEF Deadline, DeliveryStep
<1>5. ASSUME NEW w \in Workers, Worker(w) \/ WorkerFails(w) PROVE DeliveryStep
  BY <1>5 DEF Worker, WorkerFails, Peek, ReadClock, Fetch, MoveToMain, MoveToDlq,
              LremHead, EndOfCall, DeliveryStep
<1>6. CASE UNCHANGED vars
  BY <1>6 DEF vars, DeliveryStep
<1> QED
  BY <1>1, <1>2, <1>3, <1>4, <1>5, <1>6 DEF Next, DeliveryStep

\* Where the Deliveries after a step come from.
LEMMA DeliveryFrom ==
    ASSUME TypeOK, DeliveryStep, NEW d \in deliveries'
    PROVE  \/ d \in deliveries
           \/ /\ Receive
              /\ d = [key |-> Last(main), phase |-> "held"]
              /\ d.key = Last(main)
              /\ d.phase = "held"
           \/ \E f \in deliveries :
                 /\ d.key = f.key
                 /\ d.phase = "lrem" => NackRpush(f)
<1>1. CASE deliveries' \subseteq deliveries
  BY <1>1
<1>2. CASE Receive
  BY <1>2 DEF Receive
<1>3. ASSUME NEW f \in deliveries, NackRpush(f) \/ NackFails(f), d \notin deliveries
      PROVE  d.key = f.key /\ (d.phase = "lrem" => NackRpush(f))
  <2>1. f \in Delivery
    BY DEF TypeOK
  <2>2. CASE NackRpush(f)
    <3>1. d = [f EXCEPT !.phase = "lrem"]
      BY <1>3, <2>2 DEF NackRpush, SetPhase
    <3> QED
      BY <2>1, <2>2, <3>1 DEF Delivery
  <2>3. CASE NackFails(f)
    <3>1. d = [f EXCEPT !.phase = "held"]
      BY <1>3, <2>3 DEF NackFails, SetPhase
    <3> QED
      BY <2>1, <2>3, <3>1 DEF Delivery
  <2> QED
    BY <1>3, <2>2, <2>3
<1> QED
  BY <1>1, <1>2, <1>3 DEF DeliveryStep

(* DeliveriesOK holds after construction. *)
LEMMA DeliveriesInit == Init => DeliveriesOK
  BY DEF Init, DeliveriesOK

\* A Delivery is of a key that has left the main list, and one whose nack has gone
\* half way is of a message on the dead letter list.
LEMMA DeliveriesStep ==
    ASSUME TypeOK, TypeOK', KeysOK, KeysOK', ListStep, DeliveriesOK, [Next]_vars
    PROVE  DeliveriesOK'
<1>1. \A d \in deliveries : Remembers(d.key)'
  <2>1. \A d \in deliveries : d.key \in Key /\ Remembers(d.key)
    BY DEF TypeOK, Delivery, DeliveriesOK
  <2> QED
    BY <2>1, RememberedKept
<1>2. dlq \subseteq dlq' /\ DeliveryStep
  BY SettledGrows, EveryStepIsDeliveryStep
<1>3. SUFFICES ASSUME NEW d \in deliveries'
               PROVE  Remembers(d.key)' /\ (d.phase = "lrem" => d.key.payload \in dlq')
  BY DEF DeliveriesOK
<1>4. CASE d \in deliveries
  BY <1>1, <1>2, <1>4 DEF DeliveriesOK
<1>5. CASE Receive /\ d.key = Last(main) /\ d.phase = "held"
  <2>1. Last(main) \in ToSet(processing')
    BY <1>5, AfterReceive
  <2>2. TypeOK' /\ KeysOK' => ProcessingKnown'
    BY OnProcessing, PTL
  <2>3. \A k \in ToSet(processing') : Remembers(k)'
    BY <2>2 DEF ProcessingKnown
  <2>4. Remembers(d.key)'
    BY <1>5, <2>1, <2>3
  <2> QED
    BY <1>5, <2>4
<1>6. ASSUME NEW f \in deliveries, d.key = f.key,
             d.phase = "lrem" => NackRpush(f)
      PROVE  Remembers(d.key)' /\ (d.phase = "lrem" => d.key.payload \in dlq')
  <2>1. Remembers(d.key)'
    BY <1>1, <1>6
  <2> QED
    BY <1>6, <2>1 DEF NackRpush
<1> QED
  BY <1>2, <1>4, <1>5, <1>6, DeliveryFrom

-----------------------------------------------------------------------------
(* No loss *)

\* The message is settled, or in a key with an id above i.
PlacedAbove(p, i) ==
    \/ Settled(p)
    \/ \E k \in Listed : k.payload = p /\ k.id > i

\* An LREM takes away the key a message is in only when the message is settled or
\* is in a key made later.
LEMMA PlacedKept ==
    ASSUME TypeOK, ListStep, acked \subseteq acked', dlq \subseteq dlq',
           NEW p, NEW i \in Nat, PlacedAbove(p, i)
    PROVE  \/ p \in acked'
           \/ p \in dlq'
           \/ \E k \in Listed' : k.payload = p /\ k.id > i
<1> DEFINE Kept == \/ p \in acked' \/ p \in dlq'
                   \/ \E k \in ToSet(main') \cup ToSet(processing') : k.payload = p /\ k.id > i
<1>1. SUFFICES Kept
  BY DEF Listed
<1>2. CASE Settled(p)
  BY <1>2 DEF Settled
<1>3. ASSUME NEW k \in Listed, k.payload = p, k.id > i PROVE Kept
  <2>1. k \in ToSet(main) \cup ToSet(processing) /\ k.id \in Nat
    BY AllKeys DEF Listed, Key
  <2>2. ASSUME NEW q \in Payloads, Lpush(q) PROVE Kept
    BY <1>3, <2>1, <2>2, AfterLpush
  <2>3. CASE Receive
    BY <1>3, <2>1, <2>3, AfterReceive
  <2>4. ASSUME NEW f \in Key, Lrem(f), Replaced(f), UNCHANGED <<main, lastId>> PROVE Kept
    <3>1. \A g \in ToSet(main) \cup ToSet(processing) :
             g # f => g \in ToSet(main') \cup ToSet(processing')
      BY <2>4, AfterLrem
    <3>2. CASE k # f
      BY <1>3, <2>1, <3>1, <3>2
    <3>3. CASE k = f
      <4>1. CASE f.payload \in acked' \cup dlq'
        BY <1>3, <3>3, <4>1
      <4>2. ASSUME NEW g \in Listed, g.payload = f.payload, g.id > f.id PROVE Kept
        <5>1. g.id \in Nat /\ f.id \in Nat /\ g \in ToSet(main) \cup ToSet(processing)
          BY AllKeys DEF Listed, Key
        <5>2. g # f /\ g.id > i
          BY <1>3, <3>3, <4>2, <5>1
        <5> QED
          BY <1>3, <3>1, <3>3, <4>2, <5>1, <5>2
      <4> QED
        BY <2>4, <4>1, <4>2 DEF Replaced
    <3> QED
      BY <3>2, <3>3
  <2>5. ASSUME NEW w \in Workers, MoveToMain(w) PROVE Kept
    BY <1>3, <2>1, <2>5, AfterMoveToMain
  <2>6. CASE UNCHANGED <<main, processing, lastId>>
    BY <1>3, <2>1, <2>6
  <2> QED
    BY <2>2, <2>3, <2>4, <2>5, <2>6 DEF ListStep
<1> QED
  BY <1>2, <1>3 DEF PlacedAbove

(* Moved holds after construction. *)
LEMMA MovedInit == Init => Moved
  BY DEF Init, Moved

\* What a task is about to LREM it has moved first.
LEMMA MovedStep ==
    ASSUME TypeOK, ListStep, TasksOK, Moved, [Next]_vars
    PROVE  Moved'
<1> USE DEF taskVars
<1>1. acked \subseteq acked' /\ dlq \subseteq dlq'
  BY SettledGrows
<1>2. pc \in [Workers -> TaskState]
  BY DEF TypeOK
<1> DEFINE Goal(k) == \/ k.payload \in acked'
                      \/ k.payload \in dlq'
                      \/ \E f \in Listed' : f.payload = k.payload /\ f.id > k.id
<1>3. SUFFICES ASSUME NEW v \in Workers, pc'[v] = "lrem"
               PROVE  Goal(Head(todo'[v]))
  BY DEF Moved, Settled
<1>4. CASE pc'[v] = pc[v] /\ todo'[v] = todo[v]
  <2> DEFINE k == Head(todo[v])
  <2>1. todo[v] # <<>>
    BY <1>3, <1>4 DEF TasksOK, TaskOK
  <2>2. k.id \in Nat /\ PlacedAbove(k.payload, k.id)
    BY <1>3, <1>4, <2>1, AtWork DEF Moved, PlacedAbove
  <2> HIDE DEF k
  <2>3. Goal(k)
    BY <1>1, <2>2, PlacedKept
  <2> QED
    BY <1>4, <2>3 DEF k
<1>5. CASE MoveToMain(v)
  <2> DEFINE k == Head(todo[v])
             n == NewKey(k.payload, NumReceives(k))
  <2>1. /\ n.id = lastId + 1
        /\ n.payload = k.payload
        /\ ToSet(main') = ToSet(main) \cup {n}
        /\ todo[v] # <<>>
        /\ todo' = todo
    BY <1>5, AfterMoveToMain DEF MoveToMain
  <2>2. k.id \in Nat /\ k.id <= lastId /\ lastId \in Nat
    BY <2>1, AtWork DEF TasksOK, TaskOK, Remembers, TypeOK
  <2> HIDE DEF n
  <2>3. n.id > k.id /\ n \in ToSet(main')
    BY <2>1, <2>2
  <2> QED
    BY <2>1, <2>3 DEF Listed
<1>6. CASE MoveToDlq(v)
  BY <1>6 DEF MoveToDlq
<1>7. ASSUME NEW p \in Payloads, Producer(p) PROVE UNCHANGED taskVars
  BY <1>7 DEF Producer, Send, SendReplyLost, ForeignAdd, Lpush
<1>8. ASSUME Receive PROVE UNCHANGED taskVars
  BY <1>8 DEF Receive
<1>9. ASSUME NEW d \in deliveries, Handle(d) PROVE UNCHANGED taskVars
  BY <1>9 DEF Handle, Ack, AckReplyLost, Drop, Nack, NackRpush, NackLrem, NackFails
<1>10. ASSUME NEW i \in 1..lastId, Age(i) PROVE UNCHANGED taskVars
  BY <1>10 DEF Age
<1>11. ASSUME NEW k \in ToSet(processing), Deadline(k) PROVE UNCHANGED taskVars
  BY <1>11 DEF Deadline
<1>12. ASSUME NEW w \in Workers, Worker(w) \/ WorkerFails(w)
       PROVE  \/ pc'[v] = pc[v] /\ todo'[v] = todo[v]
              \/ MoveToMain(v)
              \/ MoveToDlq(v)
  <2>1. CASE w # v
    BY <1>12, <2>1 DEF Worker, WorkerFails, Peek, ReadClock, Fetch, MoveToMain, MoveToDlq,
                       LremHead, EndOfCall, Restart, TypeOK
  <2>2. CASE w = v
    BY <1>2, <1>3, <1>12, <2>2
       DEF Worker, WorkerFails, Peek, ReadClock, Fetch, LremHead, EndOfCall, Restart
  <2> QED
    BY <2>1, <2>2
<1>13. CASE UNCHANGED vars
  BY <1>4, <1>13 DEF vars
<1>14. CASE UNCHANGED taskVars
  BY <1>4, <1>14
<1> QED
  BY <1>4, <1>5, <1>6, <1>7, <1>8, <1>9, <1>10, <1>11, <1>12, <1>13, <1>14 DEF Next

(* NoLoss holds after construction. *)
LEMMA NoLossInit == Init => NoLoss
  BY DEF Init, NoLoss

(* No command takes the last key of a message away before it is settled. *)
LEMMA NoLossStep ==
    ASSUME TypeOK, ListStep, NoLoss, [Next]_vars
    PROVE  NoLoss'
<1>1. acked \subseteq acked' /\ dlq \subseteq dlq'
  BY SettledGrows
<1>2. ASSUME NEW p \in sent PROVE PlacedAbove(p, 0)
  BY AllKeys DEF NoLoss, PlacedAbove, Listed, Key
<1>3. ASSUME NEW p \in sent
      PROVE  p \in acked' \/ p \in dlq' \/ \E k \in Listed' : k.payload = p
  BY <1>1, <1>2, PlacedKept
<1>4. ASSUME NEW p \in Payloads, Send(p) PROVE NoLoss'
  <2>1. NewKey(p, 0) \in ToSet(main') /\ NewKey(p, 0).payload = p
    BY <1>4, AfterLpush, KeyMade DEF Send
  <2>2. \E k \in Listed' : k.payload = p
    BY <2>1 DEF Listed
  <2>3. sent' = sent \cup {p}
    BY <1>4 DEF Send
  <2> QED
    BY <1>3, <2>2, <2>3 DEF NoLoss, Settled
<1>5. ASSUME sent' = sent PROVE NoLoss'
  BY <1>3, <1>5 DEF NoLoss, Settled
<1>6. ASSUME NEW p \in Payloads, Producer(p), ~Send(p) PROVE sent' = sent
  BY <1>6 DEF Producer, SendReplyLost, ForeignAdd
<1>7. ASSUME Receive PROVE sent' = sent
  BY <1>7 DEF Receive
<1> USE DEF historyVars
<1>8. ASSUME NEW d \in deliveries, Handle(d) PROVE sent' = sent
  BY <1>8 DEF Handle, Ack, AckReplyLost, Drop, Nack, NackRpush, NackLrem, NackFails
<1>9. ASSUME NEW i \in 1..lastId, Age(i) PROVE sent' = sent
  BY <1>9 DEF Age
<1>10. ASSUME NEW k \in ToSet(processing), Deadline(k) PROVE sent' = sent
  BY <1>10 DEF Deadline
<1>11. ASSUME NEW w \in Workers, Worker(w) \/ WorkerFails(w) PROVE sent' = sent
  BY <1>11 DEF Worker, WorkerFails, Peek, ReadClock, Fetch, MoveToMain, MoveToDlq,
              LremHead, EndOfCall
<1>12. ASSUME UNCHANGED vars PROVE sent' = sent
  BY <1>12 DEF vars
<1> QED
  BY <1>4, <1>5, <1>6, <1>7, <1>8, <1>9, <1>10, <1>11, <1>12 DEF Next

-----------------------------------------------------------------------------
(* Counts *)

(* Only a receive counts a receive. *)
LEMMA ReceivesKept ==
    ASSUME [Next]_vars
    PROVE  Receive \/ receives' = receives
<1> USE DEF historyVars
<1>1. ASSUME NEW p \in Payloads, Producer(p) PROVE receives' = receives
  BY <1>1 DEF Producer, Send, SendReplyLost, ForeignAdd, Lpush
<1>2. ASSUME NEW d \in deliveries, Handle(d) PROVE receives' = receives
  BY <1>2 DEF Handle, Ack, AckReplyLost, Drop, Nack, NackRpush, NackLrem, NackFails
<1>3. ASSUME NEW i \in 1..lastId, Age(i) PROVE receives' = receives
  BY <1>3 DEF Age
<1>4. ASSUME NEW k \in ToSet(processing), Deadline(k) PROVE receives' = receives
  BY <1>4 DEF Deadline
<1>5. ASSUME NEW w \in Workers, Worker(w) \/ WorkerFails(w) PROVE receives' = receives
  BY <1>5 DEF Worker, WorkerFails, Peek, ReadClock, Fetch, MoveToMain, MoveToDlq,
              LremHead, EndOfCall
<1>6. ASSUME UNCHANGED vars PROVE receives' = receives
  BY <1>6 DEF vars
<1> QED
  BY <1>1, <1>2, <1>3, <1>4, <1>5, <1>6 DEF Next

(* The number of receives of a payload never falls. *)
LEMMA ReceivesGrow ==
    ASSUME TypeOK, [Next]_vars, NEW p \in Payloads
    PROVE  receives[p] \in Nat /\ receives'[p] \in Nat /\ receives[p] <= receives'[p]
<1>1. receives \in [Payloads -> Nat]
  BY DEF TypeOK
<1>2. CASE receives' = receives
  BY <1>1, <1>2
<1>3. CASE Receive
  <2>1. Last(main).payload \in Payloads
    BY <1>3, AfterReceive DEF Key
  <2>2. receives' = [receives EXCEPT ![Last(main).payload] = @ + 1]
    BY <1>3 DEF Receive
  <2> QED
    BY <1>1, <2>1, <2>2
<1> QED
  BY <1>2, <1>3, ReceivesKept

\* What a task knows it has read from the processing list.
LEMMA TodoFrom ==
    ASSUME TypeOK, TasksOK, [Next]_vars, NEW v \in Workers
    PROVE  ToSet(todo'[v]) \subseteq ToSet(todo[v]) \cup ToSet(processing)
<1> USE DEF taskVars
<1>1. todo \in [Workers -> Seq(Key)]
  BY DEF TypeOK
<1>2. ASSUME NEW p \in Payloads, Producer(p) PROVE todo' = todo
  BY <1>2 DEF Producer, Send, SendReplyLost, ForeignAdd, Lpush
<1>3. ASSUME Receive PROVE todo' = todo
  BY <1>3 DEF Receive
<1>4. ASSUME NEW d \in deliveries, Handle(d) PROVE todo' = todo
  BY <1>4 DEF Handle, Ack, AckReplyLost, Drop, Nack, NackRpush, NackLrem, NackFails
<1>5. ASSUME NEW i \in 1..lastId, Age(i) PROVE todo' = todo
  BY <1>5 DEF Age
<1>6. ASSUME NEW k \in ToSet(processing), Deadline(k) PROVE todo' = todo
  BY <1>6 DEF Deadline
<1>7. ASSUME NEW w \in Workers, Worker(w) \/ WorkerFails(w)
      PROVE  ToSet(todo'[v]) \subseteq ToSet(todo[v]) \cup ToSet(processing)
  <2>1. CASE w # v
    <3>1. todo'[v] = todo[v]
      BY <1>1, <1>7, <2>1 DEF Worker, WorkerFails, Peek, ReadClock, Fetch, MoveToMain,
                              MoveToDlq, LremHead, EndOfCall, Restart
    <3> QED
      BY <3>1
  <2>2. CASE w = v
    <3>1. CASE Restart(w)
      BY <1>1, <2>2, <3>1 DEF Restart, ToSet
    <3>2. CASE Peek(w)
      BY <1>1, <2>2, <3>2, AfterPeek DEF Peek
    <3>3. CASE UNCHANGED todo
      BY <3>3
    <3>4. CASE Fetch(w)
      <4> DEFINE keys == FromDue(LastOf(processing, BatchSize), limit[w])
      <4>1. ToSet(keys) \subseteq ToSet(processing) /\ todo' = [todo EXCEPT ![w] = keys]
        BY <3>4, AfterFetch DEF Fetch
      <4> HIDE DEF keys
      <4> QED
        BY <1>1, <2>2, <4>1
    <3>5. CASE LremHead(w)
      <4> DEFINE keys == FromDue(Tail(todo[w]), limit[w])
      <4>1. todo[w] # <<>>
        BY <3>5 DEF LremHead, TasksOK, TaskOK
      <4>2. ToSet(keys) \subseteq ToSet(todo[w]) /\ todo' = [todo EXCEPT ![w] = keys]
        BY <3>5, <4>1, AfterLremHead DEF LremHead
      <4> HIDE DEF keys
      <4> QED
        BY <1>1, <2>2, <4>2
    <3> QED
      BY <1>7, <3>1, <3>2, <3>3, <3>4, <3>5
         DEF Worker, WorkerFails, ReadClock, MoveToMain, MoveToDlq, EndOfCall
  <2> QED
    BY <2>1, <2>2
<1>8. ASSUME UNCHANGED vars PROVE todo' = todo
  BY <1>8 DEF vars
<1> QED
  BY <1>2, <1>3, <1>4, <1>5, <1>6, <1>7, <1>8 DEF Next

(* CountsOK holds after construction. *)
LEMMA CountsInit == Init => CountsOK
<1> SUFFICES ASSUME Init PROVE CountsOK
  OBVIOUS
<1>1. ToSet(main) = {} /\ ToSet(processing) = {} /\ \A w \in Workers : ToSet(todo[w]) = {}
  BY DEF Init, ToSet
<1>2. deliveries = {}
  BY DEF Init
<1> QED
  BY <1>1, <1>2 DEF CountsOK, Listed

\* A count in a key is a count of receives that took place.
LEMMA CountsStep ==
    ASSUME TypeOK, TypeOK', TasksOK, ListStep, CountsOK, [Next]_vars
    PROVE  CountsOK'
<1>1. /\ ToSet(main) \subseteq Key /\ ToSet(processing) \subseteq Key
      /\ \A w \in Workers : ToSet(todo[w]) \subseteq Key
      /\ \A d \in deliveries : d.key \in Key
  BY AllKeys DEF TypeOK, Delivery
<1>2. ASSUME NEW k \in Key
      PROVE  /\ k.num_receives \in Nat
             /\ k.num_receives <= receives[k.payload] => k.num_receives <= receives'[k.payload]
             /\ NumReceives(k) <= receives[k.payload] => NumReceives(k) <= receives'[k.payload]
  <2>1. k.payload \in Payloads /\ k.num_receives \in Nat
    BY DEF Key
  <2> QED
    BY <2>1, ReceivesGrow DEF NumReceives
<1> DEFINE Bounded(k) == ~MaxRetriesReached(k.num_receives) \/ k.num_receives = 0
           InMain(k) == k.num_receives <= receives'[k.payload] /\ Bounded(k)
           InProcessing(k) == NumReceives(k) <= receives'[k.payload] /\ Bounded(k)
<1>3. (\A k \in ToSet(main) : InMain(k)) /\ (\A k \in ToSet(processing) : InProcessing(k))
  BY <1>1, <1>2 DEF CountsOK, Listed
<1>4. Receive => Last(main) \in ToSet(main) /\ InProcessing(Last(main))
  <2>1. SUFFICES ASSUME Receive
                 PROVE  Last(main) \in ToSet(main) /\ InProcessing(Last(main))
    OBVIOUS
  <2>2. Last(main) \in Key /\ Last(main) \in ToSet(main)
    BY <2>1, AfterReceive
  <2>3. Last(main).payload \in Payloads /\ Last(main).num_receives \in Nat
    BY <2>2 DEF Key
  <2>4. receives'[Last(main).payload] = receives[Last(main).payload] + 1
    BY <2>1, <2>3 DEF Receive, TypeOK
  <2>5. receives[Last(main).payload] \in Nat
    BY <2>3 DEF TypeOK
  <2> QED
    BY <1>3, <2>2, <2>3, <2>4, <2>5 DEF CountsOK, NumReceives
<1>5. (\A k \in ToSet(main') : InMain(k)) /\ (\A k \in ToSet(processing') : InProcessing(k))
  <2>1. ASSUME NEW p \in Payloads, Lpush(p)
        PROVE  ToSet(main') = ToSet(main) \cup {NewKey(p, 0)} /\ InMain(NewKey(p, 0))
    <3>1. NewKey(p, 0).num_receives = 0 /\ NewKey(p, 0).payload = p
      BY KeyMade
    <3>2. 0 <= receives'[p]
      <4>1. receives'[p] \in Nat
        BY ReceivesGrow
      <4> QED
        BY <4>1
    <3>3. ToSet(main') = ToSet(main) \cup {NewKey(p, 0)}
      BY <2>1, AfterLpush
    <3> QED
      BY <3>1, <3>2, <3>3
  <2>2. ASSUME NEW w \in Workers, MoveToMain(w),
               NEW n, n = NewKey(Head(todo[w]).payload, NumReceives(Head(todo[w])))
        PROVE  ToSet(main') = ToSet(main) \cup {n} /\ InMain(n)
    <3>1. /\ todo[w] # <<>>
          /\ n.num_receives = NumReceives(Head(todo[w]))
          /\ n.payload = Head(todo[w]).payload
          /\ ToSet(main') = ToSet(main) \cup {n}
      BY <2>2, AfterMoveToMain
    <3>2. Head(todo[w]) \in Key /\ NumReceives(Head(todo[w])) <= receives[Head(todo[w]).payload]
      BY <3>1, AtWork DEF CountsOK
    <3>3. ~MaxRetriesReached(NumReceives(Head(todo[w])))
      BY <2>2 DEF MoveToMain
    <3> QED
      BY <1>2, <3>1, <3>2, <3>3
  <2> HIDE DEF InMain, InProcessing
  <2>3. CASE \E p \in Payloads : Lpush(p)
    BY <1>3, <2>1, <2>3, AfterLpush
  <2>4. CASE Receive
    BY <1>3, <1>4, <2>4, AfterReceive
  <2>5. CASE \E k \in Key : Lrem(k) /\ UNCHANGED main
    BY <1>3, <2>5, AfterLrem
  <2>6. CASE \E w \in Workers : MoveToMain(w)
    BY <1>3, <2>2, <2>6, AfterMoveToMain
  <2>7. CASE UNCHANGED <<main, processing>>
    BY <1>3, <2>7
  <2> QED
    BY <2>3, <2>4, <2>5, <2>6, <2>7 DEF ListStep
<1>6. \A w \in Workers : \A k \in ToSet(todo'[w]) : NumReceives(k) <= receives'[k.payload]
  BY <1>1, <1>2, TodoFrom DEF CountsOK
<1>7. \A d \in deliveries' : NumReceives(d.key) <= receives'[d.key.payload]
  <2>1. \A d \in deliveries : NumReceives(d.key) <= receives'[d.key.payload]
    BY <1>1, <1>2 DEF CountsOK
  <2> QED
    BY <1>4, <2>1, DeliveryFrom, EveryStepIsDeliveryStep
<1>8. \A k \in Listed' : Bounded(k)
  BY <1>5 DEF Listed
<1> QED
  BY <1>5, <1>6, <1>7, <1>8 DEF CountsOK

(* DeadLetterNotEarly holds after construction. *)
LEMMA DeadLetterInit == Init => DeadLetterNotEarly
  BY DEF Init, DeadLetterNotEarly

(* A key that is dead-lettered by its count has been received that often. *)
LEMMA DeadLetterStep ==
    ASSUME TypeOK, CountsOK, DeadLetterNotEarly, [Next]_vars
    PROVE  DeadLetterNotEarly'
<1> USE DEF listVars
<1>1. MaxReceives \in Nat /\ dlq \subseteq Payloads
  BY FallbackAssumption DEF TypeOK
<1>2. \A p \in dlq : receives'[p] >= MaxReceives
  <2>1. \A p \in dlq : /\ receives[p] \in Nat /\ receives'[p] \in Nat
                       /\ receives[p] <= receives'[p] /\ receives[p] >= MaxReceives
    BY <1>1, ReceivesGrow DEF DeadLetterNotEarly
  <2> QED
    BY <1>1, <2>1
<1>3. ASSUME NEW k \in Key, MaxRetriesReached(NumReceives(k)),
             NumReceives(k) <= receives[k.payload], dlq' = dlq \cup {k.payload}
      PROVE  DeadLetterNotEarly'
  <2>1. k.payload \in Payloads /\ NumReceives(k) \in Nat
    BY DEF Key, NumReceives
  <2>2. receives'[k.payload] >= MaxReceives
    BY <1>1, <1>3, <2>1, ReceivesGrow DEF MaxRetriesReached
  <2> QED
    BY <1>2, <1>3, <2>2 DEF DeadLetterNotEarly
<1>4. ASSUME dlq' = dlq PROVE DeadLetterNotEarly'
  BY <1>2, <1>4 DEF DeadLetterNotEarly
<1>5. ASSUME NEW p \in Payloads, Producer(p) PROVE dlq' = dlq
  BY <1>5 DEF Producer, Send, SendReplyLost, ForeignAdd, Lpush
<1>6. ASSUME Receive PROVE dlq' = dlq
  BY <1>6 DEF Receive
<1>7. ASSUME NEW d \in deliveries, Handle(d) PROVE DeadLetterNotEarly'
  <2>1. CASE NackRpush(d)
    <3>1. d.key \in Key /\ NumReceives(d.key) <= receives[d.key.payload]
      BY DEF TypeOK, Delivery, CountsOK
    <3> QED
      BY <1>3, <2>1, <3>1 DEF NackRpush
  <2>2. CASE ~NackRpush(d)
    BY <1>4, <1>7, <2>2 DEF Handle, Ack, AckReplyLost, Drop, Nack, NackLrem, NackFails
  <2> QED
    BY <2>1, <2>2
<1>8. ASSUME NEW i \in 1..lastId, Age(i) PROVE dlq' = dlq
  BY <1>8 DEF Age
<1>9. ASSUME NEW k \in ToSet(processing), Deadline(k) PROVE dlq' = dlq
  BY <1>9 DEF Deadline
<1>10. ASSUME NEW w \in Workers, Worker(w) \/ WorkerFails(w) PROVE DeadLetterNotEarly'
  <2>1. CASE MoveToDlq(w)
    <3>1. todo[w] # <<>>
      BY <2>1 DEF MoveToDlq
    <3>2. Head(todo[w]) \in Key /\ NumReceives(Head(todo[w])) <= receives[Head(todo[w]).payload]
      BY <3>1, AtWork DEF CountsOK
    <3> QED
      BY <1>3, <2>1, <3>2 DEF MoveToDlq
  <2>2. CASE ~MoveToDlq(w)
    BY <1>4, <1>10, <2>2 DEF Worker, WorkerFails, Peek, ReadClock, Fetch, MoveToMain,
                             LremHead, EndOfCall
  <2> QED
    BY <2>1, <2>2
<1>11. ASSUME UNCHANGED vars PROVE dlq' = dlq
  BY <1>11 DEF vars
<1> QED
  BY <1>4, <1>5, <1>6, <1>7, <1>8, <1>9, <1>10, <1>11 DEF Next

(* ReceivesBounded holds after construction. *)
LEMMA BoundedInit == Init => ReceivesBounded
  BY DEF Init, ReceivesBounded

(* A receive of a key stays within what its count allows. *)
LEMMA BoundedStep ==
    ASSUME TypeOK, CountsOK, ReceivesBounded, [Next]_vars
    PROVE  ReceivesBounded'
<1>1. SUFFICES ASSUME UseDlq, NEW d \in deliveries'
               PROVE  NumReceives(d.key) <= MaxReceives \/ d.key.num_receives = 0
  BY DEF ReceivesBounded
<1>2. CASE Receive /\ d.key = Last(main)
  <2>1. Last(main) \in Key /\ Last(main) \in Listed
    BY <1>2, AfterReceive DEF Listed
  <2>2. Last(main).num_receives \in Nat
    BY <2>1 DEF Key
  <2>3. ~MaxRetriesReached(Last(main).num_receives) \/ Last(main).num_receives = 0
    BY <2>1 DEF CountsOK
  <2> QED
    BY <1>1, <1>2, <2>2, <2>3, FallbackAssumption DEF MaxRetriesReached, NumReceives
<1> QED
  BY <1>1, <1>2, DeliveryFrom, EveryStepIsDeliveryStep DEF ReceivesBounded

-----------------------------------------------------------------------------
(* The theorems *)

(* FallbackInv is inductive. *)
LEMMA FallbackInductive == FallbackInv /\ [Next]_vars => FallbackInv'
<1> SUFFICES ASSUME FallbackInv, [Next]_vars PROVE FallbackInv'
  OBVIOUS
<1>1. /\ TypeOK /\ KeysOK /\ TasksOK /\ DeliveriesOK /\ Moved /\ NoLoss /\ CountsOK
      /\ DeadLetterNotEarly /\ ReceivesBounded
  BY DEF FallbackInv
<1>2. TypeOK'
  BY <1>1, TypeStep
<1>3. ListStep
  BY <1>1, EveryStepIsListStep
<1>4. KeysOK'
  BY <1>1, <1>2, <1>3, KeysStep
<1>5. TasksOK'
  BY <1>1, <1>2, <1>3, <1>4, TasksStep
<1>6. DeliveriesOK'
  BY <1>1, <1>2, <1>3, <1>4, DeliveriesStep
<1>7. Moved' /\ NoLoss'
  BY <1>1, <1>3, MovedStep, NoLossStep
<1>8. CountsOK'
  BY <1>1, <1>2, <1>3, CountsStep
<1>9. DeadLetterNotEarly' /\ ReceivesBounded'
  BY <1>1, DeadLetterStep, BoundedStep
<1> QED
  BY <1>2, <1>4, <1>5, <1>6, <1>7, <1>8, <1>9 DEF FallbackInv

\* The inductive invariant of the queue on lists: what consumers and background
\* tasks remember between two commands fits what the lists hold, whatever the
\* others have done to them in between.
THEOREM FallbackInvariant == Spec => []FallbackInv
<1>1. Init => FallbackInv
  BY TypeInit, KeysInit, TasksInit, DeliveriesInit, MovedInit, NoLossInit, CountsInit,
     DeadLetterInit, BoundedInit DEF FallbackInv
<1> QED
  BY <1>1, FallbackInductive, PTL DEF Spec

\* No message that send_raw accepted is lost by reenqueue_timed_out_messages, by
\* an ack or by a nack, with any number of processes running them, failing and
\* crashing in between.
THEOREM NoMessageLost == Spec => []NoLoss
<1>1. FallbackInv => NoLoss
  BY DEF FallbackInv
<1> QED
  BY <1>1, FallbackInvariant, PTL

\* No Delivery goes beyond max_receives.
THEOREM AttemptsBounded == Spec => []ReceivesBounded
<1>1. FallbackInv => ReceivesBounded
  BY DEF FallbackInv
<1> QED
  BY <1>1, FallbackInvariant, PTL

\* A message gets on the dead letter list only after max_receives receives.
THEOREM NoEarlyDeadLetter == Spec => []DeadLetterNotEarly
<1>1. FallbackInv => DeadLetterNotEarly
  BY DEF FallbackInv
<1> QED
  BY <1>1, FallbackInvariant, PTL

-----------------------------------------------------------------------------
(* Order *)

FreshKey(k) == k.num_receives = 0

\* The fresh keys of a list, the newest first.
NewestFirst(l) ==
    \A i, j \in 1..Len(l) :
        i < j /\ FreshKey(l[i]) /\ FreshKey(l[j]) => l[i].id > l[j].id

\* The keys that have left the main list, as far as anyone still knows them.
Out == ToSet(processing) \cup {d.key : d \in deliveries}

FreshSetwise ==
    /\ NewestFirst(main)
    /\ \A k \in ToSet(main), f \in Out : FreshKey(k) /\ FreshKey(f) => k.id > f.id

(* FreshInOrder speaks of the members of the lists and of the order of the main one. *)
LEMMA FreshAsSets == TypeOK => (FreshInOrder <=> FreshSetwise)
<1> SUFFICES ASSUME TypeOK PROVE FreshInOrder <=> FreshSetwise
  OBVIOUS
<1>1. main \in Seq(Key)
  BY DEF TypeOK
<1>2. DOMAIN main = 1..Len(main)
  BY <1>1, Places
<1> QED
  BY <1>2 DEF FreshInOrder, FreshSetwise, NewestFirst, Out, FreshKey

(* LPUSH of the newest key keeps a list newest first. *)
LEMMA NewestFirstCons ==
    ASSUME NEW l \in Seq(Key), NEW k \in Key, FreshKey(k), NewestFirst(l),
           \A f \in ToSet(l) : k.id > f.id, NEW t, t = <<k>> \o l
    PROVE  NewestFirst(t)
<1>1. /\ Len(l) \in Nat
      /\ Len(t) = Len(l) + 1
      /\ t[1] = k
      /\ \A i \in 2..Len(l) + 1 : i - 1 \in 1..Len(l) /\ t[i] = l[i - 1]
  BY ConsPlaces, Places
<1>2. \A i \in 1..Len(l) : k.id > l[i].id
  BY Members
<1>3. SUFFICES ASSUME NEW i \in 1..Len(t), NEW j \in 1..Len(t), i < j,
                      FreshKey(t[i]), FreshKey(t[j])
               PROVE  t[i].id > t[j].id
  BY DEF NewestFirst
<1>4. j \in 2..Len(l) + 1 /\ (i = 1 \/ i \in 2..Len(l) + 1)
  BY <1>1, <1>3
<1>5. CASE i = 1
  BY <1>1, <1>2, <1>4, <1>5
<1>6. CASE i \in 2..Len(l) + 1
  <2>1. i - 1 < j - 1 /\ i - 1 \in 1..Len(l) /\ j - 1 \in 1..Len(l)
    BY <1>1, <1>3, <1>4, <1>6
  <2> QED
    BY <1>1, <1>3, <1>4, <1>6, <2>1 DEF NewestFirst
<1> QED
  BY <1>4, <1>5, <1>6

(* RPUSH of a key that was received before keeps a list newest first. *)
LEMMA NewestFirstAppend ==
    ASSUME NEW l \in Seq(Key), NEW k \in Key, ~FreshKey(k), NewestFirst(l),
           NEW t, t = Append(l, k)
    PROVE  NewestFirst(t)
<1>1. /\ Len(l) \in Nat
      /\ Len(t) = Len(l) + 1
      /\ t[Len(l) + 1] = k
      /\ \A i \in 1..Len(l) : t[i] = l[i]
  BY AppendPlaces, Places
<1>2. SUFFICES ASSUME NEW i \in 1..Len(t), NEW j \in 1..Len(t), i < j,
                      FreshKey(t[i]), FreshKey(t[j])
               PROVE  t[i].id > t[j].id
  BY DEF NewestFirst
<1>3. j # Len(l) + 1
  BY <1>1, <1>2
<1>4. j \in 1..Len(l) /\ i \in 1..Len(l)
  BY <1>1, <1>2, <1>3
<1> QED
  BY <1>1, <1>2, <1>4 DEF NewestFirst

\* What is taken from the tail is older than every fresh key it leaves.
LEMMA NewestFirstFront ==
    ASSUME NEW l \in Seq(Key), l # <<>>, NewestFirst(l), NEW t, t = Front(l)
    PROVE  /\ NewestFirst(t)
           /\ \A k \in ToSet(t) : FreshKey(k) /\ FreshKey(Last(l)) => k.id > Last(l).id
<1>1. /\ t \in Seq(Key)
      /\ Len(l) \in Nat \ {0}
      /\ Len(t) = Len(l) - 1
      /\ \A i \in 1..Len(t) : t[i] = l[i]
      /\ Last(l) = l[Len(l)]
  BY FrontPlaces
<1>2. Len(l) \in 1..Len(l) /\ \A i \in 1..Len(t) : i \in 1..Len(l) /\ i < Len(l)
  BY <1>1
<1>3. NewestFirst(t)
  BY <1>1, <1>2 DEF NewestFirst
<1>4. ASSUME NEW k \in ToSet(t), FreshKey(k), FreshKey(Last(l)) PROVE k.id > Last(l).id
  <2>1. PICK i \in 1..Len(t) : t[i] = k
    BY <1>1, Members
  <2> QED
    BY <1>1, <1>2, <1>4, <2>1 DEF NewestFirst
<1> QED
  BY <1>3, <1>4

(* Every step keeps first receives in the order of the sends. *)
LEMMA OrderStep ==
    FallbackInv /\ FallbackInv' /\ FreshInOrder /\ [Next]_vars => FreshInOrder'
<1> SUFFICES ASSUME FallbackInv, FallbackInv', FreshInOrder, [Next]_vars
             PROVE  FreshInOrder'
  OBVIOUS
<1>1. TypeOK /\ TypeOK' /\ KeysOK /\ TasksOK /\ DeliveriesOK /\ Moved
  BY DEF FallbackInv
<1>2. ListStep /\ DeliveryStep
  BY <1>1, EveryStepIsListStep, EveryStepIsDeliveryStep
<1>3. FreshSetwise
  BY <1>1, FreshAsSets
<1>4. SUFFICES FreshSetwise'
  <2>1. TypeOK' => (FreshInOrder' <=> FreshSetwise')
    BY FreshAsSets, PTL
  <2> QED
    BY <1>1, <2>1
<1>5. /\ main \in Seq(Key) /\ processing \in Seq(Key) /\ lastId \in Nat
      /\ ToSet(main) \subseteq Key /\ ToSet(processing) \subseteq Key
      /\ Out \subseteq Key
  BY <1>1, AllKeys DEF TypeOK, Delivery, Out
<1>6. \A k \in ToSet(main) \cup Out : k.id \in Nat /\ k.id <= lastId
  BY <1>1, <1>5 DEF Out, KeysOK, Listed, DeliveriesOK, Remembers, Key
<1>7. ASSUME ToSet(processing') \subseteq ToSet(processing), ~Receive
      PROVE  Out' \subseteq Out
  BY <1>1, <1>2, <1>7, DeliveryFrom DEF Out
<1>8. ASSUME NEW p \in Payloads, Lpush(p), ~Receive PROVE FreshSetwise'
  <2> DEFINE n == NewKey(p, 0)
  <2>1. n \in Key /\ n.id = lastId + 1 /\ FreshKey(n)
    BY <1>1, KeyMade DEF FreshKey
  <2>2. /\ main' = <<n>> \o main
        /\ ToSet(main') = ToSet(main) \cup {n}
        /\ processing' = processing
    BY <1>1, <1>8, AfterLpush
  <2> HIDE DEF n
  <2>3. \A k \in ToSet(main) \cup Out : n.id > k.id
    BY <1>5, <1>6, <2>1
  <2>4. NewestFirst(main')
    BY <1>3, <1>5, <2>1, <2>2, <2>3, NewestFirstCons DEF FreshSetwise
  <2>5. Out' \subseteq Out
    BY <1>7, <1>8, <2>2
  <2> QED
    BY <1>3, <2>2, <2>3, <2>4, <2>5 DEF FreshSetwise
<1>9. CASE Receive
  <2> DEFINE l == Last(main)
  <2>1. /\ main # <<>>
        /\ main' = Front(main)
        /\ ToSet(main) = ToSet(main') \cup {l}
        /\ ToSet(processing') = ToSet(processing) \cup {l}
    BY <1>1, <1>9, AfterReceive
  <2>2. NewestFirst(main') /\ \A k \in ToSet(main') : FreshKey(k) /\ FreshKey(l) => k.id > l.id
    BY <1>3, <1>5, <2>1, NewestFirstFront DEF FreshSetwise
  <2>3. Out' \subseteq Out \cup {l}
    BY <1>1, <1>2, <2>1, DeliveryFrom DEF Out
  <2> HIDE DEF l
  <2> QED
    BY <1>3, <2>1, <2>2, <2>3 DEF FreshSetwise
<1>10. ASSUME NEW k \in Key, Lrem(k), UNCHANGED main, ~Receive PROVE FreshSetwise'
  <2>1. ToSet(processing') \subseteq ToSet(processing)
    BY <1>1, <1>10, AfterLrem
  <2>2. Out' \subseteq Out
    BY <1>7, <1>10, <2>1
  <2> QED
    BY <1>3, <1>10, <2>2 DEF FreshSetwise
<1>11. ASSUME NEW w \in Workers, MoveToMain(w), ~Receive PROVE FreshSetwise'
  <2> DEFINE n == NewKey(Head(todo[w]).payload, NumReceives(Head(todo[w])))
  <2>1. /\ n \in Key
        /\ n.num_receives = NumReceives(Head(todo[w]))
        /\ main' = Append(main, n)
        /\ ToSet(main') = ToSet(main) \cup {n}
        /\ processing' = processing
        /\ todo[w] # <<>>
    BY <1>1, <1>11, AfterMoveToMain
  <2>2. Head(todo[w]).num_receives \in Nat
    BY <1>1, <2>1, AtWork DEF Key
  <2> HIDE DEF n
  <2>3. ~FreshKey(n)
    BY <2>1, <2>2 DEF FreshKey, NumReceives
  <2>4. NewestFirst(main')
    BY <1>3, <1>5, <2>1, <2>3, NewestFirstAppend DEF FreshSetwise
  <2>5. Out' \subseteq Out
    BY <1>7, <1>11, <2>1
  <2> QED
    BY <1>3, <2>1, <2>3, <2>4, <2>5 DEF FreshSetwise
<1>12. CASE UNCHANGED <<main, processing>> /\ ~Receive
  <2>1. Out' \subseteq Out
    BY <1>7, <1>12
  <2> QED
    BY <1>3, <1>12, <2>1 DEF FreshSetwise
<1> QED
  BY <1>2, <1>8, <1>9, <1>10, <1>11, <1>12 DEF ListStep

\* First receives are in the order of the sends: BRPOPLPUSH takes from the tail
\* what LPUSH put at the head, and what the tasks RPUSH is not fresh.
THEOREM FirstReceivesInOrder == Spec => []FreshInOrder
<1>1. Init => FreshInOrder
  <2>1. Init => TypeOK /\ FreshSetwise
    BY TypeInit DEF Init, FreshSetwise, NewestFirst, Out, ToSet
  <2> QED
    BY <2>1, FreshAsSets
<1> QED
  BY <1>1, OrderStep, FallbackInvariant, PTL DEF Spec

-----------------------------------------------------------------------------
(* Refinement *)

Held == {k.payload : k \in Listed}

(* LREM takes at most the payload of the removed key out of what the lists hold. *)
LEMMA HeldAfterLrem ==
    ASSUME TypeOK, NEW k \in Key, Lrem(k), UNCHANGED main
    PROVE  Held' \subseteq Held /\ Held \subseteq Held' \cup {k.payload}
<1>1. /\ ToSet(processing') \subseteq ToSet(processing)
      /\ ToSet(processing) \subseteq ToSet(processing') \cup {k}
  BY AfterLrem
<1> QED
  BY <1>1 DEF Held, Listed

\* Every step of the two lists is a step of the at-least-once queue, or changes
\* nothing of it.
LEMMA StepImplements ==
    FallbackInv /\ FallbackInv' /\ [Next]_vars => [Abstract!Next]_(Abstract!vars)
<1> SUFFICES ASSUME FallbackInv, FallbackInv', [Next]_vars
             PROVE  Abstract!Next \/ UNCHANGED <<sent, Held, receives, acked, dlq>>
  BY DEF Abstract!vars, Held
<1>1. /\ TypeOK /\ KeysOK /\ TasksOK /\ DeliveriesOK /\ Moved /\ CountsOK
      /\ TypeOK'
  BY DEF FallbackInv
<1>2. /\ Held \subseteq Payloads
      /\ Held' \subseteq Payloads
      /\ receives \in [Payloads -> Nat]
      /\ receives' \in [Payloads -> Nat]
      /\ MaxReceives \in Nat
  <2>1. /\ ToSet(main) \subseteq Key /\ ToSet(processing) \subseteq Key
        /\ ToSet(main') \subseteq Key /\ ToSet(processing') \subseteq Key
    BY <1>1, Members DEF TypeOK
  <2>2. Held \subseteq Payloads /\ Held' \subseteq Payloads
    BY <2>1 DEF Held, Listed, Key
  <2> QED
    BY <1>1, <2>2, FallbackAssumption DEF TypeOK
<1> DEFINE Goal == Abstract!Next \/ UNCHANGED <<sent, Held, receives, acked, dlq>>
<1>3. ASSUME NEW k \in Key, NumReceives(k) <= receives[k.payload]
      PROVE  k.payload \in Payloads /\ receives[k.payload] > 0
  <2>1. k.payload \in Payloads /\ k.num_receives \in Nat
    BY DEF Key
  <2>2. receives[k.payload] \in Nat
    BY <1>2, <2>1
  <2> QED
    BY <1>3, <2>1, <2>2 DEF NumReceives
<1>4. \A d \in deliveries : d.key \in Key /\ NumReceives(d.key) <= receives[d.key.payload]
  BY <1>1 DEF TypeOK, Delivery, CountsOK
<1>5. \A w \in Workers : todo[w] # <<>> =>
         Head(todo[w]) \in Key /\ NumReceives(Head(todo[w])) <= receives[Head(todo[w]).payload]
  BY <1>1, AtWork DEF CountsOK
<1>6. ASSUME NEW p \in Payloads, Lpush(p), sent' \in {sent, sent \cup {p}} PROVE Abstract!Send
  <2>1. ToSet(main') = ToSet(main) \cup {NewKey(p, 0)} /\ processing' = processing
        /\ NewKey(p, 0).payload = p
    BY <1>1, <1>6, AfterLpush, KeyMade
  <2>2. Held' = Held \cup {p}
    BY <2>1 DEF Held, Listed
  <2>3. UNCHANGED <<receives, acked, dlq>>
    BY <1>6 DEF Lpush
  <2>4. /\ Held' \in SUBSET Payloads
        /\ Held \subseteq Held'
        /\ sent \subseteq sent'
        /\ sent' \subseteq sent \cup Held' \cup acked \cup dlq
    BY <1>2, <1>6, <2>2
  <2> QED
    BY <2>3, <2>4 DEF Abstract!Send, Held
<1>7. ASSUME NEW p \in Payloads, Producer(p) PROVE Goal
  <2>1. Lpush(p) /\ sent' \in {sent, sent \cup {p}}
    BY <1>7 DEF Producer, Send, SendReplyLost, ForeignAdd
  <2> QED
    BY <1>6, <2>1 DEF Abstract!Next
<1>8. CASE Receive
  <2> DEFINE k == Last(main)
  <2>1. /\ k \in Key
        /\ ToSet(main) = ToSet(main') \cup {k}
        /\ ToSet(processing') = ToSet(processing) \cup {k}
    BY <1>1, <1>8, AfterReceive
  <2>2. /\ receives' = [receives EXCEPT ![k.payload] = @ + 1]
        /\ UNCHANGED <<sent, acked, dlq>>
    BY <1>8 DEF Receive
  <2> HIDE DEF k
  <2>3. Held' = Held /\ k.payload \in Held /\ k.payload \in Payloads
    BY <2>1 DEF Held, Listed, Key
  <2>4. /\ \A m \in Payloads : receives'[m] >= receives[m]
        /\ \A m \in Payloads \ Held : receives'[m] = receives[m]
    BY <1>2, <2>2, <2>3
  <2>5. Abstract!HandOut
    BY <1>2, <2>2, <2>3, <2>4 DEF Abstract!HandOut, Held
  <2> QED
    BY <2>5 DEF Abstract!Next
<1>10. ASSUME NEW k \in Key, Lrem(k), UNCHANGED <<main, sent, receives, acked, dlq>>, Replaced(k)
       PROVE  Abstract!Forget
  <2>1. Held' \subseteq Held /\ Held \subseteq Held' \cup {k.payload}
    BY <1>1, <1>10, HeldAfterLrem
  <2>2. CASE k.payload \in acked \cup dlq
    <3>1. Held \subseteq Held' \cup acked \cup dlq
      BY <2>1, <2>2
    <3> QED
      BY <1>10, <2>1, <3>1 DEF Abstract!Forget, Held
  <2>3. ASSUME NEW f \in Listed, f.payload = k.payload, f.id > k.id PROVE Abstract!Forget
    <3>1. f.id \in Nat /\ k.id \in Nat
      BY <1>1, AllKeys DEF Listed, Key
    <3>2. f # k
      BY <2>3, <3>1
    <3>3. f \in ToSet(main') \cup ToSet(processing')
      BY <1>1, <1>10, <3>2, AfterLrem DEF Listed
    <3>4. k.payload \in Held'
      BY <2>3, <3>3 DEF Held, Listed
    <3>5. Held \subseteq Held' \cup acked \cup dlq
      BY <2>1, <3>4
    <3> QED
      BY <1>10, <2>1, <3>5 DEF Abstract!Forget, Held
  <2> QED
    BY <1>10, <2>2, <2>3 DEF Replaced
<1>11. ASSUME NEW d \in deliveries, Handle(d) PROVE Goal
  <2>1. d.key \in Key /\ d.key.payload \in Payloads /\ receives[d.key.payload] > 0
        /\ NumReceives(d.key) <= receives[d.key.payload]
    BY <1>3, <1>4
  <2>2. CASE Ack(d) \/ AckReplyLost(d)
    <3>1. /\ Lrem(d.key) /\ acked' = acked \cup {d.key.payload}
          /\ UNCHANGED <<main, sent, receives, dlq>>
      BY <2>2 DEF Ack, AckReplyLost
    <3>2. Held' \subseteq Held /\ Held \subseteq Held' \cup {d.key.payload}
      BY <1>1, <2>1, <3>1, HeldAfterLrem
    <3>3. Held' \in {Held, Held \ {d.key.payload}}
      BY <3>2
    <3>4. Abstract!Ack(d.key.payload)
      BY <2>1, <3>1, <3>3 DEF Abstract!Ack, Held
    <3> QED
      BY <2>1, <3>4 DEF Abstract!Next
  <2>3. CASE NackRpush(d)
    <3>1. /\ dlq' = dlq \cup {d.key.payload} /\ UNCHANGED <<main, processing, sent, receives, acked>>
          /\ MaxRetriesReached(NumReceives(d.key))
      BY <2>3 DEF NackRpush, historyVars
    <3>2. receives[d.key.payload] >= MaxReceives
      <4>1. NumReceives(d.key) \in Nat /\ receives[d.key.payload] \in Nat
        BY <1>2, <2>1 DEF Key, NumReceives
      <4> QED
        BY <1>2, <2>1, <3>1, <4>1 DEF MaxRetriesReached
    <3>3. Held' = Held
      BY <3>1 DEF Held, Listed
    <3>4. Abstract!GiveUp(d.key.payload)
      BY <2>1, <3>1, <3>2, <3>3 DEF Abstract!GiveUp, Held
    <3> QED
      BY <2>1, <3>4 DEF Abstract!Next
  <2>4. CASE Drop(d) \/ Nack(d)
    BY <2>4 DEF Drop, Nack, Held, Listed, listVars, historyVars
  <2>5. CASE (NackLrem(d) \/ NackFails(d)) /\ Lrem(d.key)
    <3>1. d.key.payload \in dlq /\ UNCHANGED <<main, sent, receives, acked, dlq>>
      BY <1>1, <2>5 DEF NackLrem, NackFails, DeliveriesOK, historyVars
    <3>2. Abstract!Forget
      BY <1>10, <2>1, <2>5, <3>1 DEF Replaced
    <3> QED
      BY <3>2 DEF Abstract!Next
  <2>6. CASE NackFails(d) /\ UNCHANGED processing
    BY <2>6 DEF NackFails, Held, Listed, historyVars
  <2> QED
    BY <1>11, <2>2, <2>3, <2>4, <2>5, <2>6 DEF Handle, NackLrem, NackFails
<1>12. ASSUME NEW i \in 1..lastId, Age(i) PROVE Goal
  BY <1>12 DEF Age, Held, Listed, listVars, historyVars
<1>13. ASSUME NEW k \in ToSet(processing), Deadline(k) PROVE Goal
  BY <1>13 DEF Deadline, Held, Listed, listVars
<1>14. ASSUME NEW w \in Workers, Worker(w) \/ WorkerFails(w) PROVE Goal
  <2>1. CASE MoveToMain(w)
    <3>0. PICK k : k = Head(todo[w])
      OBVIOUS
    <3> DEFINE n == NewKey(k.payload, NumReceives(k))
    <3>1. /\ ToSet(main') = ToSet(main) \cup {n} /\ processing' = processing
          /\ n.payload = k.payload
          /\ todo[w] # <<>>
      BY <1>1, <2>1, <3>0, AfterMoveToMain
    <3>2. k.payload \in Payloads /\ receives[k.payload] > 0
      BY <1>3, <1>5, <3>0, <3>1
    <3>3. UNCHANGED <<sent, receives, acked, dlq>>
      BY <2>1 DEF MoveToMain, historyVars
    <3> HIDE DEF n
    <3>4. Held' = Held \cup {k.payload}
      BY <3>1 DEF Held, Listed
    <3>5. Abstract!Requeue(k.payload)
      BY <3>2, <3>3, <3>4 DEF Abstract!Requeue, Held
    <3> QED
      BY <3>2, <3>5 DEF Abstract!Next
  <2>2. CASE MoveToDlq(w)
    <3>0. PICK k : k = Head(todo[w])
      OBVIOUS
    <3>1. /\ dlq' = dlq \cup {k.payload} /\ UNCHANGED <<main, processing, sent, receives, acked>>
          /\ MaxRetriesReached(NumReceives(k))
          /\ todo[w] # <<>>
      BY <2>2, <3>0 DEF MoveToDlq, historyVars
    <3>2. k \in Key /\ NumReceives(k) <= receives[k.payload]
      BY <1>5, <3>0, <3>1
    <3>3. k.payload \in Payloads /\ receives[k.payload] > 0
      BY <1>3, <3>2
    <3>4. receives[k.payload] >= MaxReceives
      <4>1. NumReceives(k) \in Nat /\ receives[k.payload] \in Nat
        BY <1>2, <3>2, <3>3 DEF Key, NumReceives
      <4> QED
        BY <1>2, <3>1, <3>2, <4>1 DEF MaxRetriesReached
    <3>5. Held' = Held
      BY <3>1 DEF Held, Listed
    <3>6. Abstract!GiveUp(k.payload)
      BY <3>1, <3>3, <3>4, <3>5 DEF Abstract!GiveUp, Held
    <3> QED
      BY <3>3, <3>6 DEF Abstract!Next
  <2>3. CASE LremHead(w)
    <3> DEFINE k == Head(todo[w])
    <3>1. k \in Key
      BY <1>1, <1>5, <2>3 DEF LremHead, TasksOK, TaskOK
    <3>2. Lrem(k) /\ UNCHANGED <<main, sent, receives, acked, dlq>>
      BY <2>3 DEF LremHead, historyVars
    <3>3. Replaced(k)
      BY <1>1, <2>3, <3>2 DEF LremHead, Moved, Settled, Replaced
    <3>4. Abstract!Forget
      BY <1>10, <3>1, <3>2, <3>3
    <3> QED
      BY <3>4 DEF Abstract!Next
  <2>4. CASE UNCHANGED <<listVars, historyVars>>
    BY <2>4 DEF Held, Listed, listVars, historyVars
  <2> QED
    BY <1>14, <2>1, <2>2, <2>3, <2>4
       DEF Worker, WorkerFails, Peek, ReadClock, Fetch, EndOfCall
<1>15. CASE UNCHANGED vars
  BY <1>15 DEF vars, Held, Listed
<1> QED
  BY <1>7, <1>8, <1>11, <1>12, <1>13, <1>14, <1>15 DEF Next

\* The two lists, with any number of consumers and background tasks, implement
\* the at-least-once queue: a push and a separate LREM never show as a message
\* that is gone.
THEOREM ListsImplementQueue == Spec => Implements
<1>1. Init => Abstract!Init
  BY DEF Init, Abstract!Init, Listed, ToSet
<1> QED
  BY <1>1, StepImplements, FallbackInvariant, PTL DEF Spec, Implements, Abstract!Spec

=============================================================================
