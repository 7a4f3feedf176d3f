-------------------------- MODULE RedisRedriveProofs --------------------------
(***************************************************************************)
(* redrive_dlq loses no dead letter and, called alone, moves each once: for*)
(* any payloads, callers, size of the batch, dead letters and failures.    *)
(***************************************************************************)
EXTENDS RedisRedrive, ListLemmas, FiniteSetTheorems

-----------------------------------------------------------------------------
(* Counting *)

\* A list has a finite number of members equal to p.
LEMMA CountType ==
    ASSUME NEW l \in Seq(Payloads), NEW p
    PROVE  /\ IsFiniteSet({i \in DOMAIN l : l[i] = p})
           /\ Count(l, p) \in Nat
<1>1. DOMAIN l = 1..Len(l) /\ Len(l) \in Nat
  BY Places
<1>2. IsFiniteSet(1..Len(l))
  BY <1>1, FS_Interval
<1>3. IsFiniteSet({i \in DOMAIN l : l[i] = p})
  BY <1>1, <1>2, FS_Subset
<1> QED
  BY <1>3, FS_CardinalityType DEF Count

\* RPUSH adds one.
LEMMA CountAppend ==
    ASSUME NEW l \in Seq(Payloads), NEW x \in Payloads, NEW p
    PROVE  Count(Append(l, x), p) = Count(l, p) + IF x = p THEN 1 ELSE 0
<1> SUFFICES ASSUME NEW t, t = Append(l, x)
             PROVE  Count(t, p) = Count(l, p) + IF x = p THEN 1 ELSE 0
  OBVIOUS
<1>1. /\ t \in Seq(Payloads) /\ Len(t) = Len(l) + 1
      /\ \A i \in 1..Len(l) : t[i] = l[i]
      /\ t[Len(l) + 1] = x
  BY AppendPlaces
<1>2. PICK n \in Nat : n = Len(l)
  BY Places
<1>3. DOMAIN l = 1..n /\ DOMAIN t = 1..n + 1
  BY <1>1, <1>2, Places
<1> DEFINE I == {i \in DOMAIN l : l[i] = p}
           J == {i \in DOMAIN t : t[i] = p}
<1>4. IsFiniteSet(I) /\ Cardinality(I) \in Nat
  BY CountType, FS_CardinalityType
<1>5. 1..n + 1 = 1..n \cup {n + 1} /\ n + 1 \notin 1..n
  BY <1>2
<1>6. n + 1 \notin I
  BY <1>3, <1>5
<1>7. x = p => J = I \cup {n + 1}
  BY <1>1, <1>2, <1>3, <1>5
<1>8. x # p => J = I
  BY <1>1, <1>2, <1>3, <1>5
<1>9. Count(l, p) = Cardinality(I) /\ Count(t, p) = Cardinality(J)
  BY DEF Count
<1> HIDE DEF I, J
<1>10. Cardinality(I \cup {n + 1}) = Cardinality(I) + 1
  BY <1>4, <1>6, FS_AddElement
<1>11. CASE x = p
  BY <1>7, <1>9, <1>10, <1>11
<1>12. CASE x # p
  <2>1. Cardinality(I) = Cardinality(I) + 0
    BY <1>4
  <2> QED
    BY <1>8, <1>9, <1>12, <2>1
<1> QED
  BY <1>11, <1>12

\* LREM 1 takes one away, if there is one.
LEMMA CountRemove ==
    ASSUME NEW l \in Seq(Payloads), NEW x, NEW p
    PROVE  Count(RemoveFirst(l, x), p) =
               Count(l, p) - IF x = p /\ x \in ToSet(l) THEN 1 ELSE 0
<1> SUFFICES ASSUME NEW t, t = RemoveFirst(l, x)
             PROVE  Count(t, p) = Count(l, p) - IF x = p /\ x \in ToSet(l) THEN 1 ELSE 0
  OBVIOUS
<1>1. CASE x \notin ToSet(l)
  <2>1. t = l /\ Count(l, p) \in Nat
    BY <1>1, RemoveAbsent, CountType
  <2> QED
    BY <1>1, <2>1
<1>2. CASE x \in ToSet(l)
  <2>1. /\ t \in Seq(Payloads) /\ Len(t) = Len(l) - 1 /\ Len(l) \in Nat \ {0}
        /\ \E m \in 1..Len(l) : RemovedAt(l, m, x, t)
    BY <1>2, RemovePlaces
  <2>2. PICK m \in 1..Len(l) :
              /\ l[m] = x
              /\ \A i \in 1..Len(t) : t[i] = IF i < m THEN l[i] ELSE l[i + 1]
    BY <2>1 DEF RemovedAt
  <2>3. PICK n \in Nat : n = Len(t)
    BY <2>1, Places
  <2>4. Len(l) = n + 1 /\ DOMAIN l = 1..n + 1 /\ DOMAIN t = 1..n /\ m \in 1..n + 1
    BY <2>1, <2>2, <2>3, Places
  <2> DEFINE I == {i \in DOMAIN l : l[i] = p}
             J == {i \in DOMAIN t : t[i] = p}
             f == [j \in J |-> IF j < m THEN j ELSE j + 1]
  <2>5. IsFiniteSet(I) /\ IsFiniteSet(J) /\ Cardinality(I) \in Nat
    BY <2>1, CountType, FS_CardinalityType
  <2>6. f \in [J -> I \ {m}]
    BY <2>2, <2>3, <2>4
  <2>7. \A a, b \in J : f[a] = f[b] => a = b
    BY <2>4
  <2>8. \A i \in I \ {m} : \E j \in J : f[j] = i
    <3> SUFFICES ASSUME NEW i \in I \ {m} PROVE \E j \in J : f[j] = i
      OBVIOUS
    <3>1. CASE i < m
      <4>1. i \in J
        BY <2>2, <2>3, <2>4, <3>1
      <4> QED
        BY <3>1, <4>1
    <3>2. CASE ~(i < m)
      <4>1. i - 1 \in 1..n /\ ~(i - 1 < m) /\ (i - 1) + 1 = i
        BY <2>4, <3>2
      <4>2. t[i - 1] = l[(i - 1) + 1]
        BY <2>2, <2>3, <4>1
      <4>3. i - 1 \in J
        BY <2>4, <4>1, <4>2
      <4>4. f[i - 1] = i
        BY <4>1, <4>3
      <4> QED
        BY <4>3, <4>4
    <3> QED
      BY <3>1, <3>2
  <2> HIDE DEF f, I, J
  <2>9. f \in Bijection(J, I \ {m})
    BY <2>6, <2>7, <2>8 DEF Bijection, Injection, Surjection, IsInjective
  <2>10. Cardinality(I \ {m}) = Cardinality(J)
    BY <2>5, <2>9, FS_Bijection DEF ExistsBijection
  <2>11. Cardinality(I \ {m}) = IF m \in I THEN Cardinality(I) - 1 ELSE Cardinality(I)
    BY <2>5, FS_RemoveElement
  <2>12. m \in I <=> x = p
    BY <2>2, <2>4 DEF I
  <2>13. Count(l, p) = Cardinality(I) /\ Count(t, p) = Cardinality(J)
    BY DEF I, J, Count
  <2> QED
    BY <1>2, <2>5, <2>10, <2>11, <2>12, <2>13
<1> QED
  BY <1>1, <1>2

-----------------------------------------------------------------------------
(* What a call owes *)

\* The places of a batch, from its end.
LEMMA EndPlaces ==
    ASSUME NEW l \in Seq(Payloads), l # <<>>
    PROVE  /\ Len(l) \in Nat \ {0} /\ Len(Tail(l)) = Len(l) - 1
           /\ Tail(l) \in Seq(Payloads) /\ Head(l) \in Payloads
           /\ FromEnd(l, Len(l)) = Head(l)
           /\ \A k \in 1..Len(l) - 1 : FromEnd(Tail(l), k) = FromEnd(l, k)
<1>1. /\ Tail(l) \in Seq(Payloads) /\ Head(l) = l[1] /\ Len(Tail(l)) = Len(l) - 1
      /\ \A i \in 1..Len(l) - 1 : Tail(l)[i] = l[i + 1]
  BY TailPlaces
<1>2. Len(l) \in Nat \ {0} /\ l[1] \in Payloads
  BY Places
<1>3. PICK n \in Nat \ {0} : n = Len(l)
  BY <1>2
<1>4. FromEnd(l, Len(l)) = Head(l)
  <2>1. n - n + 1 = 1
    BY <1>3
  <2> QED
    BY <1>1, <1>3, <2>1 DEF FromEnd
<1>5. ASSUME NEW k \in 1..Len(l) - 1 PROVE FromEnd(Tail(l), k) = FromEnd(l, k)
  <2>1. /\ (n - 1) - k + 1 \in 1..n - 1
        /\ ((n - 1) - k + 1) + 1 = n - k + 1
    BY <1>3
  <2>2. Tail(l)[(n - 1) - k + 1] = l[((n - 1) - k + 1) + 1]
    BY <1>1, <1>3, <2>1
  <2> QED
    BY <1>1, <1>3, <2>1, <2>2 DEF FromEnd
<1> QED
  BY <1>1, <1>2, <1>4, <1>5

\* Owed(p) is known by its pairs.
LEMMA OwedPairs ==
    ASSUME NEW p
    PROVE  /\ \A c \in Callers : \A k \in 1..BatchSize : <<c, k>> \in Owed(p) <=> Owes(c, k, p)
           /\ \A x \in Owed(p) : x[1] \in Callers /\ x[2] \in 1..BatchSize /\ x = <<x[1], x[2]>>
BY DEF Owed

\* An XADD owes one more.
LEMMA OwedAfterAdd ==
    ASSUME TypeOK, CallsOK, NEW c \in Callers, AddToMainQueue(c), NEW p
    PROVE  \E y : /\ y \notin Owed(p)
                  /\ Owed(p)' = IF Head(toAdd[c]) = p THEN Owed(p) \cup {y} ELSE Owed(p)
<1>1. /\ toAdd[c] \in Seq(Payloads) /\ toRem[c] \in Seq(Payloads) /\ toAdd[c] # <<>>
      /\ toAdd' = [toAdd EXCEPT ![c] = Tail(@)] /\ toRem' = toRem
      /\ toAdd \in [Callers -> Seq(Payloads)]
  BY DEF TypeOK, CallsOK, AddToMainQueue
<1>2. /\ Len(toAdd[c]) <= Len(toRem[c]) /\ Len(toRem[c]) <= BatchSize
      /\ \A k \in 1..Len(toAdd[c]) : FromEnd(toAdd[c], k) = FromEnd(toRem[c], k)
  BY DEF CallsOK
<1>3. /\ Len(toAdd[c]) \in Nat \ {0} /\ Len(Tail(toAdd[c])) = Len(toAdd[c]) - 1
      /\ FromEnd(toAdd[c], Len(toAdd[c])) = Head(toAdd[c])
  BY <1>1, EndPlaces
<1>4. Len(toRem[c]) \in Nat /\ BatchSize \in Nat
  BY <1>1, Places, RedriveAssumption
<1>5. PICK n \in Nat \ {0}, r \in Nat : n = Len(toAdd[c]) /\ r = Len(toRem[c])
  BY <1>3, <1>4
<1>6. n <= r /\ n \in 1..BatchSize /\ FromEnd(toRem[c], n) = Head(toAdd[c])
  BY <1>2, <1>3, <1>4, <1>5
<1>7. \A d \in Callers, k \in 1..BatchSize : d # c => (Owes(d, k, p)' <=> Owes(d, k, p))
  BY <1>1 DEF Owes
<1>8. \A k \in 1..BatchSize :
         Owes(c, k, p)' <=> Owes(c, k, p) \/ (k = n /\ Head(toAdd[c]) = p)
  <2>1. toAdd'[c] = Tail(toAdd[c]) /\ Len(toAdd'[c]) = n - 1
    BY <1>1, <1>3, <1>5
  <2>2. \A k \in 1..BatchSize : n - 1 < k <=> n < k \/ k = n
    BY <1>5
  <2>3. \A k \in 1..BatchSize :
           Owes(c, k, p)' <=> n - 1 < k /\ k <= r /\ FromEnd(toRem[c], k) = p
    BY <1>1, <1>5, <2>1 DEF Owes, FromEnd
  <2>4. \A k \in 1..BatchSize :
           Owes(c, k, p) <=> n < k /\ k <= r /\ FromEnd(toRem[c], k) = p
    BY <1>5 DEF Owes
  <2> QED
    BY <1>6, <2>2, <2>3, <2>4
<1>9. PICK y : y = <<c, n>>
  OBVIOUS
<1>10. y \notin Owed(p)
  BY <1>5, <1>6, <1>9, OwedPairs DEF Owes
<1>11. Owed(p)' = {x \in Callers \X (1..BatchSize) : Owes(x[1], x[2], p)'}
  BY DEF Owed
<1>12. \A x \in Callers \X (1..BatchSize) :
          Owes(x[1], x[2], p)' <=> Owes(x[1], x[2], p) \/ (x = y /\ Head(toAdd[c]) = p)
  <2> SUFFICES ASSUME NEW d \in Callers, NEW k \in 1..BatchSize
               PROVE  Owes(d, k, p)' <=> Owes(d, k, p) \/ (<<d, k>> = y /\ Head(toAdd[c]) = p)
    OBVIOUS
  <2> QED
    BY <1>7, <1>8, <1>9
<1>13. y \in Callers \X (1..BatchSize)
  BY <1>6, <1>9
<1>14. Owed(p)' = IF Head(toAdd[c]) = p THEN Owed(p) \cup {y} ELSE Owed(p)
  BY <1>11, <1>12, <1>13 DEF Owed
<1> QED
  BY <1>10, <1>14

\* An LREM owes one less.
LEMMA OwedAfterLrem ==
    ASSUME TypeOK, CallsOK, NEW c \in Callers, LremNext(c), NEW p
    PROVE  \E y : /\ y \in Owed(p) <=> Head(toRem[c]) = p
                  /\ Owed(p)' = Owed(p) \ {y}
<1>1. /\ toRem[c] \in Seq(Payloads) /\ toRem[c] # <<>> /\ toAdd[c] = <<>>
      /\ toRem' = [toRem EXCEPT ![c] = Tail(@)] /\ toAdd' = toAdd
      /\ toRem \in [Callers -> Seq(Payloads)] /\ Len(toRem[c]) <= BatchSize
  BY DEF TypeOK, CallsOK, LremNext
<1>2. /\ Len(toRem[c]) \in Nat \ {0} /\ Len(Tail(toRem[c])) = Len(toRem[c]) - 1
      /\ FromEnd(toRem[c], Len(toRem[c])) = Head(toRem[c])
      /\ \A k \in 1..Len(toRem[c]) - 1 : FromEnd(Tail(toRem[c]), k) = FromEnd(toRem[c], k)
  BY <1>1, EndPlaces
<1>3. BatchSize \in Nat /\ Len(toAdd[c]) = 0
  BY <1>1, RedriveAssumption
<1>4. PICK r \in Nat \ {0} : r = Len(toRem[c])
  BY <1>2
<1>5. r \in 1..BatchSize /\ FromEnd(toRem[c], r) = Head(toRem[c])
  BY <1>1, <1>2, <1>3, <1>4
<1>6. \A d \in Callers, k \in 1..BatchSize : d # c => (Owes(d, k, p)' <=> Owes(d, k, p))
  BY <1>1 DEF Owes, FromEnd
<1>7. \A k \in 1..BatchSize : Owes(c, k, p)' <=> Owes(c, k, p) /\ k # r
  <2> SUFFICES ASSUME NEW k \in 1..BatchSize
               PROVE  Owes(c, k, p)' <=> Owes(c, k, p) /\ k # r
    OBVIOUS
  <2>1. toRem'[c] = Tail(toRem[c]) /\ Len(toRem'[c]) = r - 1
    BY <1>1, <1>2, <1>4
  <2>2. (k <= r - 1 <=> k <= r /\ k # r) /\ 0 < k
    BY <1>4
  <2>3. Owes(c, k, p)' <=> k <= r - 1 /\ FromEnd(Tail(toRem[c]), k) = p
    BY <1>1, <1>3, <2>1, <2>2 DEF Owes, FromEnd
  <2>4. Owes(c, k, p) <=> k <= r /\ FromEnd(toRem[c], k) = p
    BY <1>3, <1>4, <2>2 DEF Owes
  <2>5. k <= r - 1 => FromEnd(Tail(toRem[c]), k) = FromEnd(toRem[c], k)
    BY <1>2, <1>4
  <2> QED
    BY <2>2, <2>3, <2>4, <2>5
<1>8. PICK y : y = <<c, r>>
  OBVIOUS
<1>9. y \in Owed(p) <=> Head(toRem[c]) = p
  BY <1>3, <1>4, <1>5, <1>8, OwedPairs DEF Owes
<1>10. Owed(p)' = {x \in Callers \X (1..BatchSize) : Owes(x[1], x[2], p)'}
  BY DEF Owed
<1>11. \A x \in Callers \X (1..BatchSize) : Owes(x[1], x[2], p)' <=> Owes(x[1], x[2], p) /\ x # y
  <2> SUFFICES ASSUME NEW d \in Callers, NEW k \in 1..BatchSize
               PROVE  Owes(d, k, p)' <=> Owes(d, k, p) /\ <<d, k>> # y
    OBVIOUS
  <2> QED
    BY <1>6, <1>7, <1>8
<1>12. Owed(p)' = Owed(p) \ {y}
  BY <1>10, <1>11 DEF Owed
<1> QED
  BY <1>9, <1>12

\* A call that has just read owes nothing, and one that ends leaves its debt.
LEMMA OwedAfterReset ==
    ASSUME NEW c \in Callers, NEW l, toAdd \in [Callers -> Seq(Payloads)], toRem \in [Callers -> Seq(Payloads)],
           l \in Seq(Payloads),
           toAdd' = [toAdd EXCEPT ![c] = l], toRem' = [toRem EXCEPT ![c] = l], NEW p
    PROVE  /\ Owed(p)' \subseteq Owed(p)
           /\ toRem[c] = <<>> => Owed(p)' = Owed(p)
<1>1. \A d \in Callers, k \in 1..BatchSize : d # c => (Owes(d, k, p)' <=> Owes(d, k, p))
  BY DEF Owes, FromEnd
<1>2. \A k \in 1..BatchSize : ~Owes(c, k, p)'
  <2>1. toAdd'[c] = l /\ toRem'[c] = l /\ Len(l) \in Nat
    BY Places
  <2>2. \A n \in Nat : \A k \in 1..BatchSize : ~(n < k /\ k <= n)
    BY RedriveAssumption
  <2> QED
    BY <2>1, <2>2 DEF Owes
<1>3. ASSUME toRem[c] = <<>> PROVE \A k \in 1..BatchSize : ~Owes(c, k, p)
  <2>1. Len(toRem[c]) = 0 /\ \A k \in 1..BatchSize : ~(k <= 0)
    BY <1>3, RedriveAssumption
  <2> QED
    BY <2>1 DEF Owes
<1>4. Owed(p)' = {x \in Callers \X (1..BatchSize) : Owes(x[1], x[2], p)'}
  BY DEF Owed
<1>5. \A x \in Callers \X (1..BatchSize) : Owes(x[1], x[2], p)' => Owes(x[1], x[2], p)
  BY <1>1, <1>2
<1>6. ASSUME toRem[c] = <<>>, NEW x \in Callers \X (1..BatchSize), Owes(x[1], x[2], p)
      PROVE  Owes(x[1], x[2], p)'
  BY <1>1, <1>3, <1>6
<1> QED
  BY <1>4, <1>5, <1>6 DEF Owed

-----------------------------------------------------------------------------
(* What the steps do to the calls *)

\* What LRANGE returns: a beginning of the list.
LEMMA BatchRead ==
    ASSUME TypeOK, NEW c \in Callers, Lrange(c)
    PROVE  \E l \in Seq(Payloads) :
              /\ toAdd' = [toAdd EXCEPT ![c] = l] /\ toRem' = [toRem EXCEPT ![c] = l]
              /\ pc' = [pc EXCEPT ![c] = IF l = <<>> THEN "idle" ELSE "add"]
              /\ Len(l) <= BatchSize /\ Len(l) <= Len(dlq)
              /\ \A i \in DOMAIN l : l[i] = dlq[i]
<1>1. dlq \in Seq(Payloads) /\ Len(dlq) \in Nat /\ BatchSize \in Nat
  BY Places, RedriveAssumption DEF TypeOK
<1>2. PICK n, l : /\ n = IF Len(dlq) < BatchSize THEN Len(dlq) ELSE BatchSize
                  /\ l = SubSeq(dlq, 1, n)
  OBVIOUS
<1>3. n \in 0..Len(dlq) /\ n <= BatchSize
  BY <1>1, <1>2
<1>4. l \in Seq(Payloads) /\ Len(l) = n /\ \A i \in 1..n : l[i] = dlq[i]
  BY <1>1, <1>2, <1>3
<1>5. DOMAIN l = 1..n /\ n <= Len(dlq)
  BY <1>1, <1>3, <1>4, Places
<1>6. /\ toAdd' = [toAdd EXCEPT ![c] = l] /\ toRem' = [toRem EXCEPT ![c] = l]
      /\ pc' = [pc EXCEPT ![c] = IF l = <<>> THEN "idle" ELSE "add"]
  BY <1>2 DEF Lrange
<1> QED
  BY <1>3, <1>4, <1>5, <1>6

(* Every command of redrive_dlq keeps the types. *)
LEMMA TypeStep == TypeOK /\ CallsOK /\ [Next]_vars => TypeOK'
<1> SUFFICES ASSUME TypeOK, CallsOK, [Next]_vars PROVE TypeOK'
  OBVIOUS
<1>1. /\ dlq \in Seq(Payloads) /\ main \in [Payloads -> Nat] /\ pc \in [Callers -> CallState]
      /\ toAdd \in [Callers -> Seq(Payloads)] /\ toRem \in [Callers -> Seq(Payloads)]
      /\ faults \in 0..MaxFaults /\ pushed \in Seq(Payloads) /\ overlap \in BOOLEAN
  BY DEF TypeOK
<1>2. ASSUME NEW p \in Payloads, DeadLetter(p) PROVE TypeOK'
  <2>1. Append(dlq, p) \in Seq(Payloads) /\ Append(pushed, p) \in Seq(Payloads)
    BY <1>1
  <2> QED
    BY <1>1, <1>2, <2>1 DEF DeadLetter, TypeOK, callVars
<1>3. ASSUME NEW c \in Callers, Call(c) PROVE TypeOK'
  BY <1>1, <1>3 DEF Call, TypeOK, CallState
<1>4. ASSUME NEW c \in Callers, Lrange(c) PROVE TypeOK'
  <2>1. PICK l \in Seq(Payloads) :
              /\ toAdd' = [toAdd EXCEPT ![c] = l] /\ toRem' = [toRem EXCEPT ![c] = l]
              /\ pc' = [pc EXCEPT ![c] = IF l = <<>> THEN "idle" ELSE "add"]
    BY <1>4, BatchRead
  <2>2. UNCHANGED <<dlq, main, faults, pushed, overlap>>
    BY <1>4 DEF Lrange
  <2>3. pc' \in [Callers -> CallState]
    BY <1>1, <2>1 DEF CallState
  <2> QED
    BY <1>1, <2>1, <2>2, <2>3 DEF TypeOK
<1>5. ASSUME NEW c \in Callers, AddToMainQueue(c) PROVE TypeOK'
  <2>1. Tail(toAdd[c]) \in Seq(Payloads) /\ Head(toAdd[c]) \in Payloads
    BY <1>1, <1>5, EndPlaces DEF CallsOK, AddToMainQueue
  <2>2. main' \in [Payloads -> Nat]
    BY <1>1, <1>5, <2>1 DEF AddToMainQueue
  <2>3. toAdd' \in [Callers -> Seq(Payloads)] /\ pc' \in [Callers -> CallState]
    BY <1>1, <1>5, <2>1 DEF AddToMainQueue, CallState
  <2> QED
    BY <1>1, <1>5, <2>2, <2>3 DEF AddToMainQueue, TypeOK
<1>6. ASSUME NEW c \in Callers, LremNext(c) PROVE TypeOK'
  <2>1. Tail(toRem[c]) \in Seq(Payloads)
    BY <1>1, <1>6, EndPlaces DEF CallsOK, LremNext
  <2>2. dlq' \in Seq(Payloads)
    BY <1>1, <1>6, RemoveMembers DEF LremNext
  <2>3. toRem' \in [Callers -> Seq(Payloads)] /\ pc' \in [Callers -> CallState]
    BY <1>1, <1>6, <2>1 DEF LremNext, CallState
  <2> QED
    BY <1>1, <1>6, <2>2, <2>3 DEF LremNext, TypeOK
<1>7. ASSUME NEW c \in Callers, CallFails(c) PROVE TypeOK'
  <2>1. <<>> \in Seq(Payloads) /\ faults' \in 0..MaxFaults
    BY <1>1, <1>7, RedriveAssumption DEF CallFails
  <2>2. pc' \in [Callers -> CallState]
    BY <1>1, <1>7 DEF CallFails, CallState
  <2> QED
    BY <1>1, <1>7, <2>1, <2>2 DEF CallFails, TypeOK
<1>8. CASE UNCHANGED vars
  BY <1>8 DEF vars, TypeOK
<1> QED
  BY <1>2, <1>3, <1>4, <1>5, <1>6, <1>7, <1>8 DEF Next, Step

\* What CallsOK says of one call.
CallOK(c) ==
    /\ Len(toAdd[c]) <= Len(toRem[c]) /\ Len(toRem[c]) <= BatchSize
    /\ \A k \in 1..Len(toAdd[c]) : FromEnd(toAdd[c], k) = FromEnd(toRem[c], k)
    /\ pc[c] \in {"idle", "lrange"} => toRem[c] = <<>>
    /\ pc[c] = "add" => toAdd[c] # <<>>
    /\ pc[c] = "lrem" => toAdd[c] = <<>> /\ toRem[c] # <<>>

(* What a call is about to add and to remove stays what it has read. *)
LEMMA CallsStep == TypeOK /\ CallsOK /\ [Next]_vars => CallsOK'
<1> SUFFICES ASSUME TypeOK, CallsOK, [Next]_vars, NEW d \in Callers PROVE CallOK(d)'
  BY DEF CallsOK, CallOK
<1>1. /\ toAdd \in [Callers -> Seq(Payloads)] /\ toRem \in [Callers -> Seq(Payloads)]
      /\ pc \in [Callers -> CallState] /\ BatchSize \in Nat
  BY RedriveAssumption DEF TypeOK
<1>2. CallOK(d)
  BY DEF CallsOK, CallOK
<1>3. /\ Len(toAdd[d]) \in Nat /\ Len(toRem[d]) \in Nat
      /\ toRem[d] = <<>> <=> Len(toRem[d]) = 0
      /\ toAdd[d] = <<>> <=> Len(toAdd[d]) = 0
  BY <1>1, Places
<1>4. CASE UNCHANGED <<pc[d], toAdd[d], toRem[d]>>
  BY <1>2, <1>4 DEF CallOK, FromEnd
<1>5. ASSUME NEW c \in Callers, Call(c) PROVE CallOK(d)'
  <2>1. UNCHANGED <<toAdd, toRem>> /\ pc' = [pc EXCEPT ![c] = "lrange"] /\ pc[c] = "idle"
    BY <1>5 DEF Call
  <2>2. CASE d = c
    BY <1>1, <1>2, <2>1, <2>2 DEF CallOK, FromEnd
  <2> QED
    BY <1>1, <1>4, <2>1, <2>2
<1>6. ASSUME NEW c \in Callers, Lrange(c) PROVE CallOK(d)'
  <2>1. PICK l \in Seq(Payloads) :
              /\ toAdd' = [toAdd EXCEPT ![c] = l] /\ toRem' = [toRem EXCEPT ![c] = l]
              /\ pc' = [pc EXCEPT ![c] = IF l = <<>> THEN "idle" ELSE "add"]
              /\ Len(l) <= BatchSize
    BY <1>6, BatchRead
  <2>2. CASE d = c
    <3>1. toAdd'[d] = l /\ toRem'[d] = l /\ pc'[d] = IF l = <<>> THEN "idle" ELSE "add"
      BY <1>1, <2>1, <2>2
    <3>2. Len(l) \in Nat /\ Len(l) <= Len(l)
      BY Places
    <3> QED
      BY <2>1, <3>1, <3>2 DEF CallOK, FromEnd
  <2>3. CASE d # c
    <3>1. UNCHANGED <<pc[d], toAdd[d], toRem[d]>>
      BY <1>1, <2>1, <2>3
    <3> QED
      BY <1>4, <3>1
  <2> QED
    BY <2>2, <2>3
<1>7. ASSUME NEW c \in Callers, AddToMainQueue(c) PROVE CallOK(d)'
  <2>1. /\ pc[c] = "add" /\ UNCHANGED toRem /\ toAdd' = [toAdd EXCEPT ![c] = Tail(@)]
        /\ pc' = [pc EXCEPT ![c] = IF Len(toAdd[c]) = 1 THEN "lrem" ELSE "add"]
    BY <1>7 DEF AddToMainQueue
  <2>2. CASE d = c
    <3>1. /\ toAdd'[d] = Tail(toAdd[d]) /\ toRem'[d] = toRem[d]
          /\ pc'[d] = IF Len(toAdd[d]) = 1 THEN "lrem" ELSE "add"
      BY <1>1, <2>1, <2>2
    <3>2. /\ Len(toAdd[d]) \in Nat \ {0} /\ Len(Tail(toAdd[d])) = Len(toAdd[d]) - 1
          /\ Tail(toAdd[d]) \in Seq(Payloads)
          /\ \A k \in 1..Len(toAdd[d]) - 1 : FromEnd(Tail(toAdd[d]), k) = FromEnd(toAdd[d], k)
      BY <1>1, <1>2, <2>1, <2>2, EndPlaces DEF CallOK
    <3>3. PICK n \in Nat \ {0} : n = Len(toAdd[d])
      BY <3>2
    <3>4. Tail(toAdd[d]) = <<>> <=> n = 1
      <4>1. Tail(toAdd[d]) = <<>> <=> Len(Tail(toAdd[d])) = 0
        BY <3>2, Places
      <4>2. Len(Tail(toAdd[d])) = n - 1
        BY <3>2, <3>3
      <4> QED
        BY <3>3, <4>1, <4>2
    <3>5. n - 1 <= Len(toRem[d]) /\ toRem[d] # <<>>
      BY <1>2, <1>3, <3>3 DEF CallOK
    <3>6. \A k \in 1..n - 1 : FromEnd(Tail(toAdd[d]), k) = FromEnd(toRem[d], k)
      BY <1>2, <3>2, <3>3 DEF CallOK
    <3>7. Len(toAdd'[d]) = n - 1 /\ Len(toRem'[d]) <= BatchSize
      BY <1>2, <3>1, <3>2, <3>3 DEF CallOK
    <3> QED
      BY <3>1, <3>3, <3>4, <3>5, <3>6, <3>7 DEF CallOK, FromEnd
  <2>3. CASE d # c
    <3>1. UNCHANGED <<pc[d], toAdd[d], toRem[d]>>
      BY <1>1, <2>1, <2>3
    <3> QED
      BY <1>4, <3>1
  <2> QED
    BY <2>2, <2>3
<1>8. ASSUME NEW c \in Callers, LremNext(c) PROVE CallOK(d)'
  <2>1. /\ pc[c] = "lrem" /\ UNCHANGED toAdd /\ toRem' = [toRem EXCEPT ![c] = Tail(@)]
        /\ pc' = [pc EXCEPT ![c] = IF Len(toRem[c]) = 1 THEN "lrange" ELSE "lrem"]
    BY <1>8 DEF LremNext
  <2>2. CASE d = c
    <3>1. /\ toRem'[d] = Tail(toRem[d]) /\ toAdd'[d] = <<>> /\ toAdd[d] = <<>> /\ toRem[d] # <<>>
          /\ pc'[d] = IF Len(toRem[d]) = 1 THEN "lrange" ELSE "lrem"
      BY <1>1, <1>2, <2>1, <2>2 DEF CallOK
    <3>2. /\ Len(toRem[d]) \in Nat \ {0} /\ Len(Tail(toRem[d])) = Len(toRem[d]) - 1
          /\ Tail(toRem[d]) \in Seq(Payloads)
      BY <1>1, <3>1, EndPlaces
    <3>3. PICK n \in Nat \ {0} : n = Len(toRem[d])
      BY <3>2
    <3>4. Tail(toRem[d]) = <<>> <=> n = 1
      <4>1. Tail(toRem[d]) = <<>> <=> Len(Tail(toRem[d])) = 0
        BY <3>2, Places
      <4>2. Len(Tail(toRem[d])) = n - 1
        BY <3>2, <3>3
      <4> QED
        BY <3>3, <4>1, <4>2
    <3>5. n - 1 <= BatchSize /\ 0 <= n - 1 /\ Len(toAdd'[d]) = 0 /\ Len(toRem'[d]) = n - 1
      BY <1>1, <1>2, <3>1, <3>2, <3>3 DEF CallOK
    <3> QED
      BY <3>1, <3>3, <3>4, <3>5 DEF CallOK
  <2>3. CASE d # c
    <3>1. UNCHANGED <<pc[d], toAdd[d], toRem[d]>>
      BY <1>1, <2>1, <2>3
    <3> QED
      BY <1>4, <3>1
  <2> QED
    BY <2>2, <2>3
<1>9. ASSUME NEW c \in Callers, CallFails(c) PROVE CallOK(d)'
  <2>1. /\ pc' = [pc EXCEPT ![c] = "idle"]
        /\ toAdd' = [toAdd EXCEPT ![c] = <<>>] /\ toRem' = [toRem EXCEPT ![c] = <<>>]
    BY <1>9 DEF CallFails
  <2>2. CASE d = c
    <3>1. pc'[d] = "idle" /\ toAdd'[d] = <<>> /\ toRem'[d] = <<>>
      BY <1>1, <2>1, <2>2
    <3> QED
      BY <1>1, <3>1 DEF CallOK
  <2>3. CASE d # c
    <3>1. UNCHANGED <<pc[d], toAdd[d], toRem[d]>>
      BY <1>1, <2>1, <2>3
    <3> QED
      BY <1>4, <3>1
  <2> QED
    BY <2>2, <2>3
<1>10. CASE UNCHANGED vars \/ \E p \in Payloads : DeadLetter(p)
  BY <1>4, <1>10 DEF vars, DeadLetter, callVars
<1> QED
  BY <1>5, <1>6, <1>7, <1>8, <1>9, <1>10 DEF Next, Step

-----------------------------------------------------------------------------
(* What is added and removed *)

\* Count and Owed are numbers.
LEMMA Numbers ==
    ASSUME TypeOK, Covered, NEW p \in Payloads
    PROVE  /\ main[p] \in Nat /\ Count(dlq, p) \in Nat /\ Count(pushed, p) \in Nat
           /\ IsFiniteSet(Owed(p)) /\ Cardinality(Owed(p)) \in Nat
BY CountType, FS_CardinalityType DEF TypeOK, Covered

\* No step lowers the surplus; only a call that fails, or one that finds no copy to
\* remove, changes it.
LEMMA Balance ==
    ASSUME TypeOK, CallsOK, Covered, [Next]_vars, NEW p \in Payloads
    PROVE  /\ IsFiniteSet(Owed(p)')
           /\ Cardinality(Owed(p)') \in Nat
           /\ main'[p] \in Nat /\ Count(dlq', p) \in Nat /\ Count(pushed', p) \in Nat
           /\ (main'[p] + Count(dlq', p)) + (Count(pushed, p) + Cardinality(Owed(p)))
                >= (main[p] + Count(dlq, p)) + (Count(pushed', p) + Cardinality(Owed(p)'))
           /\ \/ \E c \in Callers : CallFails(c)
              \/ \E c \in Callers : LremNext(c) /\ Head(toRem[c]) \notin ToSet(dlq)
              \/ (main'[p] + Count(dlq', p)) + (Count(pushed, p) + Cardinality(Owed(p)))
                   = (main[p] + Count(dlq, p)) + (Count(pushed', p) + Cardinality(Owed(p)'))
<1>1. /\ toAdd \in [Callers -> Seq(Payloads)] /\ toRem \in [Callers -> Seq(Payloads)]
      /\ dlq \in Seq(Payloads) /\ pushed \in Seq(Payloads) /\ main \in [Payloads -> Nat]
  BY DEF TypeOK
<1>2. PICK m \in Nat, q \in Nat, u \in Nat, o \in Nat :
         m = main[p] /\ q = Count(dlq, p) /\ u = Count(pushed, p) /\ o = Cardinality(Owed(p))
  BY Numbers
<1>3. IsFiniteSet(Owed(p))
  BY Numbers
<1>4. UNCHANGED <<toAdd, toRem>> => Owed(p)' = Owed(p)
  BY DEF Owed, Owes, FromEnd
<1>5. \A a, b, c, d \in Nat : (a + b) + (c + d) >= (a + b) + (c + d)
  OBVIOUS
<1>6. CASE UNCHANGED <<main, dlq, pushed>> /\ Owed(p)' = Owed(p)
  BY <1>2, <1>3, <1>5, <1>6
<1>7. ASSUME NEW x \in Payloads, DeadLetter(x)
      PROVE  /\ Owed(p)' = Owed(p) /\ main' = main
             /\ Count(dlq', p) = q + (IF x = p THEN 1 ELSE 0)
             /\ Count(pushed', p) = u + (IF x = p THEN 1 ELSE 0)
  BY <1>1, <1>2, <1>4, <1>7, CountAppend DEF DeadLetter, callVars
<1>8. ASSUME NEW x \in Payloads, DeadLetter(x)
      PROVE  /\ IsFiniteSet(Owed(p)')
             /\ Cardinality(Owed(p)') \in Nat
             /\ main'[p] \in Nat /\ Count(dlq', p) \in Nat /\ Count(pushed', p) \in Nat
             /\ (main'[p] + Count(dlq', p)) + (u + o) >= (m + q) + (Count(pushed', p) + Cardinality(Owed(p)'))
             /\ (main'[p] + Count(dlq', p)) + (u + o) = (m + q) + (Count(pushed', p) + Cardinality(Owed(p)'))
  <2>1. PICK e \in {0, 1} : Count(dlq', p) = q + e /\ Count(pushed', p) = u + e
    BY <1>7, <1>8
  <2> QED
    BY <1>2, <1>3, <1>7, <1>8, <2>1
<1>9. ASSUME NEW c \in Callers, Lrange(c)
      PROVE  UNCHANGED <<main, dlq, pushed>> /\ Owed(p)' = Owed(p)
  <2>1. PICK l \in Seq(Payloads) :
           toAdd' = [toAdd EXCEPT ![c] = l] /\ toRem' = [toRem EXCEPT ![c] = l]
    BY <1>9, BatchRead
  <2>2. toRem[c] = <<>>
    BY <1>9 DEF Lrange, CallsOK
  <2>3. Owed(p)' = Owed(p)
    BY <1>1, <2>1, <2>2, OwedAfterReset
  <2> QED
    BY <1>9, <2>3 DEF Lrange
<1>10. ASSUME NEW c \in Callers, AddToMainQueue(c)
       PROVE  /\ IsFiniteSet(Owed(p)')
              /\ Cardinality(Owed(p)') \in Nat
              /\ main'[p] \in Nat /\ UNCHANGED <<dlq, pushed>>
              /\ (main'[p] + q) + (u + o) = (m + q) + (u + Cardinality(Owed(p)'))
  <2>1. PICK y : /\ y \notin Owed(p)
                 /\ Owed(p)' = IF Head(toAdd[c]) = p THEN Owed(p) \cup {y} ELSE Owed(p)
    BY <1>10, OwedAfterAdd
  <2>2. main'[p] = IF Head(toAdd[c]) = p THEN m + 1 ELSE m
    BY <1>1, <1>2, <1>10 DEF AddToMainQueue
  <2>3. IsFiniteSet(Owed(p) \cup {y}) /\ Cardinality(Owed(p) \cup {y}) = o + 1
    BY <1>2, <1>3, <2>1, FS_AddElement
  <2>4. CASE Head(toAdd[c]) = p
    <3>1. main'[p] = m + 1 /\ Owed(p)' = Owed(p) \cup {y}
      BY <2>1, <2>2, <2>4
    <3>2. IsFiniteSet(Owed(p)') /\ Cardinality(Owed(p)') = o + 1
      BY <2>3, <3>1
    <3>3. ((m + 1) + q) + (u + o) = (m + q) + (u + (o + 1)) /\ m + 1 \in Nat /\ o + 1 \in Nat
      BY <1>2
    <3>4. UNCHANGED <<dlq, pushed>>
      BY <1>10 DEF AddToMainQueue
    <3> QED
      BY <3>1, <3>2, <3>3, <3>4
  <2>5. CASE Head(toAdd[c]) # p
    <3>1. main'[p] = m /\ Owed(p)' = Owed(p)
      BY <2>1, <2>2, <2>5
    <3>2. UNCHANGED <<dlq, pushed>>
      BY <1>10 DEF AddToMainQueue
    <3> QED
      BY <1>2, <1>3, <3>1, <3>2
  <2> QED
    BY <2>4, <2>5
<1>11. ASSUME NEW c \in Callers, LremNext(c)
       PROVE  /\ IsFiniteSet(Owed(p)')
              /\ Cardinality(Owed(p)') \in Nat
              /\ UNCHANGED <<main, pushed>> /\ Count(dlq', p) \in Nat
              /\ (m + Count(dlq', p)) + (u + o) >= (m + q) + (u + Cardinality(Owed(p)'))
              /\ \/ Head(toRem[c]) \notin ToSet(dlq)
                 \/ (m + Count(dlq', p)) + (u + o) = (m + q) + (u + Cardinality(Owed(p)'))
  <2>1. PICK x : x = Head(toRem[c])
    OBVIOUS
  <2>2. PICK y : (y \in Owed(p) <=> x = p) /\ Owed(p)' = Owed(p) \ {y}
    BY <1>11, <2>1, OwedAfterLrem
  <2>3. dlq' = RemoveFirst(dlq, x) /\ UNCHANGED <<main, pushed>>
    BY <1>11, <2>1 DEF LremNext
  <2>4. Count(dlq', p) = q - IF x = p /\ x \in ToSet(dlq) THEN 1 ELSE 0
    BY <1>1, <1>2, <2>3, CountRemove
  <2>5. Count(dlq', p) \in Nat
    <3>1. dlq' \in Seq(Payloads)
      BY <1>1, <2>3, RemoveMembers
    <3> QED
      BY <3>1, CountType
  <2>6. IsFiniteSet(Owed(p)') /\ Cardinality(Owed(p)') = IF x = p THEN o - 1 ELSE o
    BY <1>2, <1>3, <2>2, FS_RemoveElement
  <2>7. Cardinality(Owed(p)') \in Nat
    BY <2>6, FS_CardinalityType
  <2>8. PICK a \in Nat, b \in Nat : a = Count(dlq', p) /\ b = Cardinality(Owed(p)')
    BY <2>5, <2>7
  <2>9. /\ x # p => a = q /\ b = o
        /\ x = p => b = o - 1 /\ (a = q \/ a = q - 1)
        /\ x = p /\ x \in ToSet(dlq) => a = q - 1
    BY <1>2, <2>4, <2>6, <2>8
  <2>10. /\ (m + a) + (u + o) >= (m + q) + (u + b)
         /\ x \in ToSet(dlq) => (m + a) + (u + o) = (m + q) + (u + b)
    BY <1>2, <2>9
  <2> QED
    BY <2>1, <2>3, <2>6, <2>8, <2>10
<1>12. ASSUME NEW c \in Callers, CallFails(c)
       PROVE  /\ IsFiniteSet(Owed(p)')
              /\ Cardinality(Owed(p)') \in Nat
              /\ UNCHANGED <<main, dlq, pushed>>
              /\ (m + q) + (u + o) >= (m + q) + (u + Cardinality(Owed(p)'))
  <2>1. toAdd' = [toAdd EXCEPT ![c] = <<>>] /\ toRem' = [toRem EXCEPT ![c] = <<>>]
        /\ UNCHANGED <<main, dlq, pushed>>
    BY <1>12 DEF CallFails
  <2>2. Owed(p)' \subseteq Owed(p)
    <3>1. <<>> \in Seq(Payloads)
      OBVIOUS
    <3> QED
      BY <1>1, <2>1, <3>1, OwedAfterReset
  <2>3. IsFiniteSet(Owed(p)') /\ Cardinality(Owed(p)') <= o
    BY <1>2, <1>3, <2>2, FS_Subset
  <2>4. Cardinality(Owed(p)') \in Nat
    BY <2>3, FS_CardinalityType
  <2>5. \A a, b, d, e, g \in Nat : e <= g => (a + b) + (d + g) >= (a + b) + (d + e)
    OBVIOUS
  <2> QED
    BY <1>2, <2>1, <2>3, <2>4, <2>5
<1>13. CASE UNCHANGED vars \/ \E c \in Callers : Call(c)
  BY <1>4, <1>6, <1>13 DEF vars, Call
<1>14. CASE \E c \in Callers : AddToMainQueue(c)
  BY <1>2, <1>10, <1>14
<1>15. CASE \E c \in Callers : LremNext(c)
  BY <1>2, <1>11, <1>15
<1>16. CASE \E c \in Callers : CallFails(c)
  BY <1>2, <1>12, <1>16
<1>17. CASE \E x \in Payloads : DeadLetter(x)
  BY <1>2, <1>8, <1>17
<1>18. CASE \E c \in Callers : Lrange(c)
  BY <1>6, <1>9, <1>18
<1> QED
  BY <1>13, <1>14, <1>15, <1>16, <1>17, <1>18 DEF Next, Step

(* The surplus of copies keeps covering the removals that calls still owe. *)
LEMMA CoveredStep == TypeOK /\ CallsOK /\ Covered /\ [Next]_vars => Covered'
<1> SUFFICES ASSUME TypeOK, CallsOK, Covered, [Next]_vars, NEW p \in Payloads
             PROVE  /\ IsFiniteSet(Owed(p)')
                    /\ main'[p] + Count(dlq', p) >= Count(pushed', p) + Cardinality(Owed(p)')
  BY DEF Covered, Count
<1>1. PICK m \in Nat, q \in Nat, u \in Nat, o \in Nat :
         m = main[p] /\ q = Count(dlq, p) /\ u = Count(pushed, p) /\ o = Cardinality(Owed(p))
  BY Numbers
<1>2. PICK n \in Nat, r \in Nat, v \in Nat, w \in Nat :
         n = main'[p] /\ r = Count(dlq', p) /\ v = Count(pushed', p) /\ w = Cardinality(Owed(p)')
  BY Balance
<1>3. IsFiniteSet(Owed(p)') /\ (n + r) + (u + o) >= (m + q) + (v + w)
  BY <1>1, <1>2, Balance
<1>4. m + q >= u + o
  BY <1>1 DEF Covered
<1>5. n + r >= v + w
  BY <1>3, <1>4
<1> QED
  BY <1>2, <1>3, <1>5

-----------------------------------------------------------------------------
(* A call that is alone *)

\* The list begins with what the call has still to remove.
ReadOK(c) == Len(toRem[c]) <= Len(dlq) /\ \A i \in DOMAIN toRem[c] : toRem[c][i] = dlq[i]

\* LREM of the first payload that was read removes the head of the list.
LEMMA LremHead ==
    ASSUME TypeOK, CallsOK, NEW c \in Callers, LremNext(c), ReadOK(c)
    PROVE  Head(toRem[c]) \in ToSet(dlq) /\ ReadOK(c)'
<1>1. /\ toRem[c] \in Seq(Payloads) /\ dlq \in Seq(Payloads) /\ toRem[c] # <<>>
      /\ toRem' = [toRem EXCEPT ![c] = Tail(@)] /\ toRem \in [Callers -> Seq(Payloads)]
  BY DEF TypeOK, CallsOK, LremNext
<1>2. PICK l \in Seq(Payloads), x \in Payloads : l = toRem[c] /\ x = Head(toRem[c])
  BY <1>1
<1>3. /\ Tail(l) \in Seq(Payloads) /\ x = l[1] /\ Len(Tail(l)) = Len(l) - 1
      /\ \A i \in 1..Len(l) - 1 : Tail(l)[i] = l[i + 1]
  BY <1>1, <1>2, TailPlaces
<1>4. PICK n \in Nat \ {0}, q \in Nat : n = Len(l) /\ q = Len(dlq)
  BY <1>1, <1>2, Places
<1>5. n <= q /\ DOMAIN l = 1..n /\ \A i \in 1..n : l[i] = dlq[i]
  BY <1>2, <1>4, Places DEF ReadOK
<1>6. 1 \in 1..n /\ 1 \in 1..q
  BY <1>4, <1>5
<1>7. dlq[1] = x /\ x \in ToSet(dlq)
  BY <1>1, <1>3, <1>4, <1>5, <1>6, Members
<1>8. PICK t : t = RemoveFirst(dlq, x)
  OBVIOUS
<1>9. Len(t) = Len(dlq) - 1
  BY <1>1, <1>7, <1>8, RemovePlaces
<1>a. PICK m \in 1..Len(dlq) : RemovedAt(dlq, m, x, t)
  BY <1>1, <1>7, <1>8, RemovePlaces
<1>10. /\ dlq[m] = x
       /\ \A i \in 1..m - 1 : dlq[i] # x
       /\ \A i \in 1..Len(t) : t[i] = IF i < m THEN dlq[i] ELSE dlq[i + 1]
  BY <1>a DEF RemovedAt
<1>11. m = 1
  <2>1. m \in 1..q
    BY <1>4, <1>10
  <2>2. m # 1 => 1 \in 1..m - 1
    BY <1>4, <2>1
  <2> QED
    BY <1>7, <1>10, <2>2
<1>12. \A i \in 1..q - 1 : t[i] = dlq[i + 1]
  BY <1>4, <1>9, <1>10, <1>11
<1>13. \A i \in 1..n - 1 : i \in 1..q - 1 /\ i + 1 \in 1..n
  BY <1>4, <1>5
<1>14. \A i \in 1..n - 1 : Tail(l)[i] = t[i]
  BY <1>3, <1>4, <1>5, <1>12, <1>13
<1>15. DOMAIN Tail(l) = 1..n - 1 /\ Len(Tail(l)) = n - 1 /\ Len(t) = q - 1
  BY <1>3, <1>4, <1>9, Places
<1>16. toRem'[c] = Tail(l) /\ dlq' = t
  BY <1>1, <1>2, <1>8 DEF LremNext
<1>17. ReadOK(c)'
  BY <1>4, <1>5, <1>14, <1>15, <1>16 DEF ReadOK
<1> QED
  BY <1>2, <1>7, <1>17

(* A call that is alone keeps finding what it read at the head of the list. *)
LEMMA AloneStep == TypeOK /\ CallsOK /\ Covered /\ AloneOK /\ [Next]_vars => AloneOK'
<1> SUFFICES ASSUME TypeOK, CallsOK, Covered, AloneOK, [Next]_vars, ~overlap'
             PROVE  /\ \A c, d \in Callers : pc'[c] # "idle" /\ pc'[d] # "idle" => c = d
                    /\ \A c \in Callers : ReadOK(c)'
                    /\ faults' = 0 => \A p \in Payloads :
                          main'[p] + Count(dlq', p) = Count(pushed', p) + Cardinality(Owed(p)')
  BY DEF AloneOK, ReadOK, Count
<1>1. /\ toAdd \in [Callers -> Seq(Payloads)] /\ toRem \in [Callers -> Seq(Payloads)]
      /\ pc \in [Callers -> CallState] /\ dlq \in Seq(Payloads) /\ faults \in 0..MaxFaults
      /\ Len(dlq) \in Nat /\ overlap \in BOOLEAN
  BY Places DEF TypeOK
<1>2. ~overlap
  BY <1>1 DEF Next, DeadLetter, Call, Step, Lrange, AddToMainQueue, LremNext, CallFails, vars
<1>3. /\ \A c, d \in Callers : pc[c] # "idle" /\ pc[d] # "idle" => c = d
      /\ \A c \in Callers : ReadOK(c)
      /\ faults = 0 => \A p \in Payloads :
            main[p] + Count(dlq, p) = Count(pushed, p) + Cardinality(Owed(p))
  BY <1>2 DEF AloneOK, ReadOK
<1>4. ASSUME NEW c \in Callers, pc[c] # "idle", \A d \in Callers : d # c => pc'[d] = pc[d]
      PROVE  \A d, e \in Callers : pc'[d] # "idle" /\ pc'[e] # "idle" => d = e
  BY <1>3, <1>4
<1>5. ASSUME NEW d \in Callers, UNCHANGED <<toRem[d], dlq>> PROVE ReadOK(d)'
  BY <1>3, <1>5 DEF ReadOK
<1>6. ASSUME NEW d \in Callers, toRem'[d] = <<>>, Len(dlq') \in Nat PROVE ReadOK(d)'
  <2>1. Len(toRem'[d]) = 0 /\ DOMAIN toRem'[d] = {}
    BY <1>6
  <2> QED
    BY <1>6, <2>1 DEF ReadOK
<1>7. /\ \A c, d \in Callers : pc'[c] # "idle" /\ pc'[d] # "idle" => c = d
      /\ \A c \in Callers : ReadOK(c)'
  <2>1. ASSUME NEW p \in Payloads, DeadLetter(p) PROVE \A c \in Callers : ReadOK(c)'
    <3> SUFFICES ASSUME NEW c \in Callers PROVE ReadOK(c)'
      OBVIOUS
    <3>1. dlq' = Append(dlq, p) /\ UNCHANGED toRem
      BY <2>1 DEF DeadLetter, callVars
    <3>2. Len(dlq') = Len(dlq) + 1 /\ \A i \in 1..Len(dlq) : dlq'[i] = dlq[i]
      BY <1>1, <3>1, AppendPlaces
    <3>3. PICK n \in Nat, q \in Nat : n = Len(toRem[c]) /\ q = Len(dlq) /\ DOMAIN toRem[c] = 1..n
      BY <1>1, Places
    <3>4. n <= q /\ \A i \in 1..n : toRem[c][i] = dlq[i]
      BY <1>3, <3>3 DEF ReadOK
    <3>5. n <= q + 1 /\ \A i \in 1..n : i \in 1..q
      BY <3>3, <3>4
    <3> QED
      BY <3>1, <3>2, <3>3, <3>4, <3>5 DEF ReadOK
  <2>2. CASE \E p \in Payloads : DeadLetter(p)
    BY <1>3, <2>1, <2>2 DEF DeadLetter, callVars
  <2>3. ASSUME NEW c \in Callers, Call(c)
        PROVE  /\ \A d, e \in Callers : pc'[d] # "idle" /\ pc'[e] # "idle" => d = e
               /\ \A d \in Callers : ReadOK(d)'
    <3>1. \A d \in Callers : pc[d] = "idle"
      BY <2>3 DEF Call
    <3>2. \A d \in Callers : d # c => pc'[d] = "idle"
      BY <1>1, <2>3, <3>1 DEF Call
    <3> QED
      BY <1>5, <2>3, <3>2 DEF Call
  <2>4. ASSUME NEW c \in Callers, Lrange(c)
        PROVE  /\ \A d, e \in Callers : pc'[d] # "idle" /\ pc'[e] # "idle" => d = e
               /\ \A d \in Callers : ReadOK(d)'
    <3>1. PICK l \in Seq(Payloads) :
              /\ toRem' = [toRem EXCEPT ![c] = l]
              /\ pc' = [pc EXCEPT ![c] = IF l = <<>> THEN "idle" ELSE "add"]
              /\ Len(l) <= Len(dlq)
              /\ \A i \in DOMAIN l : l[i] = dlq[i]
      BY <2>4, BatchRead
    <3>2. pc[c] # "idle" /\ UNCHANGED dlq
      BY <2>4 DEF Lrange
    <3>3. \A d \in Callers : d # c => pc'[d] = pc[d] /\ toRem'[d] = toRem[d]
      BY <1>1, <3>1
    <3>4. toRem'[c] = l
      BY <1>1, <3>1
    <3>5. ReadOK(c)'
      BY <3>1, <3>2, <3>4 DEF ReadOK
    <3> QED
      BY <1>4, <1>5, <3>2, <3>3, <3>5
  <2>5. ASSUME NEW c \in Callers, AddToMainQueue(c)
        PROVE  /\ \A d, e \in Callers : pc'[d] # "idle" /\ pc'[e] # "idle" => d = e
               /\ \A d \in Callers : ReadOK(d)'
    <3>1. pc[c] # "idle" /\ UNCHANGED <<dlq, toRem>> /\ \A d \in Callers : d # c => pc'[d] = pc[d]
      BY <1>1, <2>5 DEF AddToMainQueue
    <3> QED
      BY <1>4, <1>5, <3>1
  <2>6. ASSUME NEW c \in Callers, LremNext(c)
        PROVE  /\ \A d, e \in Callers : pc'[d] # "idle" /\ pc'[e] # "idle" => d = e
               /\ \A d \in Callers : ReadOK(d)'
    <3>1. pc[c] # "idle"
          /\ \A d \in Callers : d # c => pc'[d] = pc[d] /\ toRem'[d] = toRem[d]
      BY <1>1, <2>6 DEF LremNext
    <3>2. \A d \in Callers : d # c => toRem[d] = <<>>
      BY <1>3, <3>1 DEF CallsOK
    <3>3. dlq' \in Seq(Payloads)
      BY <1>1, <2>6, RemoveMembers DEF LremNext
    <3>4. Len(dlq') \in Nat
      BY <3>3, Places
    <3>5. ReadOK(c)'
      BY <1>3, <2>6, LremHead
    <3> QED
      BY <1>4, <1>6, <3>1, <3>2, <3>4, <3>5
  <2>7. ASSUME NEW c \in Callers, CallFails(c)
        PROVE  /\ \A d, e \in Callers : pc'[d] # "idle" /\ pc'[e] # "idle" => d = e
               /\ \A d \in Callers : ReadOK(d)'
    <3>1. pc[c] # "idle" /\ toRem'[c] = <<>> /\ UNCHANGED dlq
          /\ \A d \in Callers : d # c => pc'[d] = pc[d] /\ toRem'[d] = toRem[d]
      BY <1>1, <2>7 DEF CallFails
    <3> QED
      BY <1>1, <1>4, <1>5, <1>6, <3>1
  <2>8. CASE UNCHANGED vars
    BY <1>3, <1>5, <2>8 DEF vars
  <2> QED
    BY <2>2, <2>3, <2>4, <2>5, <2>6, <2>7, <2>8 DEF Next, Step
<1>8. ASSUME faults' = 0, NEW p \in Payloads
      PROVE  main'[p] + Count(dlq', p) = Count(pushed', p) + Cardinality(Owed(p)')
  <2>1. \A c \in Callers : ~CallFails(c)
    BY <1>1, <1>8 DEF CallFails
  <2>2. faults = 0
    BY <1>8, <2>1 DEF Next, DeadLetter, Call, Step, Lrange, AddToMainQueue, LremNext, vars
  <2>3. \A c \in Callers : LremNext(c) => Head(toRem[c]) \in ToSet(dlq)
    BY <1>3, LremHead
  <2>4. PICK m \in Nat, q \in Nat, u \in Nat, o \in Nat :
           m = main[p] /\ q = Count(dlq, p) /\ u = Count(pushed, p) /\ o = Cardinality(Owed(p))
    BY Numbers
  <2>5. PICK n \in Nat, r \in Nat, v \in Nat, w \in Nat :
           n = main'[p] /\ r = Count(dlq', p) /\ v = Count(pushed', p) /\ w = Cardinality(Owed(p)')
    BY Balance
  <2>6. (n + r) + (u + o) = (m + q) + (v + w)
    BY <2>1, <2>3, <2>4, <2>5, Balance
  <2>7. m + q = u + o
    BY <1>3, <2>2, <2>4
  <2>8. n + r = v + w
    BY <2>6, <2>7
  <2> QED
    BY <2>5, <2>8
<1> QED
  BY <1>7, <1>8

-----------------------------------------------------------------------------
(* The theorems *)

(* The invariant holds before the first call. *)
LEMMA RedriveInit == Init => RedriveInv
<1> SUFFICES ASSUME Init PROVE RedriveInv
  OBVIOUS
<1>1. /\ <<>> \in Seq(Payloads) /\ Len(<<>>) = 0 /\ DOMAIN <<>> = {} /\ BatchSize \in Nat
      /\ 0 \in 0..MaxFaults
  BY RedriveAssumption
<1>2. TypeOK
  BY <1>1 DEF Init, TypeOK, CallState
<1>3. \A c \in Callers : toAdd[c] = <<>> /\ toRem[c] = <<>> /\ pc[c] = "idle"
  BY DEF Init
<1>4. CallsOK
  BY <1>1, <1>3 DEF CallsOK
<1>5. \A p : Owed(p) = {}
  <2>1. \A c \in Callers : \A k \in 1..BatchSize : ~(k <= Len(toRem[c]))
    BY <1>1, <1>3
  <2> QED
    BY <2>1 DEF Owed, Owes
<1>6. \A p : Count(<<>>, p) = 0
  <2>1. \A p : {i \in DOMAIN <<>> : <<>>[i] = p} = {}
    BY <1>1
  <2> QED
    BY <2>1, FS_EmptySet DEF Count
<1>7. \A p \in Payloads : main[p] = 0 /\ Count(dlq, p) = 0 /\ Count(pushed, p) = 0
  BY <1>6 DEF Init
<1>8. Cardinality({}) = 0 /\ IsFiniteSet({})
  BY FS_EmptySet
<1>9. Covered
  BY <1>5, <1>7, <1>8 DEF Covered
<1>10. AloneOK
  <2>1. \A c \in Callers : Len(toRem[c]) <= Len(dlq) /\ \A i \in DOMAIN toRem[c] : toRem[c][i] = dlq[i]
    <3>1. Len(dlq) = 0
      BY <1>1 DEF Init
    <3> QED
      BY <1>1, <1>3, <3>1
  <2>2. \A p \in Payloads : main[p] + Count(dlq, p) = Count(pushed, p) + Cardinality(Owed(p))
    BY <1>5, <1>7, <1>8
  <2> QED
    BY <1>3, <2>1, <2>2 DEF AloneOK
<1> QED
  BY <1>2, <1>4, <1>9, <1>10 DEF RedriveInv

\* RedriveInv is inductive: however many calls run at once, with dead letters arriving
\* and calls failing anywhere, what they have added covers what they will remove.
THEOREM RedriveInvariant == Spec => []RedriveInv
<1>1. RedriveInv /\ [Next]_vars => RedriveInv'
  BY TypeStep, CallsStep, CoveredStep, AloneStep DEF RedriveInv
<1> QED
  BY <1>1, RedriveInit, PTL DEF Spec

\* redrive_dlq loses no dead letter, although it removes by value.
THEOREM NoDeadLetterLost == Spec => []RedriveLosesNothing
<1>1. RedriveInv => RedriveLosesNothing
  <2> SUFFICES ASSUME RedriveInv, NEW p \in Payloads
               PROVE  main[p] + Count(dlq, p) >= Count(pushed, p)
    BY DEF RedriveLosesNothing
  <2>1. PICK m \in Nat, q \in Nat, u \in Nat, o \in Nat :
           m = main[p] /\ q = Count(dlq, p) /\ u = Count(pushed, p) /\ o = Cardinality(Owed(p))
    BY Numbers DEF RedriveInv
  <2>2. m + q >= u + o
    BY <2>1 DEF RedriveInv, Covered
  <2>3. m + q >= u
    BY <2>1, <2>2
  <2> QED
    BY <2>1, <2>3
<1> QED
  BY <1>1, RedriveInvariant, PTL

\* What a call that is alone has added and not removed is still on the list.
LEMMA OwedOnList ==
    ASSUME RedriveInv, ~overlap, NEW p \in Payloads
    PROVE  Cardinality(Owed(p)) <= Count(dlq, p)
<1>1. /\ toAdd \in [Callers -> Seq(Payloads)] /\ toRem \in [Callers -> Seq(Payloads)]
      /\ dlq \in Seq(Payloads)
  BY DEF RedriveInv, TypeOK
<1>2. /\ \A c, d \in Callers : pc[c] # "idle" /\ pc[d] # "idle" => c = d
      /\ \A c \in Callers : ReadOK(c)
      /\ \A c \in Callers : pc[c] = "idle" => toRem[c] = <<>>
  BY DEF RedriveInv, AloneOK, ReadOK, CallsOK
<1> DEFINE I == {i \in DOMAIN dlq : dlq[i] = p}
           g(x) == Len(toRem[x[1]]) - x[2] + 1
<1>3. ASSUME NEW x \in Owed(p)
      PROVE  g(x) \in I /\ pc[x[1]] # "idle" /\ x[1] \in Callers /\ x[2] \in Nat
  <2>1. x[1] \in Callers /\ x[2] \in 1..BatchSize /\ Owes(x[1], x[2], p)
    BY DEF Owed
  <2>2. PICK c \in Callers, k \in 1..BatchSize : c = x[1] /\ k = x[2]
    BY <2>1
  <2>3. PICK a \in Nat, r \in Nat, q \in Nat : a = Len(toAdd[c]) /\ r = Len(toRem[c]) /\ q = Len(dlq)
    BY <1>1, Places
  <2>4. k \in 1..r /\ toRem[c][r - k + 1] = p
    BY <2>1, <2>2, <2>3, RedriveAssumption DEF Owes, FromEnd
  <2>5. r - k + 1 \in 1..r /\ r # 0 /\ k \in Nat
    BY <2>3, <2>4
  <2>6. DOMAIN toRem[c] = 1..r /\ DOMAIN dlq = 1..q
    BY <1>1, <2>3, Places
  <2>7. r <= q /\ dlq[r - k + 1] = p
    BY <1>2, <2>3, <2>4, <2>5, <2>6 DEF ReadOK
  <2>8. r - k + 1 \in I
    BY <2>3, <2>5, <2>6, <2>7
  <2>9. toRem[c] # <<>>
    BY <1>1, <2>3, <2>5, Places
  <2> QED
    BY <1>2, <2>2, <2>3, <2>5, <2>8, <2>9
<1>4. ASSUME NEW x \in Owed(p), NEW y \in Owed(p), g(x) = g(y) PROVE x = y
  <2>1. x[1] = y[1] /\ x[2] \in Nat /\ y[2] \in Nat
    BY <1>2, <1>3
  <2>2. PICK r \in Nat : r = Len(toRem[x[1]])
    BY <1>1, <1>3, Places
  <2>3. r - x[2] + 1 = r - y[2] + 1
    BY <1>4, <2>1, <2>2
  <2>4. x[2] = y[2]
    <3>1. \A a, b, n \in Nat : n - a + 1 = n - b + 1 => a = b
      OBVIOUS
    <3> QED
      BY <2>1, <2>2, <2>3, <3>1
  <2>5. x = <<x[1], x[2]>> /\ y = <<y[1], y[2]>>
    BY OwedPairs
  <2> QED
    BY <2>1, <2>4, <2>5
<1> HIDE DEF g, I
<1> DEFINE f == [x \in Owed(p) |-> g(x)]
<1>5. f \in [Owed(p) -> I]
  BY <1>3
<1>6. \A x, y \in Owed(p) : f[x] = f[y] => x = y
  BY <1>4
<1> HIDE DEF f
<1>7. f \in Injection(Owed(p), I)
  BY <1>5, <1>6 DEF Injection, IsInjective
<1>8. IsFiniteSet(I)
  BY <1>1, CountType DEF I
<1>9. Cardinality(Owed(p)) <= Cardinality(I)
  BY <1>7, <1>8, FS_Injection
<1> QED
  BY <1>9 DEF I, Count

\* Calls of redrive_dlq that do not overlap and do not fail add every dead letter once.
THEOREM EachRedrivenOnce == Spec => []RedrivenOnce
<1>1. RedriveInv => RedrivenOnce
  <2> SUFFICES ASSUME RedriveInv, faults = 0, ~overlap, NEW p \in Payloads
               PROVE  main[p] <= Count(pushed, p)
    BY DEF RedrivenOnce
  <2>1. PICK m \in Nat, q \in Nat, u \in Nat, o \in Nat :
           m = main[p] /\ q = Count(dlq, p) /\ u = Count(pushed, p) /\ o = Cardinality(Owed(p))
    BY Numbers DEF RedriveInv
  <2>2. m + q = u + o
    BY <2>1 DEF RedriveInv, AloneOK
  <2>3. o <= q
    BY <2>1, OwedOnList
  <2>4. m <= u
    BY <2>1, <2>2, <2>3
  <2> QED
    BY <2>1, <2>4
<1> QED
  BY <1>1, RedriveInvariant, PTL

=============================================================================
