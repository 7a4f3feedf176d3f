------------------------- MODULE RedisClientsProofs -------------------------
(***************************************************************************)
(* The text format of keys reads back what it has written, for every       *)
(* payload and every count, and with it the invariants of RedisClients hold*)
(* for any number of processes, messages and receives.                     *)
(***************************************************************************)
EXTENDS RedisClients, ListLemmas

-----------------------------------------------------------------------------
(* Numbers as text *)

\* The digits as a set.
DigitSet == {Digits[i] : i \in 1..Base}

\* A list of ten, for the provers.
LEMMA TenPlaces ==
    ASSUME NEW S, NEW a \in S, NEW b \in S, NEW c \in S, NEW d \in S, NEW e \in S,
           NEW f \in S, NEW g \in S, NEW h \in S, NEW i \in S, NEW j \in S
    PROVE  /\ <<a, b, c, d, e, f, g, h, i, j>> \in Seq(S)
           /\ Len(<<a, b, c, d, e, f, g, h, i, j>>) = 10
  OBVIOUS

\* The digits: Base of them, all different, and none a separator.
LEMMA DigitsKnown ==
    /\ Base \in Nat /\ 2 <= Base
    /\ Len(Digits) = Base
    /\ DOMAIN Digits = 1..Base
    /\ \A i, j \in 1..Base : Digits[i] = Digits[j] => i = j
    /\ \A i \in 1..Base : Digits[i] \notin {"#", "|", "i"}
<1> DEFINE All == <<"0", "1", "2", "3", "4", "5", "6", "7", "8", "9">>
           D == {"0", "1", "2", "3", "4", "5", "6", "7", "8", "9"}
<1>1. /\ All[1] = "0" /\ All[2] = "1" /\ All[3] = "2" /\ All[4] = "3" /\ All[5] = "4"
      /\ All[6] = "5" /\ All[7] = "6" /\ All[8] = "7" /\ All[9] = "8" /\ All[10] = "9"
  OBVIOUS
<1>2. All \in Seq(D) /\ Len(All) = 10
  BY TenPlaces
<1>3. Digits = SubSeq(All, 1, Base)
  BY DEF Digits
<1> HIDE DEF All
<1>4. \A i \in 1..10 : i \in {1, 2, 3, 4, 5, 6, 7, 8, 9, 10}
  OBVIOUS
<1>5. \A i, j \in {1, 2, 3, 4, 5, 6, 7, 8, 9, 10} : All[i] = All[j] => i = j
  BY <1>1
<1>6. \A i \in {1, 2, 3, 4, 5, 6, 7, 8, 9, 10} : All[i] \notin {"#", "|", "i"}
  BY <1>1
<1> HIDE DEF D
<1>7. Base \in Nat /\ 2 <= Base /\ Base <= 10
  BY BaseAssumption
<1>8. Len(Digits) = Base /\ Digits \in Seq(D) /\ \A i \in 1..Base : Digits[i] = All[i]
  BY <1>2, <1>3, <1>7, SubSeqProperties
<1>9. \A i \in 1..Base : i \in 1..10
  BY <1>7
<1>10. DOMAIN Digits = 1..Base
  BY <1>8, Places
<1>11. ASSUME NEW i \in 1..Base, NEW j \in 1..Base, Digits[i] = Digits[j] PROVE i = j
  <2>1. i \in {1, 2, 3, 4, 5, 6, 7, 8, 9, 10} /\ j \in {1, 2, 3, 4, 5, 6, 7, 8, 9, 10}
    BY <1>4, <1>9, Zenon
  <2>2. All[i] = All[j]
    BY <1>8, <1>11, Zenon
  <2> QED
    BY <1>5, <2>1, <2>2, Zenon
<1>12. \A i \in 1..Base : Digits[i] \notin {"#", "|", "i"}
  BY <1>4, <1>6, <1>8, <1>9
<1> QED
  BY <1>7, <1>8, <1>10, <1>11, <1>12

\* DigitValue finds the place of a digit.
LEMMA DigitValues ==
    \A i \in 1..Base : DigitValue(Digits[i]) = i - 1
  BY DigitsKnown DEF DigitValue

\* It is a number.
LEMMA DigitValueType == \A d \in DigitSet : DigitValue(d) \in Nat
  BY DigitValues, DigitsKnown DEF DigitSet

\* Parse is what its recursion says: the function it defines exists.
LEMMA ParseUnfold ==
    ASSUME NEW s \in Seq(DigitSet)
    PROVE  \E v \in [0..Len(s) -> Nat] :
              /\ Parse(s) = v[Len(s)]
              /\ v[0] = 0
              /\ \A n \in 1..Len(s) : v[n] = v[n - 1] * Base + DigitValue(s[n])
<1> DEFINE Values(v) == [n \in 0..Len(s) |->
                           IF n = 0 THEN 0 ELSE v[n - 1] * Base + DigitValue(s[n])]
           b == [n \in 0..Len(s) |-> 0]
           prev == [n \in (0..Len(s)) \ {0} |-> n - 1]
           step == [n \in 0..Len(s) |-> [x \in Nat |->
                      IF n = 0 THEN 0 ELSE x * Base + DigitValue(s[n])]]
<1>1. Parse(s) = (CHOOSE v : v = Values(v))[Len(s)]
  BY DEF Parse
<1>2. Len(s) \in Nat /\ \A n \in 1..Len(s) : DigitValue(s[n]) \in Nat
  BY DigitValueType
<1>3. /\ 0..Len(s) \in SUBSET Nat /\ {0} \in SUBSET (0..Len(s))
      /\ b \in [0..Len(s) -> Nat]
      /\ prev \in [(0..Len(s)) \ {0} -> 0..Len(s)]
      /\ \A n \in (0..Len(s)) \ {0} : prev[n] < n
      /\ \A n \in (0..Len(s)) \ {0} : prev[n] = n - 1
  BY <1>2
<1>4. step \in [0..Len(s) -> [Nat -> Nat]]
  <2> SUFFICES ASSUME NEW n \in 0..Len(s), NEW x \in Nat
               PROVE  (IF n = 0 THEN 0 ELSE x * Base + DigitValue(s[n])) \in Nat
    OBVIOUS
  <2>1. CASE n # 0
    <3>1. n \in 1..Len(s) /\ Base \in Nat
      BY <1>2, <2>1, DigitsKnown
    <3>2. PICK d \in Nat : d = DigitValue(s[n])
      BY <1>2, <3>1
    <3>3. \A p, q, t \in Nat : (p * q) + t \in Nat
      OBVIOUS
    <3> QED
      BY <2>1, <3>1, <3>2, <3>3
  <2> QED
    BY <2>1
<1>5. \A n \in 0..Len(s) : b[n] = 0
  OBVIOUS
<1>6. \A n \in (0..Len(s)) \ {0}, x \in Nat : step[n][x] = x * Base + DigitValue(s[n])
  OBVIOUS
<1> HIDE DEF b, prev, step
<1>7. PICK v \in [0..Len(s) -> Nat] : Recurs(v, 0..Len(s), {0}, b, prev, step)
  BY <1>3, <1>4, RecursionExists
<1>8. \A n \in 0..Len(s) : v[n] = IF n = 0 THEN 0 ELSE v[n - 1] * Base + DigitValue(s[n])
  <2> TAKE n \in 0..Len(s)
  <2>1. CASE n = 0
    BY <1>5, <1>7, <2>1 DEF Recurs
  <2>2. CASE n # 0
    <3>1. n \in (0..Len(s)) \ {0} /\ n - 1 \in 0..Len(s)
      BY <1>2, <2>2
    <3>2. v[n] = step[n][v[n - 1]]
      BY <1>3, <1>7, <3>1 DEF Recurs
    <3>3. v[n - 1] \in Nat
      BY <3>1
    <3> QED
      BY <1>6, <2>2, <3>1, <3>2, <3>3
  <2> QED
    BY <2>1, <2>2
<1>9. v = Values(v)
  BY <1>8
<1>10. PICK w : w = Values(w) /\ Parse(s) = w[Len(s)]
  BY <1>1, <1>9
<1>11. w[0] = 0 /\ \A n \in 1..Len(s) : w[n] = w[n - 1] * Base + DigitValue(s[n])
  <2>1. \A n \in 0..Len(s) : w[n] = IF n = 0 THEN 0 ELSE w[n - 1] * Base + DigitValue(s[n])
    BY <1>10, Zenon
  <2>2. 0 \in 0..Len(s) /\ \A n \in 1..Len(s) : n \in 0..Len(s) /\ n # 0
    BY <1>2
  <2> QED
    BY <2>1, <2>2
<1>12. w \in [0..Len(s) -> Nat]
  <2> DEFINE W == {n \in 0..Len(s) : w[n] \notin Nat}
  <2>1. W \subseteq Nat
    BY <1>2
  <2>2. ASSUME NEW n \in W, \A i \in W : n <= i PROVE FALSE
    <3>1. n # 0 /\ n \in 1..Len(s) /\ n - 1 \in 0..Len(s) /\ n - 1 \notin W
      BY <1>2, <1>11, <2>2
    <3>2. PICK p \in Nat : p = w[n - 1]
      BY <3>1
    <3>3. PICK d \in Nat : d = DigitValue(s[n])
      BY <1>2, <3>1
    <3>4. p * Base + d \in Nat
      BY DigitsKnown
    <3> QED
      BY <1>11, <3>1, <3>2, <3>3, <3>4
  <2>3. W = {}
    <3> HIDE DEF W
    <3> QED
      BY <2>1, <2>2, LeastNumber
  <2> QED
    BY <1>10, <2>3
<1> QED
  BY <1>10, <1>11, <1>12

\* One more digit multiplies by the base and adds its value.
LEMMA ParseAppend ==
    ASSUME NEW s \in Seq(DigitSet), NEW d \in DigitSet
    PROVE  Parse(Append(s, d)) = Parse(s) * Base + DigitValue(d)
<1>1. PICK v \in [0..Len(s) -> Nat] :
        /\ Parse(s) = v[Len(s)] /\ v[0] = 0
        /\ \A n \in 1..Len(s) : v[n] = v[n - 1] * Base + DigitValue(s[n])
  BY ParseUnfold
<1>2. PICK t \in Seq(DigitSet) : t = Append(s, d)
  OBVIOUS
<1>3. Len(t) = Len(s) + 1 /\ t[Len(s) + 1] = d /\ \A i \in 1..Len(s) : t[i] = s[i]
  BY <1>2, AppendPlaces
<1>4. PICK w \in [0..Len(t) -> Nat] :
        /\ Parse(t) = w[Len(t)] /\ w[0] = 0
        /\ \A n \in 1..Len(t) : w[n] = w[n - 1] * Base + DigitValue(t[n])
  BY ParseUnfold
<1>5. PICK L \in Nat : L = Len(s) /\ L + 1 = Len(t)
  BY <1>3
<1>6. w[L] = v[L]
  <2> DEFINE W == {n \in 0..L : w[n] # v[n]}
  <2>1. W \subseteq Nat
    OBVIOUS
  <2>2. ASSUME NEW n \in W, \A i \in W : n <= i PROVE FALSE
    <3>1. n # 0
      BY <1>1, <1>4
    <3>2. n \in 1..L /\ n \in 1..L + 1 /\ n - 1 \in 0..L /\ ~(n <= n - 1)
      BY <3>1
    <3>3. w[n - 1] = v[n - 1]
      BY <2>2, <3>2
    <3>4. w[n] = w[n - 1] * Base + DigitValue(s[n]) /\ v[n] = v[n - 1] * Base + DigitValue(s[n])
      BY <1>1, <1>3, <1>4, <1>5, <3>2
    <3> QED
      BY <3>3, <3>4
  <2>3. W = {}
    <3> HIDE DEF W
    <3> QED
      BY <2>1, <2>2, LeastNumber
  <2>4. L \in 0..L
    OBVIOUS
  <2> QED
    BY <2>3, <2>4
<1>7. w[L + 1] = w[L] * Base + DigitValue(d)
  <2>1. L + 1 \in 1..L + 1 /\ (L + 1) - 1 = L
    OBVIOUS
  <2> QED
    BY <1>3, <1>4, <1>5, <2>1
<1> QED
  BY <1>1, <1>2, <1>4, <1>5, <1>6, <1>7

\* One digit is its value.
LEMMA ParseDigit ==
    ASSUME NEW d \in DigitSet
    PROVE  Parse(<<d>>) = DigitValue(d)
<1>0. <<d>> \in Seq(DigitSet) /\ Len(<<d>>) = 1 /\ <<d>>[1] = d
  OBVIOUS
<1>1. PICK t \in Seq(DigitSet) : t = <<d>> /\ Len(t) = 1 /\ t[1] = d
  BY <1>0
<1>2. PICK w \in [0..Len(t) -> Nat] :
        /\ Parse(t) = w[Len(t)] /\ w[0] = 0
        /\ \A n \in 1..Len(t) : w[n] = w[n - 1] * Base + DigitValue(t[n])
  BY ParseUnfold
<1>3. 1 \in 1..Len(t) /\ 1 - 1 = 0
  BY <1>1
<1>4. w[1] = w[1 - 1] * Base + DigitValue(d)
  BY <1>1, <1>2, <1>3
<1>5. 0 * Base = 0
  BY DigitsKnown
<1>6. DigitValue(d) \in Nat
  BY DigitValueType
<1> QED
  BY <1>1, <1>2, <1>3, <1>4, <1>5, <1>6

\* Quotient and remainder by the base.
LEMMA Division ==
    ASSUME NEW n \in Nat, ~(n < Base)
    PROVE  /\ n \div Base \in Nat /\ n \div Base < n
           /\ n % Base \in Nat /\ n % Base < Base
           /\ n = (n \div Base) * Base + (n % Base)
<1>1. Base \in 2..10
  BY BaseAssumption
<1>2. /\ n \div Base \in Nat
      /\ n % Base \in Nat /\ n % Base < Base
      /\ n = (n \div Base) * Base + (n % Base)
  BY <1>1
<1>3. n \div Base < n
  BY <1>1
<1> QED
  BY <1>2, <1>3

\* Text is what its recursion says: the function it defines exists.
LEMMA TextUnfold ==
    /\ Text \in [Nat -> Seq(DigitSet)]
    /\ \A n \in Nat : Text[n] = IF n < Base THEN <<Digits[n + 1]>>
                                ELSE Append(Text[n \div Base], Digits[(n % Base) + 1])
<1> DEFINE Small == {n \in Nat : n < Base}
           b == [n \in Nat |-> <<Digits[(n % Base) + 1]>>]
           prev == [n \in Nat \ Small |-> n \div Base]
           step == [n \in Nat |-> [x \in Seq(DigitSet) |-> Append(x, Digits[(n % Base) + 1])]]
           Texts(f) == [n \in Nat |-> IF n < Base THEN <<Digits[n + 1]>>
                                      ELSE Append(f[n \div Base], Digits[(n % Base) + 1])]
<1>1. Text = CHOOSE f : f = Texts(f)
  BY DEF Text
<1>2. \A n \in Nat : Digits[(n % Base) + 1] \in DigitSet
  <2>1. \A n \in Nat : (n % Base) + 1 \in 1..Base
    BY BaseAssumption
  <2> QED
    BY <2>1 DEF DigitSet
<1>3. \A n \in Nat : n < Base => n % Base = n
  BY BaseAssumption
<1>4. b \in [Nat -> Seq(DigitSet)] /\ step \in [Nat -> [Seq(DigitSet) -> Seq(DigitSet)]]
  BY <1>2
<1>5. \A n \in Nat \ Small : n \div Base \in Nat /\ n \div Base < n
  BY Division
<1>6. prev \in [Nat \ Small -> Nat] /\ \A n \in Nat \ Small : prev[n] < n
  BY <1>5
<1>7. Small \in SUBSET Nat /\ Nat \in SUBSET Nat
  OBVIOUS
<1>8. /\ \A n \in Small : b[n] = <<Digits[n + 1]>>
      /\ \A n \in Nat \ Small : prev[n] = n \div Base
      /\ \A n \in Nat, x \in Seq(DigitSet) : step[n][x] = Append(x, Digits[(n % Base) + 1])
  BY <1>3
<1>9. \A n \in Nat : n \in Small <=> n < Base
  OBVIOUS
<1> HIDE DEF b, prev, step, Small
<1>10. PICK f \in [Nat -> Seq(DigitSet)] : Recurs(f, Nat, Small, b, prev, step)
  BY <1>4, <1>6, <1>7, RecursionExists
<1>11. \A n \in Nat : f[n] = IF n < Base THEN <<Digits[n + 1]>>
                             ELSE Append(f[n \div Base], Digits[(n % Base) + 1])
  <2> TAKE n \in Nat
  <2>1. CASE n < Base
    BY <1>8, <1>9, <1>10, <2>1 DEF Recurs
  <2>2. CASE ~(n < Base)
    <3>1. n \in Nat \ Small
      BY <1>9, <2>2
    <3>2. f[n] = step[n][f[n \div Base]] /\ f[n \div Base] \in Seq(DigitSet)
      BY <1>5, <1>8, <1>10, <3>1 DEF Recurs
    <3>3. step[n][f[n \div Base]] = Append(f[n \div Base], Digits[(n % Base) + 1])
      BY <1>8, <3>2
    <3> QED
      BY <2>2, <3>2, <3>3
  <2> QED
    BY <2>1, <2>2
<1>12. f = Texts(f)
  BY <1>11
<1>13. Text = Texts(Text)
  BY <1>1, <1>12
<1>14. \A n \in Nat : Text[n] = IF n < Base THEN <<Digits[n + 1]>>
                                ELSE Append(Text[n \div Base], Digits[(n % Base) + 1])
  BY <1>13, Zenon
<1>15. \A n \in Nat : n < Base => n + 1 \in 1..Base
  BY BaseAssumption
<1>16. \A n \in Nat : Text[n] \in Seq(DigitSet)
  <2> DEFINE W == {n \in Nat : Text[n] \notin Seq(DigitSet)}
  <2>1. ASSUME NEW n \in W, \A i \in W : n <= i PROVE FALSE
    <3>1. CASE n < Base
      <4>1. Digits[n + 1] \in DigitSet
        BY <1>15, <3>1 DEF DigitSet
      <4>2. <<Digits[n + 1]>> \in Seq(DigitSet)
        BY <4>1
      <4>3. Text[n] = <<Digits[n + 1]>>
        BY <1>14, <3>1
      <4> QED
        BY <4>2, <4>3
    <3>2. CASE ~(n < Base)
      <4>1. n \div Base \in Nat /\ ~(n <= n \div Base)
        BY <3>2, Division
      <4>2. Text[n \div Base] \in Seq(DigitSet)
        BY <2>1, <4>1
      <4>3. Digits[(n % Base) + 1] \in DigitSet
        BY <1>2
      <4>4. Append(Text[n \div Base], Digits[(n % Base) + 1]) \in Seq(DigitSet)
        BY <4>2, <4>3
      <4>5. Text[n] = Append(Text[n \div Base], Digits[(n % Base) + 1])
        BY <1>14, <3>2
      <4> QED
        BY <4>4, <4>5
    <3> QED
      BY <3>1, <3>2
  <2>2. W \subseteq Nat
    OBVIOUS
  <2>3. W = {}
    <3> HIDE DEF W
    <3> QED
      BY <2>1, <2>2, LeastNumber
  <2> QED
    BY <2>3
<1>17. Text = [n \in Nat |-> Text[n]]
  BY <1>13, Zenon
<1> QED
  BY <1>14, <1>16, <1>17

\* usize::to_string writes digits that parse::<usize> reads as the same number.
\* By the least number for which it does not.
LEMMA TextIsNumber ==
    ASSUME NEW n \in Nat
    PROVE  /\ Text[n] \in Seq(DigitSet)
           /\ Text[n] # <<>>
           /\ Parse(Text[n]) = n
<1>1. \A k \in Nat : k < Base => k + 1 \in 1..Base
  BY BaseAssumption
<1> DEFINE Good(k) == Text[k] # <<>> /\ Parse(Text[k]) = k
           W == {k \in Nat : ~Good(k)}
<1>2. ASSUME NEW k \in W, \A i \in W : k <= i PROVE FALSE
  <2>1. CASE k < Base
    <3>1. Text[k] = <<Digits[k + 1]>> /\ k + 1 \in 1..Base
      BY <1>1, <2>1, TextUnfold
    <3>2. PICK d \in DigitSet : d = Digits[k + 1] /\ DigitValue(d) = k + 1 - 1
      BY <3>1, DigitValues DEF DigitSet
    <3>3. Text[k] = <<d>> /\ <<d>> # <<>> /\ Parse(<<d>>) = k
      BY <3>1, <3>2, ParseDigit
    <3> QED
      BY <3>3
  <2>2. CASE ~(k < Base)
    <3>1. /\ k \div Base \in Nat /\ ~(k <= k \div Base)
          /\ k % Base \in Nat /\ k % Base < Base
          /\ k = (k \div Base) * Base + (k % Base)
      BY <2>2, Division
    <3>2. PICK q \in Nat, m \in Nat : q = k \div Base /\ m = k % Base
      BY <3>1
    <3>3. m + 1 \in 1..Base /\ k = q * Base + m
      BY <1>1, <3>1, <3>2
    <3>4. PICK d \in DigitSet : d = Digits[m + 1] /\ DigitValue(d) = m + 1 - 1
      BY <3>3, DigitValues DEF DigitSet
    <3>5. Good(q)
      BY <1>2, <3>1, <3>2
    <3>6. PICK t \in Seq(DigitSet) : t = Text[q]
      BY TextUnfold
    <3>7. Text[k] = Append(t, d)
      BY <2>2, <3>2, <3>4, <3>6, TextUnfold
    <3>8. Parse(Append(t, d)) = q * Base + DigitValue(d)
      BY <3>5, <3>6, ParseAppend
    <3>9. Append(t, d) # <<>>
      <4>1. Append(t, d) \in Seq(DigitSet) /\ Len(Append(t, d)) = Len(t) + 1 /\ Len(t) \in Nat
        BY AppendPlaces, Places
      <4> QED
        BY <4>1, Places
    <3>10. DigitValue(d) = m
      BY <3>4
    <3>11. Parse(Append(t, d)) = k
      BY <3>3, <3>8, <3>10
    <3>12. Good(k)
      BY <3>7, <3>9, <3>11
    <3> QED
      BY <3>12
  <2> QED
    BY <2>1, <2>2
<1>3. W \subseteq Nat
  OBVIOUS
<1>4. W = {}
  <2> HIDE DEF W
  <2> QED
    BY <1>2, <1>3, LeastNumber
<1> QED
  BY <1>4, TextUnfold

\* The bytes of keys: those of payloads, and those the format adds.
Alphabet == Bytes \cup DigitSet \cup {"i", "#", "|"}

\* What is at each place of a key.
LEMMA NewKeyPlaces ==
    ASSUME NEW A, "i" \in A, "#" \in A, "|" \in A, NEW t \in Seq(A), NEW m \in Seq(A),
           NEW k, k = <<"i", "#">> \o t \o <<"|">> \o m
    PROVE  /\ k \in Seq(A)
           /\ Len(k) = Len(t) + 3 + Len(m)
           /\ k[1] = "i" /\ k[2] = "#"
           /\ \A i \in 1..Len(t) : k[i + 2] = t[i]
           /\ k[Len(t) + 3] = "|"
           /\ \A i \in 1..Len(m) : k[i + Len(t) + 3] = m[i]
<1>1. <<"i", "#">> \in Seq(A) /\ Len(<<"i", "#">>) = 2
  OBVIOUS
<1>2. <<"|">> \in Seq(A) /\ Len(<<"|">>) = 1
  OBVIOUS
<1>3. PICK a \in Seq(A) : a = <<"i", "#">> /\ Len(a) = 2 /\ a[1] = "i" /\ a[2] = "#"
  BY <1>1
<1>4. PICK c \in Seq(A) : c = <<"|">> /\ Len(c) = 1 /\ c[1] = "|"
  BY <1>2
<1>5. k = a \o t \o c \o m
  BY <1>3, <1>4
<1>6. PICK n \in Nat, l \in Nat : n = Len(t) /\ l = Len(m)
  BY Places
<1>7. PICK u : u \in Seq(A) /\ u = a \o t
  BY ConcatProperties
<1>8. Len(u) = n + 2 /\ u[1] = "i" /\ u[2] = "#" /\ \A i \in 1..n : u[i + 2] = t[i]
  BY <1>3, <1>6, <1>7
<1>9. PICK v : v \in Seq(A) /\ v = u \o c
  BY <1>7, ConcatProperties
<1>10. /\ Len(v) = n + 3 /\ v[1] = "i" /\ v[2] = "#" /\ v[n + 3] = "|"
       /\ \A i \in 1..n : v[i + 2] = t[i]
  BY <1>4, <1>6, <1>8, <1>9
<1>11. k = v \o m
  BY <1>5, <1>7, <1>9
<1>12. /\ k \in Seq(A) /\ Len(k) = n + 3 + l /\ k[1] = "i" /\ k[2] = "#" /\ k[n + 3] = "|"
       /\ \A i \in 1..n : k[i + 2] = t[i]
  BY <1>6, <1>10, <1>11
<1>13. \A i \in 1..l : k[i + n + 3] = m[i]
  <2> TAKE i \in 1..l
  <2>1. i + n + 3 \in 1..Len(v) + l /\ ~(i + n + 3 <= Len(v)) /\ (i + n + 3) - Len(v) = i
    BY <1>10
  <2> QED
    BY <1>6, <1>9, <1>11, <2>1, ConcatProperties
<1> QED
  BY <1>6, <1>12, <1>13

\* What is at each place of a key of the old form.
LEMMA OldKeyPlaces ==
    ASSUME NEW A, "i" \in A, "|" \in A, NEW m \in Seq(A)
    PROVE  LET k == OldListPayload(m)
           IN  /\ k \in Seq(A)
               /\ Len(k) = Len(m) + 2
               /\ k[1] = "i" /\ k[2] = "|"
               /\ \A i \in 1..Len(m) : k[i + 2] = m[i]
<1>1. PICK a \in Seq(A) : a = <<"i", "|">> /\ Len(a) = 2 /\ a[1] = "i" /\ a[2] = "|"
  <2>1. <<"i", "|">> \in Seq(A) /\ Len(<<"i", "|">>) = 2 
    OBVIOUS
  <2> QED
    BY <2>1
<1>2. OldListPayload(m) = a \o m
  BY <1>1 DEF OldListPayload
<1> QED
  BY <1>1, <1>2

\* Position is the first place.
LEMMA PositionFound ==
    ASSUME NEW A, NEW k \in Seq(A), NEW b, NEW p \in 1..Len(k), k[p] = b,
           \A i \in 1..p - 1 : k[i] # b
    PROVE  Position(k, b) = p
<1>1. PICK n \in Nat : n = Len(k) /\ DOMAIN k = 1..n
  BY Places
<1>2. \A j \in 1..n : k[j] = b => p <= j
  BY <1>1
<1>3. \A j \in 1..n : k[j] = b /\ (\A i \in 1..n : k[i] = b => j <= i) => j = p
  BY <1>1, <1>2
<1> QED
  BY <1>1, <1>2, <1>3 DEF Position

\* A slice of k is t if its places are those of t.
LEMMA SlicePlaces ==
    ASSUME NEW A, NEW k \in Seq(A), NEW t \in Seq(A), NEW d \in Nat, d + Len(t) <= Len(k),
           \A i \in 1..Len(t) : k[i + d] = t[i]
    PROVE  SubSeq(k, d + 1, d + Len(t)) = t
<1>1. PICK n \in Nat : n = Len(t)
  BY Places
<1>2. PICK u : u = SubSeq(k, d + 1, d + n)
  OBVIOUS
<1>3. \A i \in d + 1..d + n : i \in 1..Len(k) /\ k[i] \in A
  BY <1>1, Places
<1>4. /\ u \in Seq(A) /\ Len(u) = (IF d + 1 <= d + n THEN (d + n) - (d + 1) + 1 ELSE 0)
      /\ \A i \in 1..(d + n) - (d + 1) + 1 : u[i] = k[d + 1 + i - 1]
  <2>1. PICK lo \in Int, hi \in Int : lo = d + 1 /\ hi = d + n
    OBVIOUS
  <2>2. \A i \in lo..hi : k[i] \in A
    BY <1>3, <2>1
  <2>3. /\ SubSeq(k, lo, hi) \in Seq(A)
        /\ Len(SubSeq(k, lo, hi)) = IF lo <= hi THEN hi - lo + 1 ELSE 0
        /\ \A i \in 1..hi - lo + 1 : SubSeq(k, lo, hi)[i] = k[lo + i - 1]
    BY <2>2, SubSeqProperties
  <2> QED
    BY <1>2, <2>1, <2>3
<1>5. Len(u) = n
  BY <1>4
<1>6. \A i \in 1..n : u[i] = t[i]
  <2> TAKE i \in 1..n
  <2>1. i \in 1..(d + n) - (d + 1) + 1 /\ d + 1 + i - 1 = i + d
    OBVIOUS
  <2> QED
    BY <1>1, <1>4, <2>1
<1> QED
  BY <1>1, <1>2, <1>4, <1>5, <1>6, SeqEqual

\* internal_from_list reads what internal_to_list_payload has written, for every
\* payload, also one full of separators and digits, and every count, which the
\* receive increases by one.
THEOREM RoundTrip ==
    ASSUME NEW m \in Seq(Bytes), NEW n \in Nat
    PROVE  InternalFromList(InternalToListPayload(m, n)) =
               [result |-> "ok", num_receives |-> n + 1, payload |-> m]
<1>1. PICK A : A = Alphabet
  OBVIOUS
<1>2. m \in Seq(A) /\ "i" \in A /\ "#" \in A /\ "|" \in A
  BY <1>1, SeqMonotonic DEF Alphabet
<1>3. PICK t \in Seq(DigitSet) : t = Text[n] /\ t # <<>> /\ Parse(t) = n
  BY TextIsNumber
<1>4. t \in Seq(A)
  BY <1>1, SeqMonotonic DEF Alphabet
<1>5. PICK k : k = InternalToListPayload(m, n)
  OBVIOUS
<1>6. PICK T \in Nat, M \in Nat : T = Len(t) /\ M = Len(m)
  BY <1>2, Places
<1>7. /\ k \in Seq(A)
      /\ Len(k) = T + 3 + M
      /\ k[1] = "i" /\ k[2] = "#"
      /\ \A i \in 1..T : k[i + 2] = t[i]
      /\ k[T + 3] = "|"
      /\ \A i \in 1..M : k[i + T + 3] = m[i]
  <2>1. k = <<"i", "#">> \o t \o <<"|">> \o m
    BY <1>3, <1>5 DEF InternalToListPayload
  <2> QED
    BY <1>2, <1>4, <1>6, <2>1, NewKeyPlaces
<1>8. Position(k, "#") = 2
  <2>1. 2 \in 1..Len(k) /\ \A i \in 1..2 - 1 : k[i] # "#"
    BY <1>7
  <2> QED
    BY <1>7, <2>1, PositionFound
<1>9. Position(k, "|") = T + 3
  <2>1. T + 3 \in 1..Len(k)
    BY <1>7
  <2>2. ASSUME NEW i \in 1..(T + 3) - 1 PROVE k[i] # "|"
    <3>1. CASE i = 1 \/ i = 2
      BY <1>7, <3>1
    <3>2. CASE ~(i = 1 \/ i = 2)
      <4>1. i - 2 \in 1..T /\ (i - 2) + 2 = i
        BY <3>2
      <4>2. k[i] = t[i - 2]
        BY <1>7, <4>1
      <4>3. t[i - 2] \in DigitSet
        BY <1>6, <4>1, Places
      <4> QED
        BY <4>2, <4>3, DigitsKnown DEF DigitSet
    <3> QED
      BY <3>1, <3>2
  <2> QED
    BY <1>7, <2>1, <2>2, PositionFound
<1>10. SubSeq(k, 2 + 1, T + 3 - 1) = t
  <2>1. 2 + T <= Len(k) /\ 2 + T = T + 3 - 1
    BY <1>7
  <2>2. SubSeq(k, 2 + 1, 2 + Len(t)) = t
    BY <1>4, <1>6, <1>7, <2>1, SlicePlaces
  <2> QED
    BY <1>6, <2>1, <2>2
<1>11. SubSeq(k, T + 3 + 1, Len(k)) = m
  <2>1. T + 3 \in Nat /\ (T + 3) + M <= Len(k) /\ (T + 3) + M = Len(k)
    BY <1>7
  <2>2. \A i \in 1..M : k[i + (T + 3)] = m[i]
    BY <1>7
  <2>3. SubSeq(k, (T + 3) + 1, (T + 3) + Len(m)) = m
    BY <1>2, <1>6, <1>7, <2>1, <2>2, SlicePlaces
  <2> QED
    BY <1>6, <2>1, <2>3
<1>12. IsNumber(t)
  <2>1. \A i \in DOMAIN t : t[i] \in DigitSet
    BY Places
  <2> QED
    BY <1>3, <2>1, DigitsKnown DEF IsNumber, DigitSet
<1>13. 2 # 0 /\ T + 3 # 0 /\ ~(2 > T + 3)
  OBVIOUS
<1>14. InternalFromList(k) = [result |-> "ok", num_receives |-> Parse(t) + 1, payload |-> m]
  <2>1. PICK c, p : c = Position(k, "#") /\ p = Position(k, "|")
    OBVIOUS
  <2>2. c # 0 /\ p # 0 /\ ~(c > p)
    BY <1>8, <1>9, <1>13, <2>1
  <2>4. c = 2 /\ p = T + 3
    BY <1>8, <1>9, <2>1, Zenon
  <2>5. SubSeq(k, c + 1, p - 1) = t
    <3>1. c + 1 = 2 + 1 /\ p - 1 = T + 3 - 1
      BY <2>4
    <3> QED
      BY <1>10, <3>1, Zenon
  <2>6. SubSeq(k, p + 1, Len(k)) = m
    BY <1>11, <2>4, Zenon
  <2> QED
    BY <1>12, <2>1, <2>2, <2>5, <2>6 DEF InternalFromList
<1> QED
  BY <1>3, <1>5, <1>14

\* internal_from_list reads a key of the old form as one that was never received
\* if its payload has no '#', and panics at every other.
THEOREM OldTrip ==
    ASSUME NEW m \in Seq(Bytes)
    PROVE  InternalFromList(OldListPayload(m)) =
               IF \E i \in DOMAIN m : m[i] = "#" THEN [result |-> "panic"]
               ELSE [result |-> "ok", num_receives |-> 1, payload |-> m]
<1>1. PICK A : A = Alphabet
  OBVIOUS
<1>2. m \in Seq(A) /\ "i" \in A /\ "|" \in A
  BY <1>1, SeqMonotonic DEF Alphabet
<1>3. PICK k : k = OldListPayload(m)
  OBVIOUS
<1>4. PICK M \in Nat : M = Len(m) /\ DOMAIN m = 1..M
  BY <1>2, Places
<1>5. /\ k \in Seq(A) /\ Len(k) = M + 2
      /\ k[1] = "i" /\ k[2] = "|"
      /\ \A i \in 1..M : k[i + 2] = m[i]
  BY <1>2, <1>3, <1>4, OldKeyPlaces
<1>6. Position(k, "|") = 2
  <2>1. 2 \in 1..Len(k) /\ \A i \in 1..2 - 1 : k[i] # "|"
    BY <1>5
  <2> QED
    BY <1>5, <2>1, PositionFound
<1>7. SubSeq(k, 2 + 1, Len(k)) = m
  <2>1. 2 + M <= Len(k) /\ 2 + M = Len(k)
    BY <1>5
  <2>2. SubSeq(k, 2 + 1, 2 + Len(m)) = m
    BY <1>2, <1>4, <1>5, <2>1, SlicePlaces
  <2> QED
    BY <1>4, <2>1, <2>2
<1>8. CASE \E i \in DOMAIN m : m[i] = "#"
  <2> DEFINE I == {i \in 1..Len(k) : k[i] = "#"}
  <2>1. PICK p \in I : \A i \in I : p <= i
    <3>1. PICK i \in 1..M : m[i] = "#"
      BY <1>4, <1>8
    <3>2. i + 2 \in I /\ I \subseteq Nat
      BY <1>5, <3>1
    <3> HIDE DEF I
    <3> QED
      BY <3>2, LeastNumber
  <2>2. p \in 1..Len(k) /\ k[p] = "#" /\ \A i \in 1..p - 1 : k[i] # "#"
    BY <1>5, <2>1
  <2>3. p # 1 /\ p # 2
    BY <1>5, <2>2
  <2>4. p > 2
    BY <1>5, <2>2, <2>3
  <2>5. Position(k, "#") = p
    BY <1>5, <2>2, PositionFound
  <2>6. InternalFromList(k) = [result |-> "panic"]
    BY <1>6, <2>4, <2>5 DEF InternalFromList
  <2> QED
    BY <1>3, <1>8, <2>6
<1>9. CASE ~(\E i \in DOMAIN m : m[i] = "#")
  <2>1. \A i \in DOMAIN k : k[i] # "#"
    <3> TAKE i \in DOMAIN k
    <3>1. i \in 1..M + 2
      BY <1>5, Places
    <3>2. CASE i = 1 \/ i = 2
      BY <1>5, <3>2
    <3>3. CASE ~(i = 1 \/ i = 2)
      <4>1. i - 2 \in 1..M /\ (i - 2) + 2 = i
        BY <3>1, <3>3
      <4> QED
        BY <1>4, <1>5, <1>9, <4>1
    <3> QED
      BY <3>2, <3>3
  <2>2. Position(k, "#") = 0
    BY <2>1 DEF Position
  <2>3. InternalFromList(k) = [result |-> "ok", num_receives |-> 1, payload |-> m]
    <3>1. PICK c, p : c = Position(k, "#") /\ p = Position(k, "|")
      OBVIOUS
    <3>2. c = 0 /\ p # 0 /\ ~(c > p)
      BY <1>6, <2>2, <3>1
    <3>3. SubSeq(k, p + 1, Len(k)) = m
      BY <1>6, <1>7, <3>1, Zenon
    <3> QED
      BY <3>1, <3>2, <3>3 DEF InternalFromList
  <2> QED
    BY <1>3, <1>9, <2>3
<1> QED
  BY <1>8, <1>9

-----------------------------------------------------------------------------
(* Keys *)

\* An old key determines its message, also where it cannot be read.
LEMMA OldKeyTells ==
    ASSUME NEW m \in Seq(Bytes), NEW l \in Seq(Bytes), OldListPayload(m) = OldListPayload(l)
    PROVE  m = l
<1>1. PICK A : A = Alphabet
  OBVIOUS
<1>2. m \in Seq(A) /\ l \in Seq(A) /\ "i" \in A /\ "|" \in A
  BY <1>1, SeqMonotonic DEF Alphabet
<1>3. PICK M \in Nat, L \in Nat : M = Len(m) /\ L = Len(l)
  BY <1>2, Places
<1>4. PICK k : k = OldListPayload(m) /\ k = OldListPayload(l)
  OBVIOUS
<1>5. Len(k) = M + 2 /\ \A i \in 1..M : k[i + 2] = m[i]
  BY <1>2, <1>3, <1>4, OldKeyPlaces
<1>6. Len(k) = L + 2 /\ \A i \in 1..L : k[i + 2] = l[i]
  BY <1>2, <1>3, <1>4, OldKeyPlaces
<1>7. M = L /\ \A i \in 1..M : m[i] = l[i]
  BY <1>5, <1>6
<1> QED
  BY <1>2, <1>3, <1>7, SeqEqual

\* The fields of a copy.
LEMMA Fields ==
    ASSUME NEW i, NEW m, NEW n
    PROVE  /\ Internal(i, m, n).id = i /\ Internal(i, m, n).payload = m
           /\ Internal(i, m, n).num_receives = n
           /\ i \in Ids /\ m \in Messages /\ n \in Nat =>
                 Internal(i, m, n) \in [id : Ids, payload : Messages, num_receives : Nat]
  BY DEF Internal

\* A key is read as what it was made of.
LEMMA NewKey ==
    ASSUME NEW i, NEW m \in Messages, NEW n \in Nat, NEW k, k = Key(i, InternalToListPayload(m, n))
    PROVE  Legible(k) /\ k.id = i /\ Decode(k) = Internal(i, m, n + 1)
<1>1. m \in Seq(Bytes)
  BY ClientsAssumption DEF Messages
<1>2. k.id = i /\ k.text = InternalToListPayload(m, n)
  BY DEF Key
<1>3. PICK r : r = InternalFromList(k.text)
  OBVIOUS
<1>4. r = [result |-> "ok", num_receives |-> n + 1, payload |-> m]
  BY <1>1, <1>2, <1>3, RoundTrip
<1>5. r.result = "ok" /\ r.num_receives = n + 1 /\ r.payload = m
  BY <1>4
<1> QED
  BY <1>2, <1>3, <1>5 DEF Legible, Decode

\* A key in PanicKeys cannot be read.
LEMMA Illegible ==
    ASSUME NEW k, k.text \in PanicKeys
    PROVE  /\ ~Legible(k) /\ InternalFromList(k.text).result = "panic"
           /\ Decode(k) = Internal(k.id, k.text, 0) /\ Decode(k).num_receives = 0
<1>1. InternalFromList(k.text).result = "panic"
  BY DEF PanicKeys
<1> QED
  BY <1>1, Fields DEF Legible, Decode

\* An old key is read as one that was never received, or is one of PanicKeys.
LEMMA OldKeys ==
    ASSUME NEW m \in OldPayloads, NEW k, k = OldKey(m)
    PROVE  /\ k.id \in Ids
           /\ \/ /\ Legible(k) /\ Decode(k) = Internal(k.id, m, 1)
              \/ /\ k.text \in PanicKeys /\ k.text = OldListPayload(m) /\ Unreadable(m)
                 /\ Decode(k) = Internal(k.id, k.text, 0)
<1>1. m \in Seq(Bytes) /\ Ids # {}
  BY ClientsAssumption
<1>2. k.id \in Ids /\ k.text = OldListPayload(m)
  BY <1>1 DEF OldKey, Key
<1>3. PICK r : r = InternalFromList(k.text)
  OBVIOUS
<1>4. \/ r = [result |-> "panic"]
      \/ r = [result |-> "ok", num_receives |-> 1, payload |-> m]
  BY <1>1, <1>2, <1>3, OldTrip
<1>5. CASE r = [result |-> "panic"]
  <2>1. r.result = "panic"
    BY <1>5
  <2>2. k.text \in PanicKeys
    BY <1>2, <1>3, <2>1 DEF PanicKeys
  <2> QED
    BY <1>2, <2>2, Illegible DEF Unreadable
<1>6. CASE r = [result |-> "ok", num_receives |-> 1, payload |-> m]
  <2>1. r.result = "ok" /\ r.num_receives = 1 /\ r.payload = m
    BY <1>6
  <2> QED
    BY <1>2, <1>3, <2>1 DEF Legible, Decode
<1> QED
  BY <1>4, <1>5, <1>6

-----------------------------------------------------------------------------
(* What a step does to the copies *)

\* Copies are in one place, and say a number.
Sane ==
    /\ \A c \in Waiting \cup Out \cup Later : c.num_receives \in Nat
    /\ Waiting \cap Out = {} /\ Waiting \cap Later = {} /\ Out \cap Later = {}

\* What is to be shown of them.
Facts == CopiesOK /\ LiveOK /\ NoneLost

HandsStay == UNCHANGED <<Claimed, Copied, Fetched, Added>>

\* Numbers of receives are numbers.
LEMMA Counts ==
    ASSUME TypeOK
    PROVE  /\ sent \subseteq Messages
           /\ \A m \in sent : receives[m] \in Nat
           /\ \A m \in Messages : receives[m] \in 0..MaxReceives /\ receives[m] \in Nat
  BY ClientsAssumption DEF TypeOK

\* What tasks hold are copies of messages.
LEMMA HandTypes ==
    ASSUME TypeOK
    PROVE  \A c \in Claimed \cup Copied \cup Fetched \cup Added :
               c.id \in Ids /\ c.payload \in Messages /\ c.num_receives \in Nat
<1> DEFINE Copies == [id : Ids, payload : Messages, num_receives : Nat]
<1>1. /\ claimed \in [Processes -> SUBSET Copies] /\ copied \in [Processes -> SUBSET Copies]
      /\ fetched \in [Processes -> SUBSET Copies] /\ added \in [Processes -> SUBSET Copies]
  BY DEF TypeOK
<1>2. Claimed \cup Copied \cup Fetched \cup Added \subseteq Copies
  BY <1>1 DEF Claimed, Copied, Fetched, Added
<1> QED
  BY <1>2

\* Nothing happens to them.
LEMMA FactsStay ==
    ASSUME Facts, HandsStay, UNCHANGED <<Waiting, Out, Later, sent, receives, torn>>
    PROVE  Facts'
<1>1. CopiesOK'
  BY DEF Facts, CopiesOK, HandsStay
<1>2. LiveOK'
  BY DEF Facts, LiveOK, Live, HandsStay
<1>3. NoneLost'
  BY DEF Facts, NoneLost, Kept, Readable, HandsStay
<1> QED
  BY <1>1, <1>2, <1>3 DEF Facts

\* A message is sent: there is no copy of it yet.
LEMMA SentWaiting ==
    ASSUME TypeOK, Sane, Facts, HandsStay, NEW c, NEW m \in Messages \ sent,
           c.payload = m, c.num_receives = 1, receives[m] = 0,
           Waiting' = Waiting \cup {c}, c \notin Out \cup Later, sent' = sent \cup {m},
           UNCHANGED <<Out, Later, receives, torn>>
    PROVE  Facts'
<1>0. CopiesOK /\ LiveOK /\ NoneLost /\ \A l \in sent : receives[l] \in Nat
  BY Counts DEF Facts
<1>1. CopiesOK'
  BY <1>0 DEF CopiesOK, HandsStay
<1>2. LiveOK'
  <2>1. Live' \subseteq Live \cup {c}
    BY DEF Live, HandsStay
  <2>2. \A d \in Live : d.payload # m
    BY <1>0 DEF Live, CopiesOK
  <2>3. \A d, e \in Live' : d # e /\ d.payload = e.payload => d.payload \in torn
    BY <1>0, <2>1, <2>2 DEF LiveOK
  <2> QED
    BY <1>0, <2>3 DEF LiveOK, HandsStay
<1>3. NoneLost'
  BY <1>0 DEF NoneLost, Kept, Readable, HandsStay
<1> QED
  BY <1>1, <1>2, <1>3 DEF Facts

\* The same, into the delayed set.
LEMMA SentLater ==
    ASSUME TypeOK, Sane, Facts, HandsStay, NEW c, NEW m \in Messages \ sent,
           c.payload = m, c.num_receives = 1, receives[m] = 0,
           Later' = Later \cup {c}, c \notin Waiting \cup Out, sent' = sent \cup {m},
           UNCHANGED <<Waiting, Out, receives, torn>>
    PROVE  Facts'
<1>0. CopiesOK /\ LiveOK /\ NoneLost /\ \A l \in sent : receives[l] \in Nat
  BY Counts DEF Facts
<1>1. CopiesOK'
  BY <1>0 DEF CopiesOK, HandsStay
<1>2. LiveOK'
  <2>1. Live' \subseteq Live \cup {c}
    BY DEF Live, HandsStay
  <2>2. \A d \in Live : d.payload # m
    BY <1>0 DEF Live, CopiesOK
  <2>3. \A d, e \in Live' : d # e /\ d.payload = e.payload => d.payload \in torn
    BY <1>0, <2>1, <2>2 DEF LiveOK
  <2> QED
    BY <1>0, <2>3 DEF LiveOK, HandsStay
<1>3. NoneLost'
  BY <1>0 DEF NoneLost, Kept, Readable, HandsStay
<1> QED
  BY <1>1, <1>2, <1>3 DEF Facts

\* A consumer receives a copy, which was live and the only one of an undisturbed
\* message.
LEMMA CopyReceived ==
    ASSUME TypeOK, Sane, Facts, HandsStay, NEW c \in Waiting, c.num_receives > 0,
           Waiting' = Waiting \ {c}, Out' = Out \cup {c},
           receives' = [receives EXCEPT ![c.payload] = @ + 1],
           UNCHANGED <<Later, sent, torn>>
    PROVE  Facts'
<1>0. CopiesOK /\ LiveOK /\ NoneLost
  BY DEF Facts
<1>1. PICK m \in sent : m = c.payload
  BY <1>0 DEF CopiesOK
<1>2. PICK n \in Nat : n = receives[m]
  BY Counts
<1>3. c.num_receives <= n + 1 /\ (m \notin torn => c.num_receives = n + 1)
  BY <1>0, <1>1, <1>2 DEF CopiesOK, LiveOK
<1>4. receives'[m] = n + 1 /\ \A l \in Messages : l # m => receives'[l] = receives[l]
  BY <1>1, <1>2, Counts DEF TypeOK
<1>5. \A l \in sent : receives[l] \in Nat /\ receives'[l] \in Nat /\ receives[l] <= receives'[l]
  BY <1>2, <1>4, Counts
<1>6. c \in Live
  BY DEF Live
<1>7. \A d \in Live : d # c /\ d.payload = m => m \in torn
  BY <1>0, <1>1, <1>6 DEF LiveOK
<1>8. CopiesOK'
  <2>1. \A d \in Waiting' : d.num_receives > 0 =>
           d.payload \in sent /\ d.num_receives <= receives'[d.payload] + 1
    BY <1>0, <1>5 DEF CopiesOK, Sane
  <2>2. \A d \in Out' : d.num_receives > 0 =>
           d.payload \in sent /\ d.num_receives <= receives'[d.payload]
    <3> TAKE d \in Out'
    <3>1. CASE d = c
      BY <1>1, <1>3, <1>4, <3>1
    <3>2. CASE d \in Out
      BY <1>0, <1>5, <3>2 DEF CopiesOK, Sane
    <3> QED
      BY <3>1, <3>2
  <2>3. \A d \in Claimed \cup Copied :
          d.num_receives > 0 /\ d.payload \in sent /\ d.num_receives <= receives'[d.payload]
    <3> TAKE d \in Claimed \cup Copied
    <3>1. d.num_receives \in Nat
      BY HandTypes
    <3>2. d.num_receives > 0 /\ d.payload \in sent /\ d.num_receives <= receives[d.payload]
      BY <1>0 DEF CopiesOK
    <3> QED
      BY <1>5, <3>1, <3>2
  <2>4. /\ \A d \in Later : d.num_receives > 0 => d.payload \in sent
        /\ \A d \in Fetched \cup Added : d.num_receives > 0 /\ d.payload \in sent
    BY <1>0 DEF CopiesOK
  <2> QED
    BY <2>1, <2>2, <2>3, <2>4 DEF CopiesOK, HandsStay
<1>9. LiveOK'
  <2>1. Live' \subseteq Live
    BY <1>6 DEF Live, HandsStay
  <2>2. \A d, e \in Live' : d # e /\ d.payload = e.payload => d.payload \in torn
    BY <1>0, <2>1 DEF LiveOK
  <2>3. \A d \in Waiting' : d.num_receives > 0 /\ d.payload \notin torn => d.payload # m
    <3> TAKE d \in Waiting'
    <3>1. d.num_receives > 0 => d \in Live
      BY DEF Live
    <3> QED
      BY <1>7, <3>1
  <2>4. \A d \in Out \ Copied : d.num_receives > 0 /\ d.payload \notin torn => d.payload # m
    <3> TAKE d \in Out \ Copied
    <3>1. d.num_receives > 0 => d \in Live /\ d # c
      BY DEF Live, Sane
    <3> QED
      BY <1>7, <3>1
  <2>5. \A d \in Later \ Added : d.num_receives > 0 /\ d.payload \notin torn => d.payload # m
    <3> TAKE d \in Later \ Added
    <3>1. d.num_receives > 0 => d \in Live /\ d # c
      BY DEF Live, Sane
    <3> QED
      BY <1>7, <3>1
  <2>6. \A d \in Waiting' : d.num_receives > 0 /\ d.payload \notin torn =>
           d.num_receives = receives'[d.payload] + 1
    BY <1>0, <1>4, <2>3, Counts DEF LiveOK, CopiesOK
  <2>7. \A d \in Out' \ Copied' : d.num_receives > 0 /\ d.payload \notin torn =>
           d.num_receives = receives'[d.payload]
    <3> TAKE d \in Out' \ Copied'
    <3>1. CASE d = c
      BY <1>1, <1>3, <1>4, <3>1
    <3>2. CASE d \in Out \ Copied
      BY <1>0, <1>4, <2>4, <3>2, Counts DEF LiveOK, CopiesOK
    <3> QED
      BY <3>1, <3>2 DEF HandsStay
  <2>8. \A d \in Later \ Added : d.num_receives > 0 /\ d.payload \notin torn =>
           receives'[d.payload] = 0
    BY <1>0, <1>4, <2>5, Counts DEF LiveOK, CopiesOK
  <2> QED
    BY <2>2, <2>6, <2>7, <2>8 DEF LiveOK, HandsStay
<1>10. NoneLost'
  <2>1. ASSUME NEW l \in sent, NEW S, NEW T, S \subseteq T \cup {c}, Kept(l, S)
        PROVE  receives'[l] > 0 \/ \E d \in T : d.payload = l /\ d.num_receives > 0
    <3>1. CASE receives[l] > 0
      BY <1>5, <3>1
    <3>2. CASE l = m
      BY <1>4, <3>2
    <3>3. CASE l # m /\ \E d \in S : d.payload = l /\ d.num_receives > 0
      BY <1>1, <2>1, <3>3
    <3> QED
      BY <2>1, <3>1, <3>2, <3>3 DEF Kept
  <2>2. \A l \in Readable : Kept(l, Waiting \cup Later)'
    <3> TAKE l \in Readable
    <3>1. l \in sent /\ Kept(l, Waiting \cup Later)
      BY <1>0 DEF NoneLost, Readable
    <3>2. Waiting \cup Later \subseteq (Waiting' \cup Later') \cup {c}
      OBVIOUS
    <3> QED
      BY <2>1, <3>1, <3>2 DEF Kept
  <2>3. \A d \in Added : Kept(d.payload, Waiting)'
    <3> TAKE d \in Added
    <3>1. d.payload \in sent /\ Kept(d.payload, Waiting)
      BY <1>0 DEF NoneLost, CopiesOK
    <3>2. Waiting \subseteq Waiting' \cup {c}
      OBVIOUS
    <3> QED
      BY <2>1, <3>1, <3>2 DEF Kept
  <2>4. Readable' = Readable
    BY DEF Readable
  <2> QED
    BY <2>2, <2>3, <2>4 DEF NoneLost, HandsStay
<1> QED
  BY <1>8, <1>9, <1>10 DEF Facts

\* A consumer meets a copy it cannot read.
LEMMA CopyStuck ==
    ASSUME Facts, HandsStay, NEW c \in Waiting, c.num_receives = 0,
           Waiting' = Waiting \ {c}, Out' = Out \cup {c}, UNCHANGED <<Later, sent, receives, torn>>
    PROVE  Facts'
<1>0. CopiesOK /\ LiveOK /\ NoneLost
  BY DEF Facts
<1>1. CopiesOK'
  BY <1>0 DEF CopiesOK, HandsStay
<1>2. LiveOK'
  <2>1. Live' = Live
    BY DEF Live, HandsStay
  <2> QED
    BY <1>0, <2>1 DEF LiveOK, HandsStay
<1>3. NoneLost'
  BY <1>0 DEF NoneLost, Kept, Readable, HandsStay
<1> QED
  BY <1>1, <1>2, <1>3 DEF Facts

\* Copies that were handed out are removed, by an ack or because they were put back.
LEMMA CopiesRemoved ==
    ASSUME Facts, Out' \subseteq Out, Copied' \subseteq Copied, Copied \cap Out' \subseteq Copied',
           UNCHANGED <<Waiting, Later, Claimed, Fetched, Added, sent, receives, torn>>
    PROVE  Facts'
<1>0. CopiesOK /\ LiveOK /\ NoneLost
  BY DEF Facts
<1>1. CopiesOK'
  BY <1>0 DEF CopiesOK
<1>2. LiveOK'
  <2>1. Live' \subseteq Live /\ Out' \ Copied' \subseteq Out \ Copied
    BY DEF Live
  <2> QED
    BY <1>0, <2>1 DEF LiveOK
<1>3. NoneLost'
  BY <1>0 DEF NoneLost, Kept, Readable
<1> QED
  BY <1>1, <1>2, <1>3 DEF Facts

\* A task reads a copy that was handed out, or one in the delayed set.
LEMMA CopyRead ==
    ASSUME Facts, NEW c, c.num_receives > 0,
           \/ c \in Out /\ Claimed' \subseteq Claimed \cup {c} /\ UNCHANGED Fetched
           \/ c \in Later /\ Fetched' \subseteq Fetched \cup {c} /\ UNCHANGED Claimed,
           UNCHANGED <<Waiting, Out, Later, Copied, Added, sent, receives, torn>>
    PROVE  Facts'
<1>0. CopiesOK /\ LiveOK /\ NoneLost
  BY DEF Facts
<1>1. CopiesOK'
  BY <1>0 DEF CopiesOK
<1>2. LiveOK'
  BY <1>0 DEF LiveOK, Live
<1>3. NoneLost'
  BY <1>0 DEF NoneLost, Kept, Readable
<1> QED
  BY <1>1, <1>2, <1>3 DEF Facts

\* A copy goes back to the queue.  If nobody else was at it, it is no longer live,
\* and the one that replaces it counts one receive more.
LEMMA CopyPutBack ==
    ASSUME TypeOK, Sane, Facts, NEW c \in Claimed, NEW d, d \notin Out \cup Later,
           d.payload = c.payload, d.num_receives = c.num_receives + 1,
           Waiting' = Waiting \cup {d}, Claimed' \subseteq Claimed, Copied' = Copied \cup {c},
           torn' = IF c \in Out \ Copied THEN torn ELSE torn \cup {c.payload},
           UNCHANGED <<Out, Later, Fetched, Added, sent, receives>>
    PROVE  Facts'
<1>0. CopiesOK /\ LiveOK /\ NoneLost
  BY DEF Facts
<1>1. PICK m \in sent : m = c.payload /\ m = d.payload
  BY <1>0 DEF CopiesOK
<1>2. PICK n \in Nat : n = receives[m]
  BY Counts
<1>3. PICK k \in Nat : k = c.num_receives /\ k > 0 /\ k <= n /\ d.num_receives = k + 1
  BY <1>0, <1>1, <1>2, HandTypes DEF CopiesOK
<1>4. torn \subseteq torn' /\ (c \notin Out \ Copied => m \in torn')
  BY <1>1
<1>5. CopiesOK'
  <2>1. \A e \in Waiting' : e.num_receives > 0 =>
           e.payload \in sent /\ e.num_receives <= receives[e.payload] + 1
    BY <1>0, <1>1, <1>2, <1>3 DEF CopiesOK
  <2>2. \A e \in Claimed' \cup Copied' : e \in Claimed \cup Copied
    OBVIOUS
  <2> QED
    BY <1>0, <2>1, <2>2 DEF CopiesOK
<1>6. LiveOK'
  <2>1. Live' \subseteq Live \cup {d} /\ Out' \ Copied' \subseteq Out \ Copied
    BY DEF Live
  <2>2. c \in Out \ Copied => c \in Live /\ c \notin Live'
    <3> HAVE c \in Out \ Copied
    <3>1. c \in Live
      BY <1>3 DEF Live
    <3>2. c \notin Waiting /\ c \notin Later /\ c # d
      BY DEF Sane
    <3> QED
      BY <3>1, <3>2 DEF Live
  <2>3. \A e \in Live' : e # d /\ e.payload = m => m \in torn'
    <3> TAKE e \in Live'
    <3>1. CASE c \in Out \ Copied
      BY <1>0, <1>1, <1>4, <2>1, <2>2, <3>1 DEF LiveOK
    <3> QED
      BY <1>4, <3>1
  <2>4. \A e, f \in Live' : e # f /\ e.payload = f.payload => e.payload \in torn'
    BY <1>0, <1>1, <1>4, <2>1, <2>3 DEF LiveOK
  <2>5. \A e \in Waiting' : e.num_receives > 0 /\ e.payload \notin torn' =>
           e.num_receives = receives[e.payload] + 1
    <3> TAKE e \in Waiting'
    <3>1. CASE e = d
      BY <1>0, <1>1, <1>2, <1>3, <1>4, <3>1 DEF LiveOK
    <3>2. CASE e \in Waiting
      BY <1>0, <1>4, <3>2 DEF LiveOK
    <3> QED
      BY <3>1, <3>2
  <2> QED
    BY <1>0, <1>4, <2>1, <2>4, <2>5 DEF LiveOK
<1>7. NoneLost'
  BY <1>0 DEF NoneLost, Kept, Readable
<1> QED
  BY <1>5, <1>6, <1>7 DEF Facts

\* A due message goes to the queue, with the count of one never received.
LEMMA DueAdded ==
    ASSUME TypeOK, Sane, Facts, NEW c \in Fetched, NEW d, d \notin Out \cup Later,
           d.payload = c.payload, d.num_receives = 1,
           Waiting' = Waiting \cup {d}, Fetched' \subseteq Fetched, Added' = Added \cup {c},
           torn' = IF c \in Later \ Added THEN torn ELSE torn \cup {c.payload},
           UNCHANGED <<Out, Later, Claimed, Copied, sent, receives>>
    PROVE  Facts'
<1>0. CopiesOK /\ LiveOK /\ NoneLost
  BY DEF Facts
<1>1. PICK m \in sent : m = c.payload /\ m = d.payload
  BY <1>0 DEF CopiesOK
<1>2. PICK n \in Nat : n = receives[m]
  BY Counts
<1>3. c.num_receives > 0
  BY <1>0 DEF CopiesOK
<1>4. torn \subseteq torn' /\ (c \notin Later \ Added => m \in torn')
  BY <1>1
<1>5. CopiesOK'
  <2>1. \A e \in Waiting' : e.num_receives > 0 =>
           e.payload \in sent /\ e.num_receives <= receives[e.payload] + 1
    BY <1>0, <1>1, <1>2 DEF CopiesOK
  <2>2. \A e \in Fetched' \cup Added' : e \in Fetched \cup Added
    OBVIOUS
  <2> QED
    BY <1>0, <2>1, <2>2 DEF CopiesOK
<1>6. LiveOK'
  <2>1. Live' \subseteq Live \cup {d} /\ Later' \ Added' \subseteq Later \ Added
    BY DEF Live
  <2>2. c \in Later \ Added => c \in Live /\ c \notin Live'
    <3> HAVE c \in Later \ Added
    <3>1. c \in Live
      BY <1>3 DEF Live
    <3>2. c \notin Waiting /\ c \notin Out /\ c # d
      BY DEF Sane
    <3> QED
      BY <3>1, <3>2 DEF Live
  <2>3. \A e \in Live' : e # d /\ e.payload = m => m \in torn'
    <3> TAKE e \in Live'
    <3>1. CASE c \in Later \ Added
      BY <1>0, <1>1, <1>4, <2>1, <2>2, <3>1 DEF LiveOK
    <3> QED
      BY <1>4, <3>1
  <2>4. \A e, f \in Live' : e # f /\ e.payload = f.payload => e.payload \in torn'
    BY <1>0, <1>1, <1>4, <2>1, <2>3 DEF LiveOK
  <2>5. \A e \in Waiting' : e.num_receives > 0 /\ e.payload \notin torn' =>
           e.num_receives = receives[e.payload] + 1
    <3> TAKE e \in Waiting'
    <3>1. CASE e = d
      BY <1>0, <1>1, <1>2, <1>3, <1>4, <3>1 DEF LiveOK
    <3>2. CASE e \in Waiting
      BY <1>0, <1>4, <3>2 DEF LiveOK
    <3> QED
      BY <3>1, <3>2
  <2> QED
    BY <1>0, <1>4, <2>1, <2>4, <2>5 DEF LiveOK
<1>7. NoneLost'
  BY <1>0 DEF NoneLost, Kept, Readable
<1> QED
  BY <1>5, <1>6, <1>7 DEF Facts

\* What was added to the queue leaves the delayed set.
LEMMA DueRemoved ==
    ASSUME Facts, NEW A \in SUBSET Added, Later' = Later \ A, Added' \subseteq Added,
           Added \ A \subseteq Added',
           UNCHANGED <<Waiting, Out, Claimed, Copied, Fetched, sent, receives, torn>>
    PROVE  Facts'
<1>0. CopiesOK /\ LiveOK /\ NoneLost
  BY DEF Facts
<1>1. CopiesOK'
  BY <1>0 DEF CopiesOK
<1>2. LiveOK'
  <2>1. Live' \subseteq Live /\ Later' \ Added' \subseteq Later \ Added
    BY DEF Live
  <2> QED
    BY <1>0, <2>1 DEF LiveOK
<1>3. NoneLost'
  <2>1. \A m \in Readable : Kept(m, Waiting \cup Later)'
    <3> TAKE m \in Readable
    <3>1. Kept(m, Waiting \cup Later)
      BY <1>0 DEF NoneLost
    <3>2. CASE \E c \in A : c.payload = m
      BY <1>0, <3>2 DEF NoneLost, Kept
    <3>3. CASE ~\E c \in A : c.payload = m
      BY <3>1, <3>3 DEF Kept
    <3> QED
      BY <3>2, <3>3
  <2> QED
    BY <1>0, <2>1 DEF NoneLost, Kept, Readable
<1> QED
  BY <1>1, <1>2, <1>3 DEF Facts

\* A task stops: what it was about to remove is live again, and its message torn.
LEMMA CopiesLeft ==
    ASSUME Facts, Claimed' \subseteq Claimed, Copied' \subseteq Copied,
           Fetched' \subseteq Fetched, Added' \subseteq Added, torn \subseteq torn',
           \A c \in (Copied \ Copied') \cup (Added \ Added') : c.payload \in torn',
           UNCHANGED <<Waiting, Out, Later, sent, receives>>
    PROVE  Facts'
<1>0. CopiesOK /\ LiveOK /\ NoneLost
  BY DEF Facts
<1>1. CopiesOK'
  BY <1>0 DEF CopiesOK
<1>2. LiveOK'
  <2>1. \A c \in Live' : c \in Live \/ c.payload \in torn'
    BY DEF Live
  <2> QED
    BY <1>0, <2>1 DEF LiveOK
<1>3. NoneLost'
  BY <1>0 DEF NoneLost, Kept, Readable
<1> QED
  BY <1>1, <1>2, <1>3 DEF Facts

-----------------------------------------------------------------------------
(* What a step does in Redis *)

EntryCopies == {DecodeEntry(e) : e \in stream \cup pending}
KeyCopies == {Decode(k) : k \in list \cup processing \cup delayed}

\* A copy that is nowhere yet.
Fresh(d) == d \notin Waiting \cup Out \cup Later \cup Claimed \cup Copied \cup Fetched \cup Added

\* d is a new copy of m, and nothing but it is new.
Appends(d, m, n) ==
    /\ Fresh(d)
    /\ d.payload = m /\ d.num_receives = n
    /\ EntryCopies' \subseteq EntryCopies \cup {d} /\ KeyCopies' \subseteq KeyCopies \cup {d}
    /\ PlacesOK'

\* Copies are apart when the entries and keys are.
LEMMA Apart ==
    ASSUME PlacesOK
    PROVE  Sane
<1>1. \A e \in stream \cup pending : DecodeEntry(e).num_receives \in Nat
  BY DEF PlacesOK, DecodeEntry, Internal
<1>2. \A k \in list \cup processing \cup delayed : Decode(k).num_receives \in Nat
  BY Illegible DEF PlacesOK
<1>3. \A c \in Waiting \cup Out \cup Later : c.num_receives \in Nat
  BY <1>1, <1>2 DEF Waiting, Out, Later
<1>4. Waiting \cap Out = {}
  BY DEF PlacesOK, Waiting, Out
<1>5. Waiting \cap Later = {}
  BY DEF PlacesOK, Waiting, Later
<1>6. Out \cap Later = {}
  BY DEF PlacesOK, Out, Later
<1> QED
  BY <1>3, <1>4, <1>5, <1>6 DEF Sane

\* An entry is delivered.
LEMMA EntryMoved ==
    ASSUME PlacesOK, NEW e \in stream, stream' = stream \ {e}, pending' = pending \cup {e},
           UNCHANGED <<list, processing, delayed>>
    PROVE  /\ PlacesOK'
           /\ UNCHANGED <<EntryCopies, KeyCopies, Later>>
           /\ Waiting' = Waiting \ {DecodeEntry(e)} /\ Out' = Out \cup {DecodeEntry(e)}
<1>1. stream' \cup pending' = stream \cup pending
  OBVIOUS
<1>2. UNCHANGED <<EntryCopies, KeyCopies, Later>>
  BY <1>1 DEF EntryCopies, KeyCopies, Later
<1>3. PlacesOK'
  BY <1>1 DEF PlacesOK
<1>4. \A f \in stream : f # e => DecodeEntry(f) # DecodeEntry(e)
  BY DEF PlacesOK
<1>5. \A k \in list : Decode(k) # DecodeEntry(e)
  BY DEF PlacesOK
<1>6. Waiting' = Waiting \ {DecodeEntry(e)}
  BY <1>4, <1>5 DEF Waiting
<1>7. Out' = Out \cup {DecodeEntry(e)}
  BY DEF Out
<1> QED
  BY <1>2, <1>3, <1>6, <1>7

\* A key goes to the processing list.
LEMMA KeyMoved ==
    ASSUME PlacesOK, NEW k \in list, list' = list \ {k}, processing' = processing \cup {k},
           UNCHANGED <<stream, pending, delayed>>
    PROVE  /\ PlacesOK'
           /\ UNCHANGED <<EntryCopies, KeyCopies, Later>>
           /\ Waiting' = Waiting \ {Decode(k)} /\ Out' = Out \cup {Decode(k)}
<1>1. list' \cup processing' \cup delayed' = list \cup processing \cup delayed
  OBVIOUS
<1>2. UNCHANGED <<EntryCopies, KeyCopies, Later>>
  BY <1>1 DEF EntryCopies, KeyCopies, Later
<1>3. PlacesOK'
  BY <1>1 DEF PlacesOK
<1>4. \A l \in list : l # k => Decode(l) # Decode(k)
  BY DEF PlacesOK
<1>5. \A e \in stream : DecodeEntry(e) # Decode(k)
  BY DEF PlacesOK
<1>6. Waiting' = Waiting \ {Decode(k)}
  BY <1>4, <1>5 DEF Waiting
<1>7. Out' = Out \cup {Decode(k)}
  BY DEF Out
<1> QED
  BY <1>2, <1>3, <1>6, <1>7

\* Something is removed.
LEMMA Shrinks ==
    ASSUME PlacesOK, pending' \subseteq pending, processing' \subseteq processing,
           delayed' \subseteq delayed, UNCHANGED <<stream, list>>
    PROVE  /\ PlacesOK'
           /\ EntryCopies' \subseteq EntryCopies /\ KeyCopies' \subseteq KeyCopies
           /\ Waiting' = Waiting /\ Out' \subseteq Out
<1>1. PlacesOK'
  BY DEF PlacesOK
<1> QED
  BY <1>1 DEF EntryCopies, KeyCopies, Waiting, Out

\* An entry is added.
LEMMA EntryAdded ==
    ASSUME PlacesOK, NEW m, NEW n \in Nat, NEW i \in Ids, NEW e, e = Entry(i, m, n),
           NEW d, d = Internal(i, m, n + 1), Fresh(d), stream' = stream \cup {e},
           UNCHANGED <<pending, list, processing, delayed>>
    PROVE  Appends(d, m, n + 1) /\ Waiting' = Waiting \cup {d} /\ UNCHANGED <<Out, Later>>
<1>1. DecodeEntry(e) = d /\ e.id \in Ids /\ e.num_receives \in Nat
  BY DEF DecodeEntry, Entry
<1>2. Waiting' = Waiting \cup {d} /\ UNCHANGED <<Out, Later>>
  BY <1>1 DEF Waiting, Out, Later
<1>3. /\ \A f \in stream \cup pending : DecodeEntry(f) # d
      /\ \A k \in list \cup processing \cup delayed : Decode(k) # d
  BY DEF Fresh, Waiting, Out, Later
<1>4. PlacesOK'
  BY <1>1, <1>3 DEF PlacesOK
<1>5. EntryCopies' \subseteq EntryCopies \cup {d} /\ KeyCopies' \subseteq KeyCopies \cup {d}
  BY <1>1 DEF EntryCopies, KeyCopies
<1> QED
  BY <1>2, <1>4, <1>5, Fields DEF Appends

\* A key is added, to the main queue or to the delayed set.
LEMMA KeyAdded ==
    ASSUME PlacesOK, NEW m \in Messages, NEW n \in Nat, NEW i \in Ids, NEW k,
           k = Key(i, InternalToListPayload(m, n)), NEW d, d = Internal(i, m, n + 1), Fresh(d),
           \/ list' = list \cup {k} /\ UNCHANGED delayed
           \/ delayed' = delayed \cup {k} /\ UNCHANGED list,
           UNCHANGED <<stream, pending, processing>>
    PROVE  /\ Appends(d, m, n + 1)
           /\ UNCHANGED Out
           /\ delayed' = delayed => Waiting' = Waiting \cup {d} /\ UNCHANGED Later
           /\ list' = list => Later' = Later \cup {d} /\ UNCHANGED Waiting
<1>1. Decode(k) = d /\ k.id \in Ids
  BY NewKey
<1>2. Decode(k).num_receives \in Nat \ {0}
  BY <1>1, Fields
<1>3. /\ \A f \in stream \cup pending : DecodeEntry(f) # d
      /\ \A l \in list \cup processing \cup delayed : Decode(l) # d
  BY DEF Fresh, Waiting, Out, Later
<1>4. k \notin list \cup processing \cup delayed
  BY <1>1, <1>3
<1>5. PlacesOK'
  BY <1>1, <1>2, <1>3, <1>4 DEF PlacesOK
<1>6. EntryCopies' \subseteq EntryCopies \cup {d} /\ KeyCopies' \subseteq KeyCopies \cup {d}
  BY <1>1 DEF EntryCopies, KeyCopies
<1>7. delayed' = delayed => Waiting' = Waiting \cup {d} /\ UNCHANGED Later
  <2>1. list' = list \cup {k} \/ (list' = list /\ k \in delayed')
    OBVIOUS
  <2> QED
    BY <1>1, <1>4, <2>1 DEF Waiting, Later
<1>8. list' = list => Later' = Later \cup {d} /\ UNCHANGED Waiting
  <2>1. delayed' = delayed \cup {k} \/ (delayed' = delayed /\ k \in list')
    OBVIOUS
  <2> QED
    BY <1>1, <1>4, <2>1 DEF Waiting, Later
<1> QED
  BY <1>5, <1>6, <1>7, <1>8, Fields DEF Appends, Out

\* AddToMainQueue adds one new copy.
LEMMA QueueAdded ==
    ASSUME PlacesOK, NEW p, NEW m \in Messages, NEW n \in Nat, AddToMainQueue(p, m, n),
           UNCHANGED <<pending, processing, delayed>>
    PROVE  \E d : Appends(d, m, n + 1) /\ Waiting' = Waiting \cup {d} /\ UNCHANGED <<Out, Later>>
<1>1. PICK i : i = NewId(m, n)
  OBVIOUS
<1>2. i \in FreeIds(m, n)
  BY <1>1 DEF AddToMainQueue, NewId
<1>3. PICK d : d = Internal(i, m, n + 1)
  OBVIOUS
<1>4. i \in Ids /\ Fresh(d)
  BY <1>2, <1>3 DEF FreeIds, Fresh
<1>5. CASE p \in usesStreams
  <2>1. PICK e : e = Entry(i, m, n)
    OBVIOUS
  <2>2. stream' = stream \cup {e} /\ UNCHANGED list
    BY <1>1, <1>5, <2>1 DEF AddToMainQueue
  <2> QED
    BY <1>3, <1>4, <2>1, <2>2, EntryAdded
<1>6. CASE p \notin usesStreams
  <2>1. PICK k : k = Key(i, InternalToListPayload(m, n))
    OBVIOUS
  <2>2. list' = list \cup {k} /\ UNCHANGED stream
    BY <1>1, <1>6, <2>1 DEF AddToMainQueue
  <2> QED
    BY <1>3, <1>4, <2>1, <2>2, KeyAdded
<1> QED
  BY <1>5, <1>6

-----------------------------------------------------------------------------
(* What a step does to what tasks hold *)

\* What the tasks hold, by process.
LEMMA HandFunctions ==
    ASSUME TypeOK
    PROVE  \E T : /\ claimed \in [Processes -> T] /\ copied \in [Processes -> T]
                  /\ fetched \in [Processes -> T] /\ added \in [Processes -> T]
<1> DEFINE T == SUBSET [id : Ids, payload : Messages, num_receives : Nat]
<1>1. /\ claimed \in [Processes -> T] /\ copied \in [Processes -> T]
      /\ fetched \in [Processes -> T] /\ added \in [Processes -> T]
  BY DEF TypeOK
<1> QED
  BY <1>1

\* Only copies appear that no task holds.
LEMMA HandsStep ==
    ASSUME HandsOK, UNCHANGED usesStreams,
           \A p \in Processes : claimed'[p] \cup copied'[p] \subseteq claimed[p] \cup copied[p],
           NEW D, D \cap (Claimed \cup Copied) = {},
           EntryCopies' \subseteq EntryCopies \cup D, KeyCopies' \subseteq KeyCopies \cup D
    PROVE  HandsOK'
<1> SUFFICES ASSUME NEW p \in Processes, NEW c \in claimed'[p] \cup copied'[p]
             PROVE  IF p \in usesStreams
                    THEN \A k \in (list \cup processing \cup delayed)' : Decode(k) # c
                    ELSE \A e \in (stream \cup pending)' : DecodeEntry(e) # c
  BY DEF HandsOK
<1>1. c \in claimed[p] \cup copied[p] /\ c \notin D
  BY DEF Claimed, Copied
<1>2. p \in usesStreams => c \notin KeyCopies
  BY <1>1 DEF HandsOK, KeyCopies
<1>3. p \notin usesStreams => c \notin EntryCopies
  BY <1>1 DEF HandsOK, EntryCopies
<1>4. \A k \in (list \cup processing \cup delayed)' : Decode(k) \in KeyCopies'
  BY DEF KeyCopies
<1>5. \A e \in (stream \cup pending)' : DecodeEntry(e) \in EntryCopies'
  BY DEF EntryCopies
<1> QED
  BY <1>1, <1>2, <1>3, <1>4, <1>5

\* No copies appear.
LEMMA HandsKept ==
    ASSUME HandsOK, UNCHANGED usesStreams,
           \A p \in Processes : claimed'[p] \cup copied'[p] \subseteq claimed[p] \cup copied[p],
           EntryCopies' \subseteq EntryCopies, KeyCopies' \subseteq KeyCopies
    PROVE  HandsOK'
<1>1. PICK D : D = {}
  OBVIOUS
<1>2. /\ D \cap (Claimed \cup Copied) = {}
      /\ EntryCopies' \subseteq EntryCopies \cup D /\ KeyCopies' \subseteq KeyCopies \cup D
  BY <1>1
<1> QED
  BY <1>2, HandsStep

\* The task holds copies a client of its form can have.
LEMMA HandsRead ==
    ASSUME TypeOK, PlacesOK, HandsOK, NEW p \in Processes, NEW c,
           claimed' = [claimed EXCEPT ![p] = {c}],
           IF p \in usesStreams THEN c \in {DecodeEntry(e) : e \in pending}
                                ELSE c \in {Decode(k) : k \in processing},
           UNCHANGED <<copied, usesStreams, stream, pending, list, processing, delayed>>
    PROVE  HandsOK'
<1>1. \A q \in Processes : claimed'[q] = IF q = p THEN {c} ELSE claimed[q]
  BY HandFunctions
<1>2. /\ p \in usesStreams => \A k \in list \cup processing \cup delayed : Decode(k) # c
      /\ p \notin usesStreams => \A e \in stream \cup pending : DecodeEntry(e) # c
  BY DEF PlacesOK
<1> QED
  BY <1>1, <1>2 DEF HandsOK

-----------------------------------------------------------------------------
(* The steps *)

CopiesInv == PlacesOK /\ HandsOK /\ Facts

\* The parts of ClientsInv that are about copies.
LEMMA InvParts ==
    ASSUME ClientsInv
    PROVE  TypeOK /\ PlacesOK /\ HandsOK /\ Facts /\ Sane
  BY Apart DEF ClientsInv, Facts

\* Redis and the tasks' hands stay as they are.
LEMMA CopiesStay ==
    ASSUME ClientsInv, UNCHANGED <<redisVars, requeueVars, scheduleVars, sent, receives, torn>>,
           usesStreams' = usesStreams \/
               \E p \in Processes \ built : usesStreams' = usesStreams \cup {p}
    PROVE  CopiesInv'
<1>0. TypeOK /\ PlacesOK /\ HandsOK /\ Facts
  BY InvParts
<1>1. UNCHANGED <<stream, pending, list, processing, delayed, claimed, copied, fetched, added>>
  BY DEF redisVars, requeueVars, scheduleVars
<1>2. UNCHANGED <<Waiting, Out, Later>> /\ HandsStay
  BY <1>1 DEF Waiting, Out, Later, HandsStay, Claimed, Copied, Fetched, Added
<1>3. PlacesOK'
  BY <1>0, <1>1 DEF PlacesOK
<1>4. HandsOK'
  <2>1. \A p \in Processes \ built : claimed[p] = {} /\ copied[p] = {}
    BY <1>0 DEF TypeOK
  <2>2. \A p \in Processes : claimed[p] \cup copied[p] # {} =>
           (p \in usesStreams' <=> p \in usesStreams)
    BY <2>1
  <2> QED
    BY <1>0, <1>1, <2>2 DEF HandsOK
<1> QED
  BY <1>0, <1>2, <1>3, <1>4, FactsStay DEF CopiesInv

\* A new client touches no copies.
LEMMA BuildCopies ==
    ASSUME ClientsInv, NEW p \in Processes, NEW hs, NEW dynamic, Build(p, hs, dynamic)
    PROVE  CopiesInv'
<1>1. usesStreams' = usesStreams \/ \E q \in Processes \ built : usesStreams' = usesStreams \cup {q}
  BY DEF Build
<1> QED
  BY <1>1, CopiesStay DEF Build, historyVars

\* Hands that are left.
LEMMA LetGoCopies ==
    ASSUME ClientsInv, NEW p \in Processes, NEW ts, LetGo(p, ts),
           UNCHANGED <<usesStreams, redisVars, sent, receives>>
    PROVE  CopiesInv'
<1>0. TypeOK /\ PlacesOK /\ HandsOK /\ Facts
  BY InvParts
<1>1. UNCHANGED <<stream, pending, list, processing, delayed>>
  BY DEF redisVars
<1>2. UNCHANGED <<Waiting, Out, Later, EntryCopies, KeyCopies>>
  BY <1>1 DEF Waiting, Out, Later, EntryCopies, KeyCopies
<1>3. PICK T : /\ claimed \in [Processes -> T] /\ copied \in [Processes -> T]
               /\ fetched \in [Processes -> T] /\ added \in [Processes -> T]
  BY <1>0, HandFunctions
<1>4. claimed' = claimed \/ claimed' = [claimed EXCEPT ![p] = {}]
  BY DEF LetGo
<1>5. copied' = copied \/
         (copied' = [copied EXCEPT ![p] = {}] /\ \A c \in copied[p] : c.payload \in torn')
  BY DEF LetGo
<1>6. fetched' = fetched \/ fetched' = [fetched EXCEPT ![p] = {}]
  BY DEF LetGo
<1>7. added' = added \/
         (added' = [added EXCEPT ![p] = {}] /\ \A c \in added[p] : c.payload \in torn')
  BY DEF LetGo
<1>8. torn \subseteq torn'
  BY DEF LetGo
<1>9. Claimed' \subseteq Claimed /\ Fetched' \subseteq Fetched
  BY <1>3, <1>4, <1>6 DEF Claimed, Fetched
<1>10. Copied' \subseteq Copied /\ \A c \in Copied \ Copied' : c.payload \in torn'
  BY <1>3, <1>5 DEF Copied
<1>11. Added' \subseteq Added /\ \A c \in Added \ Added' : c.payload \in torn'
  BY <1>3, <1>7 DEF Added
<1>12. Facts'
  BY <1>0, <1>2, <1>8, <1>9, <1>10, <1>11, CopiesLeft
<1>13. PlacesOK'
  BY <1>0, <1>1 DEF PlacesOK
<1>14. HandsOK'
  <2>1. \A q \in Processes : claimed'[q] \cup copied'[q] \subseteq claimed[q] \cup copied[q]
    BY <1>3, <1>4, <1>5
  <2> QED
    BY <1>0, <1>2, <2>1, HandsKept
<1> QED
  BY <1>12, <1>13, <1>14 DEF CopiesInv

\* The last half stops the tasks.
LEMMA DropCopies ==
    ASSUME ClientsInv, NEW p \in Processes, NEW h, Drop(p, h)
    PROVE  CopiesInv'
<1>1. PICK ts : LetGo(p, ts)
  BY DEF Drop
<1> QED
  BY <1>1, LetGoCopies DEF Drop

\* A failed command ends a round.
LEMMA BreakOffCopies ==
    ASSUME ClientsInv, NEW p \in Processes, NEW task, BreakOff(p, task)
    PROVE  CopiesInv'
<1>1. LetGo(p, {task}) /\ UNCHANGED <<processVars, redisVars, sent, receives>>
  BY DEF BreakOff
<1> QED
  BY <1>1, LetGoCopies DEF processVars

\* Hands that stay as they are while something is added.
LEMMA AppendsKeeps ==
    ASSUME HandsOK, NEW d, NEW m, NEW n, Appends(d, m, n), UNCHANGED usesStreams,
           \A p \in Processes : claimed'[p] \cup copied'[p] \subseteq claimed[p] \cup copied[p]
    PROVE  PlacesOK' /\ HandsOK'
<1>1. {d} \cap (Claimed \cup Copied) = {}
  BY DEF Appends, Fresh
<1> QED
  BY <1>1, HandsStep DEF Appends

\* A message goes to the main queue.
LEMMA SendRawCopies ==
    ASSUME ClientsInv, NEW p \in Processes, NEW m \in Payloads, SendRaw(p, m)
    PROVE  CopiesInv'
<1>0. TypeOK /\ PlacesOK /\ HandsOK /\ Facts /\ Sane
  BY InvParts
<1>1. /\ AddToMainQueue(p, m, 0) /\ m \in Messages \ sent /\ receives[m] = 0
      /\ UNCHANGED <<usesStreams, claimed, copied, fetched, added>>
      /\ UNCHANGED <<pending, processing, delayed, receives, torn>> /\ sent' = sent \cup {m}
  BY DEF SendRaw, Messages, ClientsInv, processVars, requeueVars, scheduleVars
<1>2. PICK d : Appends(d, m, 1) /\ Waiting' = Waiting \cup {d} /\ UNCHANGED <<Out, Later>>
  BY <1>0, <1>1, QueueAdded
<1>3. PlacesOK' /\ HandsOK'
  BY <1>0, <1>1, <1>2, AppendsKeeps
<1>4. HandsStay /\ d \notin Out \cup Later /\ d.payload = m /\ d.num_receives = 1
  BY <1>1, <1>2 DEF HandsStay, Claimed, Copied, Fetched, Added, Appends, Fresh
<1>5. Facts'
  BY <1>0, <1>1, <1>2, <1>4, SentWaiting
<1> QED
  BY <1>3, <1>5 DEF CopiesInv

\* A message goes to the delayed set.
LEMMA SendRawScheduledCopies ==
    ASSUME ClientsInv, NEW p \in Processes, NEW m \in Payloads, SendRawScheduled(p, m)
    PROVE  CopiesInv'
<1>0. TypeOK /\ PlacesOK /\ HandsOK /\ Facts /\ Sane
  BY InvParts
<1>1. /\ m \in Messages \ sent /\ receives[m] = 0
      /\ UNCHANGED <<usesStreams, claimed, copied, fetched, added>>
      /\ UNCHANGED <<stream, pending, list, processing, receives, torn>>
      /\ sent' = sent \cup {m}
  BY DEF SendRawScheduled, Messages, ClientsInv, processVars, requeueVars, scheduleVars
<1>2. PICK i \in FreeIds(m, 0) : i = NewId(m, 0)
  BY DEF SendRawScheduled, NewId
<1>3. PICK k : k = Key(i, InternalToListPayload(m, 0))
  OBVIOUS
<1>4. delayed' = delayed \cup {k}
  BY <1>2, <1>3 DEF SendRawScheduled
<1>5. PICK d : d = Internal(i, m, 0 + 1)
  OBVIOUS
<1>6. i \in Ids /\ Fresh(d)
  BY <1>2, <1>5 DEF FreeIds, Fresh
<1>7. Appends(d, m, 0 + 1) /\ UNCHANGED <<Waiting, Out>> /\ Later' = Later \cup {d}
  BY <1>0, <1>1, <1>3, <1>4, <1>5, <1>6, KeyAdded
<1>8. PlacesOK' /\ HandsOK'
  BY <1>0, <1>1, <1>7, AppendsKeeps
<1>9. HandsStay /\ d \notin Waiting \cup Out /\ d.payload = m /\ d.num_receives = 1
  BY <1>1, <1>7 DEF HandsStay, Claimed, Copied, Fetched, Added, Appends, Fresh
<1>10. Facts'
  BY <1>0, <1>1, <1>7, <1>9, SentLater
<1> QED
  BY <1>8, <1>10 DEF CopiesInv

\* A consumer of the stream receives.
LEMMA ReceiveEntryCopies ==
    ASSUME ClientsInv, NEW p \in Processes, ReceiveEntry(p)
    PROVE  CopiesInv'
<1>0. TypeOK /\ PlacesOK /\ HandsOK /\ Facts /\ Sane
  BY InvParts
<1>1. PICK e \in stream : /\ stream' = stream \ {e} /\ pending' = pending \cup {e}
                          /\ Hand(e.payload, e.num_receives + 1)
  BY DEF ReceiveEntry
<1>2. /\ UNCHANGED <<usesStreams, claimed, copied, fetched, added>>
      /\ UNCHANGED <<list, processing, delayed, sent, torn>>
  BY DEF ReceiveEntry, processVars, requeueVars, scheduleVars
<1>3. PICK c : c = DecodeEntry(e)
  OBVIOUS
<1>4. c.payload = e.payload /\ c.num_receives = e.num_receives + 1 /\ c.num_receives > 0
  BY <1>0, <1>1, <1>3, Fields DEF DecodeEntry, PlacesOK
<1>5. c \in Waiting /\ c.payload \in Messages
  BY <1>0, <1>1, <1>3, <1>4, Counts DEF Waiting, Facts, CopiesOK
<1>6. receives' = [receives EXCEPT ![c.payload] = @ + 1]
  BY <1>1, <1>4, <1>5 DEF Hand
<1>7. /\ PlacesOK' /\ UNCHANGED <<EntryCopies, KeyCopies, Later>>
      /\ Waiting' = Waiting \ {c} /\ Out' = Out \cup {c}
  BY <1>0, <1>1, <1>2, <1>3, EntryMoved
<1>8. HandsOK'
  BY <1>0, <1>2, <1>7, HandsKept
<1>9. HandsStay
  BY <1>2 DEF HandsStay, Claimed, Copied, Fetched, Added
<1>10. Facts'
  BY <1>0, <1>2, <1>4, <1>5, <1>6, <1>7, <1>9, CopyReceived
<1> QED
  BY <1>7, <1>8, <1>10 DEF CopiesInv

\* A consumer of the list receives, or meets a key it cannot read.
LEMMA ReceiveKeyCopies ==
    ASSUME ClientsInv, NEW p \in Processes, ReceiveKey(p)
    PROVE  CopiesInv'
<1>0. TypeOK /\ PlacesOK /\ HandsOK /\ Facts /\ Sane
  BY InvParts
<1>1. PICK k \in list : /\ list' = list \ {k} /\ processing' = processing \cup {k}
                        /\ IF Legible(k) THEN Hand(Decode(k).payload, Decode(k).num_receives)
                                         ELSE UNCHANGED <<receives, counted, strange>>
  BY DEF ReceiveKey
<1>2. /\ UNCHANGED <<usesStreams, claimed, copied, fetched, added>>
      /\ UNCHANGED <<stream, pending, delayed, sent, torn>>
  BY DEF ReceiveKey, processVars, requeueVars, scheduleVars
<1>3. PICK c : c = Decode(k)
  OBVIOUS
<1>4. c \in Waiting
  BY <1>1, <1>3 DEF Waiting
<1>5. /\ PlacesOK' /\ UNCHANGED <<EntryCopies, KeyCopies, Later>>
      /\ Waiting' = Waiting \ {c} /\ Out' = Out \cup {c}
  BY <1>0, <1>1, <1>2, <1>3, KeyMoved
<1>6. HandsOK'
  BY <1>0, <1>2, <1>5, HandsKept
<1>7. HandsStay
  BY <1>2 DEF HandsStay, Claimed, Copied, Fetched, Added
<1>8. CASE k.text \in PanicKeys
  <2>1. ~Legible(k) /\ c.num_receives = 0
    BY <1>3, <1>8, Illegible
  <2>2. Facts'
    BY <1>0, <1>1, <1>2, <1>4, <1>5, <1>7, <2>1, CopyStuck
  <2> QED
    BY <1>5, <1>6, <2>2 DEF CopiesInv
<1>9. CASE k.text \notin PanicKeys
  <2>1. c.num_receives \in Nat \ {0} /\ c.num_receives > 0
    BY <1>0, <1>1, <1>3, <1>9 DEF PlacesOK
  <2>2. Legible(k)
    BY <1>3, <2>1, Fields DEF Legible, Decode
  <2>3. c.payload \in Messages
    BY <1>0, <1>4, <2>1, Counts DEF Facts, CopiesOK
  <2>4. receives' = [receives EXCEPT ![c.payload] = @ + 1]
    BY <1>1, <1>3, <2>2, <2>3 DEF Hand
  <2>5. Facts'
    BY <1>0, <1>2, <1>4, <1>5, <1>7, <2>1, <2>4, CopyReceived
  <2> QED
    BY <1>5, <1>6, <2>5 DEF CopiesInv
<1> QED
  BY <1>8, <1>9

\* A Delivery is acked.
LEMMA AckCopies ==
    ASSUME ClientsInv, Ack
    PROVE  CopiesInv'
<1>0. TypeOK /\ PlacesOK /\ HandsOK /\ Facts /\ Sane
  BY InvParts
<1>1. /\ UNCHANGED <<usesStreams, claimed, copied, fetched, added>>
      /\ UNCHANGED <<stream, list, delayed, sent, receives, torn>>
      /\ pending' \subseteq pending /\ processing' \subseteq processing
  BY DEF Ack, processVars, requeueVars, scheduleVars, historyVars
<1>2. /\ PlacesOK' /\ EntryCopies' \subseteq EntryCopies /\ KeyCopies' \subseteq KeyCopies
      /\ Waiting' = Waiting /\ Out' \subseteq Out
  BY <1>0, <1>1, Shrinks
<1>3. HandsOK'
  BY <1>0, <1>1, <1>2, HandsKept
<1>4. UNCHANGED <<Later, Claimed, Copied, Fetched, Added>>
  BY <1>1 DEF Later, Claimed, Copied, Fetched, Added
<1>5. Copied' \subseteq Copied /\ Copied \cap Out' \subseteq Copied'
  BY <1>4
<1>6. Facts'
  <2>1. UNCHANGED <<Waiting, Later, Claimed, Fetched, Added, sent, receives, torn>>
    BY <1>1, <1>2, <1>4
  <2> QED
    BY <1>0, <1>2, <1>5, <2>1, CopiesRemoved
<1> QED
  BY <1>2, <1>3, <1>6 DEF CopiesInv

\* A re-queueing task reads what was handed out.
LEMMA ClaimCopies ==
    ASSUME ClientsInv, NEW p \in Processes, Claim(p)
    PROVE  CopiesInv'
<1>0. TypeOK /\ PlacesOK /\ HandsOK /\ Facts /\ Sane
  BY InvParts
<1>1. /\ UNCHANGED <<usesStreams, copied, fetched, added, stream, pending, list, processing>>
      /\ UNCHANGED <<delayed, sent, receives, torn>>
  BY DEF Claim, scheduleVars, redisVars, historyVars
<1>2. CASE claimed' = claimed
  BY <1>1, <1>2, CopiesStay DEF Claim, requeueVars
<1>3. CASE \E c : /\ claimed' = [claimed EXCEPT ![p] = {c}] /\ c.num_receives > 0
                  /\ IF p \in usesStreams THEN c \in {DecodeEntry(e) : e \in pending}
                                          ELSE c \in {Decode(k) : k \in processing}
  <2>1. PICK c : /\ claimed' = [claimed EXCEPT ![p] = {c}] /\ c.num_receives > 0
                 /\ IF p \in usesStreams THEN c \in {DecodeEntry(e) : e \in pending}
                                         ELSE c \in {Decode(k) : k \in processing}
    BY <1>3
  <2>2. HandsOK'
    BY <1>0, <1>1, <2>1, HandsRead
  <2>3. PlacesOK' /\ UNCHANGED <<Waiting, Out, Later, Copied, Fetched, Added>>
    BY <1>0, <1>1 DEF PlacesOK, Waiting, Out, Later, Copied, Fetched, Added
  <2>4. c \in Out
    BY <2>1 DEF Out
  <2>5. Claimed' \subseteq Claimed \cup {c}
    <3>1. PICK T : claimed \in [Processes -> T]
      BY <1>0, HandFunctions
    <3> QED
      BY <2>1, <3>1 DEF Claimed
  <2>6. Facts'
    BY <1>0, <1>1, <2>1, <2>3, <2>4, <2>5, CopyRead
  <2> QED
    BY <2>2, <2>3, <2>6 DEF CopiesInv
<1>4. CASE ClaimEntry(p)
  <2>1. PICK e \in pending : claimed' = [claimed EXCEPT ![p] = {DecodeEntry(e)}]
    BY <1>4 DEF ClaimEntry
  <2>2. DecodeEntry(e).num_receives > 0 /\ p \in usesStreams
    BY <1>0, <1>4, Fields DEF DecodeEntry, PlacesOK, ClaimEntry
  <2> QED
    BY <1>3, <2>1, <2>2
<1>5. CASE ClaimKey(p)
  <2>1. PICK k \in processing :
           \/ Legible(k) /\ claimed' = [claimed EXCEPT ![p] = {Decode(k)}]
           \/ claimed' = claimed
    BY <1>5 DEF ClaimKey
  <2>2. Legible(k) => Decode(k).num_receives > 0
    BY <1>0, Illegible DEF PlacesOK
  <2>3. p \notin usesStreams
    BY <1>5 DEF ClaimKey
  <2> QED
    BY <1>2, <1>3, <2>1, <2>2, <2>3
<1> QED
  BY <1>4, <1>5 DEF Claim

\* It puts the message back.
LEMMA PutBackCopies ==
    ASSUME ClientsInv, NEW p \in Processes, PutBack(p)
    PROVE  CopiesInv'
<1>0. TypeOK /\ PlacesOK /\ HandsOK /\ Facts /\ Sane
  BY InvParts
<1>1. PICK c \in claimed[p] :
         /\ AddToMainQueue(p, c.payload, c.num_receives)
         /\ claimed' = [claimed EXCEPT ![p] = @ \ {c}]
         /\ copied' = [copied EXCEPT ![p] = @ \cup {c}]
         /\ torn' = IF c \in Out \ Copied THEN torn ELSE torn \cup {c.payload}
  BY DEF PutBack
<1>2. UNCHANGED <<usesStreams, fetched, added, pending, processing, delayed, sent, receives>>
  BY DEF PutBack, processVars, scheduleVars
<1>3. PICK T : claimed \in [Processes -> T] /\ copied \in [Processes -> T]
  BY <1>0, HandFunctions
<1>4. c \in Claimed /\ Claimed' \subseteq Claimed
  BY <1>1, <1>3 DEF Claimed
<1>5. Copied' = Copied \cup {c}
  <2>1. copied'[p] = copied[p] \cup {c} /\ \A q \in Processes : q # p => copied'[q] = copied[q]
    BY <1>1, <1>3
  <2> QED
    BY <2>1 DEF Copied
<1>6. \A q \in Processes : claimed'[q] \cup copied'[q] \subseteq claimed[q] \cup copied[q]
  BY <1>1, <1>3
<1>7. c.payload \in Messages /\ c.num_receives \in Nat
  BY <1>0, <1>4, HandTypes
<1>8. PICK d : /\ Appends(d, c.payload, c.num_receives + 1)
               /\ Waiting' = Waiting \cup {d} /\ UNCHANGED <<Out, Later>>
  BY <1>0, <1>1, <1>2, <1>7, QueueAdded
<1>9. PlacesOK' /\ HandsOK'
  BY <1>0, <1>2, <1>6, <1>8, AppendsKeeps
<1>10. /\ d \notin Out \cup Later /\ d.payload = c.payload
       /\ d.num_receives = c.num_receives + 1
  BY <1>8 DEF Appends, Fresh
<1>11. UNCHANGED <<Fetched, Added>>
  BY <1>2 DEF Fetched, Added
<1>12. Facts'
  BY <1>0, <1>1, <1>2, <1>4, <1>5, <1>8, <1>10, <1>11, CopyPutBack
<1> QED
  BY <1>9, <1>12 DEF CopiesInv

\* It removes what it has put back.
LEMMA RemoveReadCopies ==
    ASSUME ClientsInv, NEW p \in Processes, RemoveRead(p)
    PROVE  CopiesInv'
<1>0. TypeOK /\ PlacesOK /\ HandsOK /\ Facts /\ Sane
  BY InvParts
<1>1. /\ UNCHANGED <<usesStreams, claimed, fetched, added, stream, list, delayed>>
      /\ UNCHANGED <<sent, receives, torn>>
      /\ copied' = [copied EXCEPT ![p] = {}]
  BY DEF RemoveRead, processVars, scheduleVars, historyVars
<1>2. /\ pending' \subseteq pending /\ processing' \subseteq processing
      /\ p \in usesStreams => \A e \in pending' : DecodeEntry(e) \notin copied[p]
      /\ p \notin usesStreams => \A k \in processing' : Decode(k) \notin copied[p]
  BY DEF RemoveRead
<1>3. /\ PlacesOK' /\ EntryCopies' \subseteq EntryCopies /\ KeyCopies' \subseteq KeyCopies
      /\ Waiting' = Waiting /\ Out' \subseteq Out
  BY <1>0, <1>1, <1>2, Shrinks
<1>4. /\ \A e \in pending' : DecodeEntry(e) \notin copied[p]
      /\ \A k \in processing' : Decode(k) \notin copied[p]
  BY <1>0, <1>2 DEF HandsOK
<1>5. Out' \cap copied[p] = {}
  BY <1>4 DEF Out
<1>6. PICK T : copied \in [Processes -> T]
  BY <1>0, HandFunctions
<1>7. Copied' \subseteq Copied /\ Copied \ copied[p] \subseteq Copied'
  BY <1>1, <1>6 DEF Copied
<1>8. UNCHANGED <<Later, Claimed, Fetched, Added>>
  BY <1>1 DEF Later, Claimed, Fetched, Added
<1>9. Copied \cap Out' \subseteq Copied'
  BY <1>5, <1>7
<1>10. Facts'
  BY <1>0, <1>1, <1>3, <1>7, <1>8, <1>9, CopiesRemoved
<1>11. \A q \in Processes : claimed'[q] \cup copied'[q] \subseteq claimed[q] \cup copied[q]
  BY <1>1, <1>6
<1>12. HandsOK'
  BY <1>0, <1>1, <1>3, <1>11, HandsKept
<1> QED
  BY <1>3, <1>10, <1>12 DEF CopiesInv

\* A scheduler reads what is due.
LEMMA FetchDueCopies ==
    ASSUME ClientsInv, NEW p \in Processes, NEW k \in delayed, FetchDue(p, k)
    PROVE  CopiesInv'
<1>0. TypeOK /\ PlacesOK /\ HandsOK /\ Facts /\ Sane
  BY InvParts
<1>1. /\ UNCHANGED <<usesStreams, claimed, copied, added, stream, pending, list, processing>>
      /\ UNCHANGED <<delayed, sent, receives, torn>>
      /\ Legible(k) /\ fetched' = [fetched EXCEPT ![p] = {Decode(k)}]
  BY DEF FetchDue, processVars, requeueVars, redisVars, historyVars
<1>2. PICK c : c = Decode(k)
  OBVIOUS
<1>3. c.num_receives > 0
  BY <1>0, <1>1, <1>2, Illegible DEF PlacesOK
<1>4. PlacesOK' /\ UNCHANGED <<Waiting, Out, Later, Claimed, Copied, Added>>
  BY <1>0, <1>1 DEF PlacesOK, Waiting, Out, Later, Claimed, Copied, Added
<1>5. HandsOK'
  BY <1>0, <1>1 DEF HandsOK
<1>6. c \in Later
  BY <1>2 DEF Later
<1>7. Fetched' \subseteq Fetched \cup {c}
  <2>1. PICK T : fetched \in [Processes -> T]
    BY <1>0, HandFunctions
  <2> QED
    BY <1>1, <1>2, <2>1 DEF Fetched
<1>8. Facts'
  BY <1>0, <1>1, <1>3, <1>4, <1>6, <1>7, CopyRead
<1> QED
  BY <1>4, <1>5, <1>8 DEF CopiesInv

\* It adds the message to the main queue.
LEMMA AddDueCopies ==
    ASSUME ClientsInv, NEW p \in Processes, AddDue(p)
    PROVE  CopiesInv'
<1>0. TypeOK /\ PlacesOK /\ HandsOK /\ Facts /\ Sane
  BY InvParts
<1>1. PICK c \in fetched[p] :
         /\ AddToMainQueue(p, c.payload, 0)
         /\ fetched' = [fetched EXCEPT ![p] = @ \ {c}]
         /\ added' = [added EXCEPT ![p] = @ \cup {c}]
         /\ torn' = IF c \in Later \ Added THEN torn ELSE torn \cup {c.payload}
  BY DEF AddDue
<1>2. UNCHANGED <<usesStreams, claimed, copied, pending, processing, delayed, sent, receives>>
  BY DEF AddDue, processVars, requeueVars
<1>3. PICK T : fetched \in [Processes -> T] /\ added \in [Processes -> T]
  BY <1>0, HandFunctions
<1>4. c \in Fetched /\ Fetched' \subseteq Fetched
  BY <1>1, <1>3 DEF Fetched
<1>5. Added' = Added \cup {c}
  <2>1. added'[p] = added[p] \cup {c} /\ \A q \in Processes : q # p => added'[q] = added[q]
    BY <1>1, <1>3
  <2> QED
    BY <2>1 DEF Added
<1>6. c.payload \in Messages
  BY <1>0, <1>4, HandTypes
<1>7. PICK d : /\ Appends(d, c.payload, 0 + 1)
               /\ Waiting' = Waiting \cup {d} /\ UNCHANGED <<Out, Later>>
  BY <1>0, <1>1, <1>2, <1>6, QueueAdded
<1>8. PlacesOK' /\ HandsOK'
  BY <1>0, <1>2, <1>7, AppendsKeeps
<1>9. d \notin Out \cup Later /\ d.payload = c.payload /\ d.num_receives = 1
  BY <1>7 DEF Appends, Fresh
<1>10. UNCHANGED <<Claimed, Copied>>
  BY <1>2 DEF Claimed, Copied
<1>11. Facts'
  BY <1>0, <1>1, <1>2, <1>4, <1>5, <1>7, <1>9, <1>10, DueAdded
<1> QED
  BY <1>8, <1>11 DEF CopiesInv

\* It removes what it has added.
LEMMA RemoveDueCopies ==
    ASSUME ClientsInv, NEW p \in Processes, RemoveDue(p)
    PROVE  CopiesInv'
<1>0. TypeOK /\ PlacesOK /\ HandsOK /\ Facts /\ Sane
  BY InvParts
<1>1. /\ UNCHANGED <<usesStreams, claimed, copied, fetched, stream, pending, list, processing>>
      /\ UNCHANGED <<sent, receives, torn>>
      /\ delayed' = {k \in delayed : Decode(k) \notin added[p]}
      /\ added' = [added EXCEPT ![p] = {}]
  BY DEF RemoveDue, processVars, requeueVars, historyVars
<1>2. /\ PlacesOK' /\ EntryCopies' \subseteq EntryCopies /\ KeyCopies' \subseteq KeyCopies
      /\ Waiting' = Waiting
  BY <1>0, <1>1, Shrinks
<1>3. UNCHANGED <<Out, Claimed, Copied, Fetched>>
  BY <1>1 DEF Out, Claimed, Copied, Fetched
<1>4. Later' = Later \ added[p]
  BY <1>1 DEF Later
<1>5. PICK T : added \in [Processes -> T]
  BY <1>0, HandFunctions
<1>6. added[p] \in SUBSET Added /\ Added' \subseteq Added /\ Added \ added[p] \subseteq Added'
  BY <1>1, <1>5 DEF Added
<1>7. Facts'
  BY <1>0, <1>1, <1>2, <1>3, <1>4, <1>6, DueRemoved
<1>8. HandsOK'
  BY <1>0, <1>1, <1>2, HandsKept
<1> QED
  BY <1>2, <1>7, <1>8 DEF CopiesInv

\* Every step keeps the copies as they should be.
LEMMA CopiesStep ==
    ASSUME ClientsInv, [Next]_vars
    PROVE  CopiesInv'
<1>1. ASSUME NEW p \in Processes, NEW hs, NEW dynamic \in BOOLEAN, Build(p, hs, dynamic)
      PROVE  CopiesInv'
  BY <1>1, BuildCopies
<1>2. ASSUME NEW p \in Processes, NEW h, Drop(p, h)
      PROVE  CopiesInv'
  BY <1>2, DropCopies
<1>3. ASSUME NEW p \in Processes, NEW m \in Payloads, SendRaw(p, m) \/ SendRawScheduled(p, m)
      PROVE  CopiesInv'
  BY <1>3, SendRawCopies, SendRawScheduledCopies
<1>4. ASSUME NEW p \in Processes, Receive(p)
      PROVE  CopiesInv'
  BY <1>4, ReceiveEntryCopies, ReceiveKeyCopies DEF Receive
<1>5. ASSUME NEW p \in Processes, Claim(p) \/ PutBack(p) \/ RemoveRead(p)
      PROVE  CopiesInv'
  BY <1>5, ClaimCopies, PutBackCopies, RemoveReadCopies
<1>6. ASSUME NEW p \in Processes, NEW k \in delayed, FetchDue(p, k) \/ FetchDuePanics(p, k)
      PROVE  CopiesInv'
  <2>1. CASE FetchDuePanics(p, k)
    BY <2>1, CopiesStay DEF FetchDuePanics, historyVars
  <2> QED
    BY <1>6, <2>1, FetchDueCopies
<1>7. ASSUME NEW p \in Processes, AddDue(p) \/ RemoveDue(p)
      PROVE  CopiesInv'
  BY <1>7, AddDueCopies, RemoveDueCopies
<1>8. ASSUME NEW p \in Processes, NEW task, BreakOff(p, task)
      PROVE  CopiesInv'
  BY <1>8, BreakOffCopies
<1>9. CASE Ack
  BY <1>9, AckCopies
<1>10. CASE UNCHANGED vars
  BY <1>10, CopiesStay DEF vars, processVars, historyVars
<1> QED
  BY <1>1, <1>2, <1>3, <1>4, <1>5, <1>6, <1>7, <1>8, <1>9, <1>10 DEF Next, Schedule

\* A consumer is told of n receives of m.
Handed(m, n) ==
    /\ receives[m] < MaxReceives
    /\ receives' = [receives EXCEPT ![m] = receives[m] + 1]
    /\ counted' = [counted EXCEPT ![m] = n]
    /\ UNCHANGED strange
    /\ n <= receives[m] + 1
    /\ m \notin torn => n = receives[m] + 1

\* What a consumer is told of.
LEMMA ReceiveEffect ==
    ASSUME ClientsInv, NEW p \in Processes, Receive(p)
    PROVE  \/ UNCHANGED <<receives, counted, strange>>
           \/ \E m \in sent, n \in Nat : Handed(m, n)
<1>0. TypeOK /\ PlacesOK /\ CopiesOK /\ LiveOK
  BY InvParts DEF Facts
<1>1. ASSUME NEW c \in Waiting, c.num_receives \in Nat \ {0}, Hand(c.payload, c.num_receives)
      PROVE  \E m \in sent, n \in Nat : Handed(m, n)
  <2>1. /\ c.payload \in sent /\ c.num_receives <= receives[c.payload] + 1
        /\ c.payload \notin torn => c.num_receives = receives[c.payload] + 1
    BY <1>0, <1>1 DEF CopiesOK, LiveOK
  <2>2. c.payload \in Messages
    BY <1>0, <2>1, Counts
  <2>3. Handed(c.payload, c.num_receives)
    BY <1>1, <2>1, <2>2 DEF Hand, Handed
  <2> QED
    BY <1>1, <2>1, <2>3
<1>2. CASE ReceiveEntry(p)
  <2>1. PICK e \in stream : Hand(e.payload, e.num_receives + 1)
    BY <1>2 DEF ReceiveEntry
  <2>2. PICK c : c = DecodeEntry(e)
    OBVIOUS
  <2>3. /\ c.payload = e.payload /\ c.num_receives = e.num_receives + 1
        /\ c.num_receives \in Nat \ {0} /\ c \in Waiting
    BY <1>0, <2>1, <2>2, Fields DEF DecodeEntry, PlacesOK, Waiting
  <2> QED
    BY <1>1, <2>1, <2>3
<1>3. CASE ReceiveKey(p)
  <2>1. PICK k \in list : IF Legible(k) THEN Hand(Decode(k).payload, Decode(k).num_receives)
                                        ELSE UNCHANGED <<receives, counted, strange>>
    BY <1>3 DEF ReceiveKey
  <2>2. CASE Legible(k)
    <3>1. Decode(k) \in Waiting /\ Decode(k).num_receives \in Nat \ {0}
      BY <1>0, <2>2, Illegible DEF PlacesOK, Waiting
    <3> QED
      BY <1>1, <2>1, <2>2, <3>1
  <2> QED
    BY <2>1, <2>2
<1> QED
  BY <1>2, <1>3 DEF Receive

\* What is torn is a message.
LEMMA LetGoTorn ==
    ASSUME TypeOK, NEW p \in Processes, NEW ts, LetGo(p, ts)
    PROVE  torn \subseteq torn' /\ torn' \subseteq Messages
<1>1. \A c \in copied[p] \cup added[p] : c.payload \in Messages
  BY HandTypes DEF Copied, Added
<1>2. torn \subseteq Messages
  BY DEF TypeOK
<1> QED
  BY <1>1, <1>2 DEF LetGo

\* What a step does to the history: it tells nobody anything, or one consumer a
\* number that is not too high.
LEMMA HistoryEffect ==
    ASSUME ClientsInv, [Next]_vars
    PROVE  /\ sent \subseteq sent' /\ sent' \subseteq Messages
           /\ torn \subseteq torn' /\ torn' \subseteq Messages
           /\ faults' \in Nat
           /\ \/ UNCHANGED <<receives, counted, strange>>
              \/ \E m \in sent, n \in Nat : Handed(m, n)
<1> DEFINE Tells == \/ UNCHANGED <<receives, counted, strange>>
                    \/ \E m \in sent, n \in Nat : Handed(m, n)
           Goal == /\ sent \subseteq sent' /\ sent' \subseteq Messages
                   /\ torn \subseteq torn' /\ torn' \subseteq Messages
                   /\ faults' \in Nat
                   /\ Tells
<1>0. TypeOK /\ sent \subseteq Messages /\ torn \subseteq Messages /\ faults \in Nat
  BY DEF ClientsInv, TypeOK
<1>1. ASSUME UNCHANGED <<sent, receives, counted, torn, strange, faults>> PROVE Goal
  BY <1>0, <1>1
<1>2. ASSUME NEW p \in Processes, NEW hs, NEW dynamic \in BOOLEAN, Build(p, hs, dynamic)
      PROVE  Goal
  BY <1>1, <1>2 DEF Build, historyVars
<1>3. ASSUME NEW p \in Processes, NEW ts, LetGo(p, ts), faults' = faults \/ faults' = faults + 1,
             UNCHANGED <<sent, receives, counted, strange>>
      PROVE  Goal
  BY <1>0, <1>3, LetGoTorn
<1>4. ASSUME NEW p \in Processes, NEW h, Drop(p, h)
      PROVE  Goal
  BY <1>3, <1>4 DEF Drop
<1>5. ASSUME NEW p \in Processes, NEW task, BreakOff(p, task)
      PROVE  Goal
  BY <1>3, <1>5 DEF BreakOff
<1>6. ASSUME NEW p \in Processes, NEW m \in Payloads, SendRaw(p, m) \/ SendRawScheduled(p, m)
      PROVE  Goal
  BY <1>0, <1>6 DEF SendRaw, SendRawScheduled, Messages
<1>7. ASSUME NEW p \in Processes, Receive(p)
      PROVE  Goal
  <2>1. UNCHANGED <<sent, torn, faults>>
    BY <1>7 DEF Receive, ReceiveEntry, ReceiveKey
  <2> QED
    BY <1>0, <1>7, <2>1, ReceiveEffect
<1>8. ASSUME NEW p \in Processes, Claim(p) \/ RemoveRead(p) \/ RemoveDue(p)
      PROVE  Goal
  BY <1>1, <1>8 DEF Claim, RemoveRead, RemoveDue, historyVars
<1>9. ASSUME NEW p \in Processes, NEW c \in Claimed \cup Fetched,
             torn' = torn \/ torn' = torn \cup {c.payload},
             UNCHANGED <<sent, receives, counted, strange, faults>>
      PROVE  Goal
  BY <1>0, <1>9, HandTypes
<1>10. ASSUME NEW p \in Processes, PutBack(p)
       PROVE  Goal
  <2>1. PICK c \in claimed[p] :
           torn' = IF c \in Out \ Copied THEN torn ELSE torn \cup {c.payload}
    BY <1>10 DEF PutBack
  <2>2. c \in Claimed \cup Fetched
    BY DEF Claimed
  <2> QED
    BY <1>9, <1>10, <2>1, <2>2 DEF PutBack
<1>11. ASSUME NEW p \in Processes, AddDue(p)
       PROVE  Goal
  <2>1. PICK c \in fetched[p] :
           torn' = IF c \in Later \ Added THEN torn ELSE torn \cup {c.payload}
    BY <1>11 DEF AddDue
  <2>2. c \in Claimed \cup Fetched
    BY DEF Fetched
  <2> QED
    BY <1>9, <1>11, <2>1, <2>2 DEF AddDue
<1>12. ASSUME NEW p \in Processes, NEW k \in delayed, FetchDue(p, k) \/ FetchDuePanics(p, k)
       PROVE  Goal
  BY <1>1, <1>12 DEF FetchDue, FetchDuePanics, historyVars
<1>13. ASSUME Ack \/ UNCHANGED vars PROVE Goal
  BY <1>1, <1>13 DEF Ack, vars, historyVars
<1> HIDE DEF Goal
<1>14. Goal
  BY <1>2, <1>4, <1>5, <1>6, <1>7, <1>8, <1>10, <1>11, <1>12, <1>13 DEF Next, Schedule
<1> QED
  BY <1>14 DEF Goal

\* The types of the history, and messages that were not sent are not received.
LEMMA HistoryTypes ==
    ASSUME ClientsInv, [Next]_vars
    PROVE  /\ sent' \subseteq Messages /\ torn' \subseteq Messages /\ faults' \in Nat
           /\ receives' \in [Messages -> 0..MaxReceives]
           /\ counted' \in [Messages -> Nat]
           /\ strange' \in BOOLEAN
           /\ \A m \in Messages \ sent' : receives'[m] = 0
<1>0. TypeOK /\ \A m \in Messages \ sent : receives[m] = 0
  BY DEF ClientsInv
<1>1. /\ sent \subseteq sent' /\ sent' \subseteq Messages
      /\ torn' \subseteq Messages /\ faults' \in Nat
      /\ \/ UNCHANGED <<receives, counted, strange>>
         \/ \E m \in sent, n \in Nat : Handed(m, n)
  BY HistoryEffect
<1>2. CASE UNCHANGED <<receives, counted, strange>>
  BY <1>0, <1>1, <1>2 DEF TypeOK
<1>3. CASE \E m \in sent, n \in Nat : Handed(m, n)
  <2>1. PICK m \in sent, n \in Nat : Handed(m, n)
    BY <1>3
  <2>2. m \in Messages /\ receives[m] \in Nat /\ MaxReceives \in Nat
    BY <1>0, Counts, ClientsAssumption
  <2>3. receives[m] + 1 \in 0..MaxReceives /\ receives[m] + 1 \in Nat
    BY <2>1, <2>2 DEF Handed
  <2>4. receives' = [receives EXCEPT ![m] = receives[m] + 1]
    BY <2>1 DEF Handed
  <2>5. receives' \in [Messages -> 0..MaxReceives]
    BY <1>0, <2>3, <2>4 DEF TypeOK
  <2>6. counted' \in [Messages -> Nat]
    BY <1>0, <2>1, <2>3 DEF Handed, TypeOK
  <2>7. strange' \in BOOLEAN
    BY <1>0, <2>1 DEF Handed, TypeOK
  <2>8. \A l \in Messages \ sent' : receives'[l] = 0
    BY <1>0, <1>1, <2>1, <2>4 DEF TypeOK
  <2> QED
    BY <1>1, <2>5, <2>6, <2>7, <2>8
<1> QED
  BY <1>1, <1>2, <1>3

\* Processes only ever gain clients of the form their builder chose.
LEMMA ProcessTypes ==
    ASSUME TypeOK, [Next]_vars
    PROVE  /\ wantStreams' = wantStreams /\ delayOn' = delayOn
           /\ built' \subseteq Processes /\ usesStreams' \subseteq built' /\ built \subseteq built'
           /\ \A p \in built : (p \in usesStreams') = (p \in usesStreams)
           /\ halves' \in [Processes -> SUBSET {"producer", "consumer"}]
           /\ tasks' \in [Processes -> SUBSET {"delayed", "requeue"}]
           /\ \A p \in Processes : halves'[p] = {} => tasks'[p] = {}
           /\ \A p \in Processes \ built' : halves'[p] = {}
<1> DEFINE Goal ==
           /\ wantStreams' = wantStreams /\ delayOn' = delayOn
           /\ built' \subseteq Processes /\ usesStreams' \subseteq built' /\ built \subseteq built'
           /\ \A p \in built : (p \in usesStreams') = (p \in usesStreams)
           /\ halves' \in [Processes -> SUBSET {"producer", "consumer"}]
           /\ tasks' \in [Processes -> SUBSET {"delayed", "requeue"}]
           /\ \A p \in Processes : halves'[p] = {} => tasks'[p] = {}
           /\ \A p \in Processes \ built' : halves'[p] = {}
<1>1. ASSUME UNCHANGED <<wantStreams, delayOn, built, usesStreams, halves, tasks>> PROVE Goal
  BY <1>1 DEF TypeOK
<1>2. ASSUME NEW p \in Processes, NEW hs \in (SUBSET {"producer", "consumer"}) \ {{}},
             NEW dynamic \in BOOLEAN, Build(p, hs, dynamic)
      PROVE  Goal
  <2>1. StartBackgroundTasks \in SUBSET {"delayed", "requeue"}
    BY DEF StartBackgroundTasks
  <2>2. PICK ts \in SUBSET {"delayed", "requeue"} : ts = StartBackgroundTasks
    BY <2>1
  <2>3. /\ built' = built \cup {p} /\ p \notin built
        /\ usesStreams' = usesStreams \cup {p} \/ usesStreams' = usesStreams
        /\ halves' = [halves EXCEPT ![p] = hs]
        /\ tasks' = [tasks EXCEPT ![p] = ts]
        /\ UNCHANGED <<wantStreams, delayOn>>
    BY <1>2, <2>2 DEF Build, configVars
  <2>4. /\ built' \subseteq Processes /\ usesStreams' \subseteq built' /\ built \subseteq built'
        /\ \A q \in built : (q \in usesStreams') = (q \in usesStreams)
    BY <2>3 DEF TypeOK
  <2>5. /\ halves' \in [Processes -> SUBSET {"producer", "consumer"}]
        /\ tasks' \in [Processes -> SUBSET {"delayed", "requeue"}]
    BY <2>3 DEF TypeOK
  <2>6. halves'[p] # {}
    BY <2>3 DEF TypeOK
  <2>7. \A q \in Processes : q # p => halves'[q] = halves[q] /\ tasks'[q] = tasks[q]
    BY <2>3 DEF TypeOK
  <2> QED
    BY <2>3, <2>4, <2>5, <2>6, <2>7 DEF TypeOK
<1>3. ASSUME NEW p \in Processes, NEW h \in {"producer", "consumer"}, Drop(p, h)
      PROVE  Goal
  <2>1. /\ h \in halves[p]
        /\ halves' = [halves EXCEPT ![p] = halves[p] \ {h}]
        /\ tasks' = [tasks EXCEPT ![p] = IF halves[p] = {h} THEN {} ELSE tasks[p]]
        /\ UNCHANGED <<wantStreams, delayOn, built, usesStreams>>
    BY <1>3 DEF Drop, configVars
  <2>2. /\ halves' \in [Processes -> SUBSET {"producer", "consumer"}]
        /\ tasks' \in [Processes -> SUBSET {"delayed", "requeue"}]
    BY <2>1 DEF TypeOK
  <2>3. halves'[p] = {} => tasks'[p] = {}
    BY <2>1 DEF TypeOK
  <2>4. \A q \in Processes : q # p => halves'[q] = halves[q] /\ tasks'[q] = tasks[q]
    BY <2>1 DEF TypeOK
  <2>5. p \in built
    BY <2>1 DEF TypeOK
  <2> QED
    BY <2>1, <2>2, <2>3, <2>4, <2>5 DEF TypeOK
<1>4. ASSUME NEW p \in Processes, NEW task,
             tasks' = [tasks EXCEPT ![p] = @ \ {task}],
             UNCHANGED <<wantStreams, delayOn, built, usesStreams, halves>>
      PROVE  Goal
  BY <1>4 DEF TypeOK
<1>5. ASSUME NEW p \in Processes, NEW m \in Payloads, SendRaw(p, m) \/ SendRawScheduled(p, m)
      PROVE  Goal
  BY <1>1, <1>5 DEF SendRaw, SendRawScheduled, processVars, configVars
<1>6. ASSUME NEW p \in Processes, Receive(p)
      PROVE  Goal
  BY <1>1, <1>6 DEF Receive, ReceiveEntry, ReceiveKey, processVars, configVars
<1>7. ASSUME NEW p \in Processes, Claim(p)
      PROVE  Goal
  BY <1>1, <1>4, <1>7 DEF Claim, ClaimEntry, ClaimKey, Dies, configVars
<1>8. ASSUME NEW p \in Processes, PutBack(p) \/ RemoveRead(p) \/ AddDue(p) \/ RemoveDue(p)
      PROVE  Goal
  BY <1>1, <1>8 DEF PutBack, RemoveRead, AddDue, RemoveDue, processVars, configVars
<1>9. ASSUME NEW p \in Processes, NEW k \in delayed, FetchDue(p, k) \/ FetchDuePanics(p, k)
      PROVE  Goal
  BY <1>1, <1>4, <1>9 DEF FetchDue, FetchDuePanics, Dies, processVars, configVars
<1>10. ASSUME NEW p \in Processes, NEW task, BreakOff(p, task)
       PROVE  Goal
  BY <1>1, <1>10 DEF BreakOff, processVars, configVars
<1>11. ASSUME Ack \/ UNCHANGED vars PROVE Goal
  BY <1>1, <1>11 DEF Ack, vars, processVars, configVars
<1> HIDE DEF Goal
<1>12. Goal
  BY <1>2, <1>3, <1>5, <1>6, <1>7, <1>8, <1>9, <1>10, <1>11 DEF Next, Schedule
<1> QED
  BY <1>12 DEF Goal

\* What a task is at: f and g hold copies of messages, where the task runs.
Copies == [id : Ids, payload : Messages, num_receives : Nat]
AtWork(f, g, ts, task) ==
    /\ f \in [Processes -> SUBSET Copies] /\ g \in [Processes -> SUBSET Copies]
    /\ \A p \in Processes : f[p] \cup g[p] # {} => task \in ts[p]
HandsTyped == AtWork(claimed, copied, tasks, "requeue") /\ AtWork(fetched, added, tasks, "delayed")

\* It goes on with F and G, where it still runs.
LEMMA WorkStep ==
    ASSUME NEW f, NEW g, NEW ts, NEW task, AtWork(f, g, ts, task), NEW p \in Processes,
           NEW ff, NEW gg, NEW tt, NEW F \in SUBSET Copies, NEW G \in SUBSET Copies,
           ff = [f EXCEPT ![p] = F], gg = [g EXCEPT ![p] = G],
           F \cup G # {} => task \in tt[p], \A q \in Processes : q # p => tt[q] = ts[q]
    PROVE  AtWork(ff, gg, tt, task)
  BY DEF AtWork

\* It does not move.
LEMMA WorkStays ==
    ASSUME NEW f, NEW g, NEW ts, NEW task, AtWork(f, g, ts, task), NEW tt,
           \A q \in Processes : f[q] \cup g[q] # {} /\ task \in ts[q] => task \in tt[q]
    PROVE  AtWork(f, g, tt, task)
  BY DEF AtWork

\* A task that stops holds nothing.
LEMMA LetGoTypes ==
    ASSUME HandsTyped, TypeOK, NEW p \in Processes, NEW ts, LetGo(p, ts),
           tasks' = tasks \/ (tasks' = [tasks EXCEPT ![p] = {}] /\ ts = {"requeue", "delayed"})
    PROVE  HandsTyped'
<1>0. /\ {} \in SUBSET Copies /\ claimed[p] \in SUBSET Copies /\ copied[p] \in SUBSET Copies
      /\ fetched[p] \in SUBSET Copies /\ added[p] \in SUBSET Copies
      /\ \A q \in Processes : q # p => tasks'[q] = tasks[q]
  BY DEF HandsTyped, AtWork, TypeOK
<1>1. AtWork(claimed', copied', tasks', "requeue")
  <2>1. CASE "requeue" \in ts
    <3>1. PICK E : E = {}
      OBVIOUS
    <3>2. claimed' = [claimed EXCEPT ![p] = E] /\ copied' = [copied EXCEPT ![p] = E]
      BY <2>1, <3>1 DEF LetGo
    <3>3. AtWork(claimed, copied, tasks, "requeue")
      BY DEF HandsTyped
    <3> QED
      BY <1>0, <3>1, <3>2, <3>3 DEF AtWork
  <2>2. CASE "requeue" \notin ts
    <3>1. claimed' = claimed /\ copied' = copied /\ tasks' = tasks
      BY <2>2 DEF LetGo
    <3> QED
      BY <3>1 DEF HandsTyped
  <2> QED
    BY <2>1, <2>2
<1>2. AtWork(fetched', added', tasks', "delayed")
  <2>1. CASE "delayed" \in ts
    <3>1. PICK E : E = {}
      OBVIOUS
    <3>2. fetched' = [fetched EXCEPT ![p] = E] /\ added' = [added EXCEPT ![p] = E]
      BY <2>1, <3>1 DEF LetGo
    <3>3. AtWork(fetched, added, tasks, "delayed")
      BY DEF HandsTyped
    <3> QED
      BY <1>0, <3>1, <3>2, <3>3 DEF AtWork
  <2>2. CASE "delayed" \notin ts
    <3>1. fetched' = fetched /\ added' = added /\ tasks' = tasks
      BY <2>2 DEF LetGo
    <3> QED
      BY <3>1 DEF HandsTyped
  <2> QED
    BY <2>1, <2>2
<1> QED
  BY <1>1, <1>2 DEF HandsTyped

\* What a task reads is a copy of a message.
LEMMA ReadTypes ==
    ASSUME ClientsInv
    PROVE  /\ \A e \in pending : DecodeEntry(e) \in Copies
           /\ \A k \in processing \cup delayed : Legible(k) => Decode(k) \in Copies
<1>0. TypeOK /\ PlacesOK /\ CopiesOK
  BY DEF ClientsInv
<1>1. ASSUME NEW e \in pending PROVE DecodeEntry(e) \in Copies
  <2>1. PICK c : c = DecodeEntry(e)
    OBVIOUS
  <2>2. /\ e.id \in Ids /\ e.num_receives + 1 \in Nat /\ c.num_receives > 0
        /\ c.payload = e.payload
    BY <1>0, <2>1, Fields DEF PlacesOK, DecodeEntry
  <2>3. e.payload \in Messages
    BY <1>0, <2>1, <2>2, Counts DEF CopiesOK, Out
  <2> QED
    BY <2>2, <2>3, Fields DEF DecodeEntry, Copies
<1>2. ASSUME NEW k \in processing \cup delayed, Legible(k) PROVE Decode(k) \in Copies
  <2>1. PICK c : c = Decode(k)
    OBVIOUS
  <2>2. k.id \in Ids /\ c.num_receives \in Nat \ {0} /\ c.num_receives > 0
    BY <1>0, <1>2, <2>1, Illegible DEF PlacesOK
  <2>3. c.payload \in Messages
    BY <1>0, <2>1, <2>2, Counts DEF CopiesOK, Out, Later
  <2>4. PICK m, n : c = Internal(k.id, m, n)
    BY <1>2, <2>1 DEF Decode, Legible
  <2>5. c.payload = m /\ c.num_receives = n
    BY <2>4, Fields
  <2> QED
    BY <2>1, <2>2, <2>3, <2>4, <2>5, Fields DEF Copies
<1> QED
  BY <1>1, <1>2

\* Only tasks that run hold anything, and what they hold are copies of messages.
LEMMA HandsTypedStep ==
    ASSUME ClientsInv, [Next]_vars
    PROVE  HandsTyped'
<1>0. TypeOK /\ HandsTyped
  <2>1. TypeOK
    BY DEF ClientsInv
  <2>2. /\ claimed \in [Processes -> SUBSET Copies] /\ copied \in [Processes -> SUBSET Copies]
        /\ fetched \in [Processes -> SUBSET Copies] /\ added \in [Processes -> SUBSET Copies]
    BY <2>1 DEF TypeOK, Copies
  <2>3. /\ \A p \in Processes : claimed[p] \cup copied[p] # {} => "requeue" \in tasks[p]
        /\ \A p \in Processes : fetched[p] \cup added[p] # {} => "delayed" \in tasks[p]
    BY <2>1 DEF TypeOK
  <2> QED
    BY <2>1, <2>2, <2>3 DEF HandsTyped, AtWork
<1>1. ASSUME UNCHANGED <<claimed, copied, fetched, added>>,
             \A q \in Processes : /\ claimed[q] \cup copied[q] # {} /\ "requeue" \in tasks[q] =>
                                        "requeue" \in tasks'[q]
                                  /\ fetched[q] \cup added[q] # {} /\ "delayed" \in tasks[q] =>
                                        "delayed" \in tasks'[q]
      PROVE  HandsTyped'
  <2>1. AtWork(claimed, copied, tasks', "requeue") /\ AtWork(fetched, added, tasks', "delayed")
    BY <1>0, <1>1, WorkStays DEF HandsTyped
  <2> QED
    BY <1>1, <2>1 DEF HandsTyped
<1>2. ASSUME UNCHANGED <<claimed, copied, fetched, added, tasks>> PROVE HandsTyped'
  BY <1>1, <1>2
<1>3. ASSUME NEW p \in Processes, NEW hs, NEW dynamic \in BOOLEAN, Build(p, hs, dynamic)
      PROVE  HandsTyped'
  <2>1. claimed[p] \cup copied[p] = {} /\ fetched[p] \cup added[p] = {}
    BY <1>0, <1>3 DEF TypeOK, Build
  <2>2. \A q \in Processes : q # p => tasks'[q] = tasks[q]
    BY <1>0, <1>3 DEF TypeOK, Build
  <2> QED
    BY <1>1, <1>3, <2>1, <2>2 DEF Build, requeueVars, scheduleVars
<1>4. ASSUME NEW p \in Processes, NEW h \in {"producer", "consumer"}, Drop(p, h)
      PROVE  HandsTyped'
  <2>1. /\ LetGo(p, IF halves[p] = {h} THEN {"requeue", "delayed"} ELSE {})
        /\ tasks' = [tasks EXCEPT ![p] = IF halves[p] = {h} THEN {} ELSE tasks[p]]
    BY <1>4 DEF Drop
  <2>2. CASE halves[p] = {h}
    BY <1>0, <2>1, <2>2, LetGoTypes
  <2>3. CASE halves[p] # {h}
    <3>1. tasks' = tasks
      BY <1>0, <2>1, <2>3 DEF TypeOK
    <3> QED
      BY <1>0, <2>1, <3>1, LetGoTypes
  <2> QED
    BY <2>2, <2>3
<1>5. ASSUME NEW p \in Processes, NEW task, BreakOff(p, task)
      PROVE  HandsTyped'
  BY <1>0, <1>5, LetGoTypes DEF BreakOff, processVars
<1>6. ASSUME NEW p \in Processes, NEW m \in Payloads, SendRaw(p, m) \/ SendRawScheduled(p, m)
      PROVE  HandsTyped'
  BY <1>2, <1>6 DEF SendRaw, SendRawScheduled, processVars, requeueVars, scheduleVars
<1>7. ASSUME NEW p \in Processes, Receive(p)
      PROVE  HandsTyped'
  BY <1>2, <1>7 DEF Receive, ReceiveEntry, ReceiveKey, processVars, requeueVars, scheduleVars
<1>8. ASSUME NEW p \in Processes, NEW F \in SUBSET Copies, NEW G \in SUBSET Copies,
             claimed' = [claimed EXCEPT ![p] = F], copied' = [copied EXCEPT ![p] = G],
             "requeue" \in tasks[p], UNCHANGED <<fetched, added, tasks>>
      PROVE  HandsTyped'
  <2>1. AtWork(claimed', copied', tasks', "requeue")
    BY <1>0, <1>8, WorkStep DEF HandsTyped
  <2> QED
    BY <1>0, <1>8, <2>1 DEF HandsTyped
<1>9. ASSUME NEW p \in Processes, NEW F \in SUBSET Copies, NEW G \in SUBSET Copies,
             fetched' = [fetched EXCEPT ![p] = F], added' = [added EXCEPT ![p] = G],
             "delayed" \in tasks[p], UNCHANGED <<claimed, copied, tasks>>
      PROVE  HandsTyped'
  <2>1. AtWork(fetched', added', tasks', "delayed")
    BY <1>0, <1>9, WorkStep DEF HandsTyped
  <2> QED
    BY <1>0, <1>9, <2>1 DEF HandsTyped
<1>10. ASSUME NEW p \in Processes
       PROVE  /\ claimed = [claimed EXCEPT ![p] = claimed[p]]
              /\ copied = [copied EXCEPT ![p] = copied[p]]
              /\ fetched = [fetched EXCEPT ![p] = fetched[p]]
              /\ added = [added EXCEPT ![p] = added[p]]
              /\ claimed[p] \in SUBSET Copies /\ copied[p] \in SUBSET Copies
              /\ fetched[p] \in SUBSET Copies /\ added[p] \in SUBSET Copies
              /\ claimed[p] # {} \/ copied[p] # {} => "requeue" \in tasks[p]
              /\ fetched[p] # {} \/ added[p] # {} => "delayed" \in tasks[p]
  <2>1. /\ claimed \in [Processes -> SUBSET Copies] /\ copied \in [Processes -> SUBSET Copies]
        /\ fetched \in [Processes -> SUBSET Copies] /\ added \in [Processes -> SUBSET Copies]
    BY <1>0 DEF HandsTyped, AtWork
  <2>2. /\ claimed[p] # {} \/ copied[p] # {} => "requeue" \in tasks[p]
        /\ fetched[p] # {} \/ added[p] # {} => "delayed" \in tasks[p]
    BY <1>0 DEF TypeOK
  <2> QED
    BY <2>1, <2>2
<1>11. ASSUME NEW p \in Processes, NEW task, tasks' = [tasks EXCEPT ![p] = @ \ {task}],
              UNCHANGED <<claimed, copied, fetched, added>>,
              \/ task = "requeue" /\ claimed[p] = {} /\ copied[p] = {}
              \/ task = "delayed" /\ fetched[p] = {} /\ added[p] = {}
       PROVE  HandsTyped'
  BY <1>0, <1>1, <1>11 DEF TypeOK
<1>12. ASSUME NEW p \in Processes, Claim(p)
       PROVE  HandsTyped'
  <2>1. /\ "requeue" \in tasks[p] /\ claimed[p] = {} /\ copied[p] = {}
        /\ UNCHANGED <<copied, fetched, added>>
    BY <1>12 DEF Claim, scheduleVars
  <2>2. \/ UNCHANGED claimed /\ tasks' = [tasks EXCEPT ![p] = @ \ {"requeue"}]
        \/ \E c \in Copies : claimed' = [claimed EXCEPT ![p] = {c}] /\ UNCHANGED tasks
    BY <1>12, ReadTypes DEF Claim, ClaimEntry, ClaimKey, Dies
  <2>3. CASE UNCHANGED claimed /\ tasks' = [tasks EXCEPT ![p] = @ \ {"requeue"}]
    BY <1>11, <2>1, <2>3
  <2>4. CASE \E c \in Copies : claimed' = [claimed EXCEPT ![p] = {c}] /\ UNCHANGED tasks
    <3>1. PICK c \in Copies : claimed' = [claimed EXCEPT ![p] = {c}] /\ UNCHANGED tasks
      BY <2>4
    <3>2. copied' = [copied EXCEPT ![p] = copied[p]] /\ copied[p] \in SUBSET Copies
      BY <1>10, <2>1
    <3>3. {c} \in SUBSET Copies
      OBVIOUS
    <3> QED
      BY <1>8, <2>1, <3>1, <3>2, <3>3
  <2> QED
    BY <2>2, <2>3, <2>4
<1>13. ASSUME NEW p \in Processes, PutBack(p)
       PROVE  HandsTyped'
  <2>1. PICK c \in claimed[p] : /\ claimed' = [claimed EXCEPT ![p] = claimed[p] \ {c}]
                                /\ copied' = [copied EXCEPT ![p] = copied[p] \cup {c}]
    BY <1>13 DEF PutBack
  <2>2. /\ claimed[p] \ {c} \in SUBSET Copies /\ copied[p] \cup {c} \in SUBSET Copies
        /\ "requeue" \in tasks[p]
    BY <1>10
  <2>3. UNCHANGED <<fetched, added, tasks>>
    BY <1>13 DEF PutBack, scheduleVars, processVars
  <2> QED
    BY <1>8, <2>1, <2>2, <2>3
<1>14. ASSUME NEW p \in Processes, RemoveRead(p)
       PROVE  HandsTyped'
  <2>1. /\ copied' = [copied EXCEPT ![p] = {}] /\ UNCHANGED <<claimed, fetched, added, tasks>>
        /\ "requeue" \in tasks[p]
    BY <1>10, <1>14 DEF RemoveRead, scheduleVars, processVars
  <2>2. claimed' = [claimed EXCEPT ![p] = claimed[p]] /\ claimed[p] \in SUBSET Copies
    BY <1>10, <2>1
  <2>3. {} \in SUBSET Copies
    OBVIOUS
  <2> QED
    BY <1>8, <2>1, <2>2, <2>3
<1>15. ASSUME NEW p \in Processes, NEW k \in delayed, FetchDue(p, k)
       PROVE  HandsTyped'
  <2>1. /\ fetched' = [fetched EXCEPT ![p] = {Decode(k)}] /\ "delayed" \in tasks[p] /\ Legible(k)
        /\ UNCHANGED <<claimed, copied, added, tasks>>
    BY <1>15 DEF FetchDue, requeueVars, processVars
  <2>2. {Decode(k)} \in SUBSET Copies
    BY <2>1, ReadTypes
  <2>3. added' = [added EXCEPT ![p] = added[p]] /\ added[p] \in SUBSET Copies
    BY <1>10, <2>1
  <2> QED
    BY <1>9, <2>1, <2>2, <2>3
<1>16. ASSUME NEW p \in Processes, NEW k \in delayed, FetchDuePanics(p, k)
       PROVE  HandsTyped'
  BY <1>11, <1>16 DEF FetchDuePanics, Dies, requeueVars, scheduleVars
<1>17. ASSUME NEW p \in Processes, AddDue(p)
       PROVE  HandsTyped'
  <2>1. PICK c \in fetched[p] : /\ fetched' = [fetched EXCEPT ![p] = fetched[p] \ {c}]
                                /\ added' = [added EXCEPT ![p] = added[p] \cup {c}]
    BY <1>17 DEF AddDue
  <2>2. /\ fetched[p] \ {c} \in SUBSET Copies /\ added[p] \cup {c} \in SUBSET Copies
        /\ "delayed" \in tasks[p]
    BY <1>10
  <2>3. UNCHANGED <<claimed, copied, tasks>>
    BY <1>17 DEF AddDue, requeueVars, processVars
  <2> QED
    BY <1>9, <2>1, <2>2, <2>3
<1>18. ASSUME NEW p \in Processes, RemoveDue(p)
       PROVE  HandsTyped'
  <2>1. /\ added' = [added EXCEPT ![p] = {}] /\ UNCHANGED <<claimed, copied, fetched, tasks>>
        /\ "delayed" \in tasks[p]
    BY <1>10, <1>18 DEF RemoveDue, requeueVars, processVars
  <2>2. fetched' = [fetched EXCEPT ![p] = fetched[p]] /\ fetched[p] \in SUBSET Copies
    BY <1>10, <2>1
  <2>3. {} \in SUBSET Copies
    OBVIOUS
  <2> QED
    BY <1>9, <2>1, <2>2, <2>3
<1>19. ASSUME Ack \/ UNCHANGED vars PROVE HandsTyped'
  BY <1>2, <1>19 DEF Ack, vars, processVars, requeueVars, scheduleVars
<1> QED
  BY <1>3, <1>4, <1>5, <1>6, <1>7, <1>12, <1>13, <1>14, <1>15, <1>16, <1>17, <1>18, <1>19
     DEF Next, Schedule

\* What a step does to the main queue: nothing new comes, or it comes in the form
\* of a client that found no other form there.
QueueStays ==
    /\ UNCHANGED streamExists /\ list' \subseteq list
    /\ stream' \cup pending' # {} => stream \cup pending # {}
StreamGrows ==
    /\ \E p \in built : p \in usesStreams
    /\ list = {} /\ list' = {} /\ streamExists' = TRUE
ListGrows ==
    /\ \E p \in built : p \notin usesStreams
    /\ streamExists = FALSE /\ UNCHANGED <<streamExists, stream, pending>>

\* A client with a half or a task left was built.
LEMMA LiveIsBuilt ==
    ASSUME TypeOK, NEW p \in Processes, halves[p] # {} \/ tasks[p] # {}
    PROVE  p \in built
  BY DEF TypeOK

\* add_to_main_queue adds in its client's form.
LEMMA AddEffect ==
    ASSUME TypeOK, NEW p \in built, NEW m, NEW n, ~WrongType(p), AddToMainQueue(p, m, n),
           UNCHANGED pending
    PROVE  StreamGrows \/ ListGrows
  BY DEF TypeOK, WrongType, AddToMainQueue, StreamGrows, ListGrows

\* Every step does one of the three.
LEMMA QueueEffect ==
    ASSUME TypeOK, [Next]_vars
    PROVE  QueueStays \/ StreamGrows \/ ListGrows
<1> DEFINE Goal == QueueStays \/ StreamGrows \/ ListGrows
<1>1. ASSUME UNCHANGED <<streamExists, stream, list>>, pending' \subseteq pending PROVE Goal
  BY <1>1 DEF QueueStays
<1>2. ASSUME NEW p \in Processes, NEW hs, NEW dynamic \in BOOLEAN, Build(p, hs, dynamic)
      PROVE  Goal
  BY <1>1, <1>2 DEF Build, redisVars
<1>3. ASSUME NEW p \in Processes, NEW h, Drop(p, h)
      PROVE  Goal
  BY <1>1, <1>3 DEF Drop, redisVars
<1>4. ASSUME NEW p \in Processes, NEW m \in Payloads, SendRaw(p, m)
      PROVE  Goal
  <2>1. p \in built
    BY <1>4, LiveIsBuilt DEF SendRaw
  <2> QED
    BY <1>4, <2>1, AddEffect DEF SendRaw
<1>5. ASSUME NEW p \in Processes, NEW m \in Payloads, SendRawScheduled(p, m)
      PROVE  Goal
  BY <1>1, <1>5 DEF SendRawScheduled
<1>6. ASSUME NEW p \in Processes, Receive(p)
      PROVE  Goal
  BY <1>6 DEF Receive, ReceiveEntry, ReceiveKey, QueueStays
<1>7. ASSUME NEW p \in Processes, Claim(p)
      PROVE  Goal
  BY <1>1, <1>7 DEF Claim, redisVars
<1>8. ASSUME NEW p \in Processes, PutBack(p)
      PROVE  Goal
  <2>1. claimed[p] # {}
    BY <1>8 DEF PutBack
  <2>2. tasks[p] # {}
    BY <2>1 DEF TypeOK
  <2>3. p \in built
    BY <2>2, LiveIsBuilt
  <2> QED
    BY <1>8, <2>3, AddEffect DEF PutBack
<1>9. ASSUME NEW p \in Processes, RemoveRead(p) \/ RemoveDue(p)
      PROVE  Goal
  BY <1>1, <1>9 DEF RemoveRead, RemoveDue
<1>10. ASSUME NEW p \in Processes, AddDue(p)
       PROVE  Goal
  <2>1. fetched[p] # {}
    BY <1>10 DEF AddDue
  <2>2. tasks[p] # {}
    BY <2>1 DEF TypeOK
  <2>3. p \in built
    BY <2>2, LiveIsBuilt
  <2> QED
    BY <1>10, <2>3, AddEffect DEF AddDue
<1>11. ASSUME NEW p \in Processes, NEW k \in delayed, FetchDue(p, k) \/ FetchDuePanics(p, k)
       PROVE  Goal
  BY <1>1, <1>11 DEF FetchDue, FetchDuePanics, redisVars
<1>12. ASSUME NEW p \in Processes, NEW task, BreakOff(p, task)
       PROVE  Goal
  BY <1>1, <1>12 DEF BreakOff, redisVars
<1>13. ASSUME Ack PROVE Goal
  BY <1>1, <1>13 DEF Ack
<1>14. ASSUME UNCHANGED vars PROVE Goal
  BY <1>1, <1>14 DEF vars, redisVars
<1> HIDE DEF Goal
<1>15. Goal
  BY <1>2, <1>3, <1>4, <1>5, <1>6, <1>7, <1>8, <1>9, <1>10, <1>11, <1>12, <1>13, <1>14
     DEF Next, Schedule
<1> QED
  BY <1>15 DEF Goal

\* The main queue stays of one type, and of the one the application asked for
\* while all clients use that.
LEMMA FormsStep ==
    ASSUME TypeOK, FormsOK, [Next]_vars
    PROVE  /\ streamExists' \in BOOLEAN
           /\ stream' \cup pending' # {} => streamExists'
           /\ list' # {} => ~streamExists'
           /\ FormsOK'
<1>1. QueueStays \/ StreamGrows \/ ListGrows
  BY QueueEffect
<1>2. /\ streamExists' \in BOOLEAN
      /\ stream' \cup pending' # {} => streamExists'
      /\ list' # {} => ~streamExists'
  <2>1. /\ streamExists \in BOOLEAN
        /\ stream \cup pending # {} => streamExists
        /\ list # {} => ~streamExists
    BY DEF TypeOK
  <2>2. CASE QueueStays
    <3>1. streamExists' = streamExists /\ (list' # {} => list # {})
      BY <2>2 DEF QueueStays
    <3> QED
      BY <2>1, <2>2, <3>1 DEF QueueStays
  <2>3. CASE StreamGrows
    BY <2>3 DEF StreamGrows
  <2>4. CASE ListGrows
    <3>1. streamExists' = FALSE /\ (stream' \cup pending' = stream \cup pending)
      BY <2>4 DEF ListGrows
    <3> QED
      BY <2>1, <2>4, <3>1 DEF ListGrows
  <2> QED
    BY <1>1, <2>2, <2>3, <2>4
<1>3. OneForm' => OneForm /\ wantStreams' = wantStreams
  BY ProcessTypes DEF OneForm
<1>4. FormsOK'
  <2>1. SUFFICES ASSUME OneForm'
                 PROVE  IF wantStreams' THEN list' = {} ELSE ~streamExists'
    BY DEF FormsOK
  <2>2. /\ wantStreams' = wantStreams /\ wantStreams \in BOOLEAN
        /\ \A p \in built : (p \in usesStreams) = wantStreams
        /\ IF wantStreams THEN list = {} ELSE ~streamExists
    BY <1>3, <2>1 DEF FormsOK, OneForm, TypeOK
  <2>3. CASE QueueStays
    BY <2>2, <2>3 DEF QueueStays
  <2>4. CASE StreamGrows
    BY <2>2, <2>4 DEF StreamGrows
  <2>5. CASE ListGrows
    BY <2>2, <2>5 DEF ListGrows
  <2> QED
    BY <1>1, <2>3, <2>4, <2>5
<1> QED
  BY <1>2, <1>4

\* Every step preserves ClientsInv.
LEMMA ClientsStep == ClientsInv /\ [Next]_vars => ClientsInv'
<1> SUFFICES ASSUME ClientsInv, [Next]_vars PROVE ClientsInv'
  OBVIOUS
<1>1. TypeOK /\ FormsOK
  BY DEF ClientsInv
<1>2. PlacesOK' /\ HandsOK' /\ CopiesOK' /\ LiveOK' /\ NoneLost'
  BY CopiesStep DEF CopiesInv, Facts
<1>3. /\ sent' \subseteq Messages /\ torn' \subseteq Messages /\ faults' \in Nat
      /\ receives' \in [Messages -> 0..MaxReceives]
      /\ counted' \in [Messages -> Nat]
      /\ strange' \in BOOLEAN
      /\ \A m \in Messages \ sent' : receives'[m] = 0
  BY HistoryTypes
<1>4. /\ \A hand \in {claimed', copied', fetched', added'} :
            hand \in [Processes -> SUBSET [id : Ids, payload : Messages, num_receives : Nat]]
      /\ \A p \in Processes : claimed'[p] \cup copied'[p] # {} => "requeue" \in tasks'[p]
      /\ \A p \in Processes : fetched'[p] \cup added'[p] # {} => "delayed" \in tasks'[p]
  BY HandsTypedStep DEF HandsTyped, AtWork, Copies
<1>5. /\ wantStreams' \in BOOLEAN /\ delayOn' \in BOOLEAN
      /\ built' \subseteq Processes /\ usesStreams' \subseteq built'
      /\ halves' \in [Processes -> SUBSET {"producer", "consumer"}]
      /\ tasks' \in [Processes -> SUBSET {"delayed", "requeue"}]
      /\ \A p \in Processes : halves'[p] = {} => tasks'[p] = {}
      /\ \A p \in Processes \ built' : halves'[p] = {}
  <2>1. wantStreams \in BOOLEAN /\ delayOn \in BOOLEAN
    BY <1>1 DEF TypeOK
  <2> QED
    BY <1>1, <2>1, ProcessTypes
<1>6. /\ streamExists' \in BOOLEAN
      /\ stream' \cup pending' # {} => streamExists'
      /\ list' # {} => ~streamExists'
      /\ FormsOK'
  BY <1>1, FormsStep
<1>7. TypeOK'
  BY <1>3, <1>4, <1>5, <1>6 DEF TypeOK
<1> QED
  BY <1>2, <1>3, <1>6, <1>7 DEF ClientsInv

\* What earlier versions left in Redis is there once and was not received.
LEMMA ClientsInit == Init => ClientsInv
<1> SUFFICES ASSUME Init PROVE ClientsInv
  OBVIOUS
<1>1. PICK S \in SUBSET sent :
        /\ wantStreams => S = {}
        /\ list = {OldKey(m) : m \in S}
        /\ delayed = {OldKey(m) : m \in sent \ S}
  BY DEF Init
<1>2. /\ sent \subseteq OldPayloads /\ stream = {} /\ pending = {} /\ processing = {}
      /\ receives = [m \in Messages |-> 0] /\ streamExists = wantStreams
      /\ wantStreams \in BOOLEAN /\ torn = {}
      /\ claimed = [p \in Processes |-> {}] /\ copied = [p \in Processes |-> {}]
      /\ fetched = [p \in Processes |-> {}] /\ added = [p \in Processes |-> {}]
  BY DEF Init
<1>3. 0 \in 0..MaxReceives /\ 0 \in Nat /\ OldPayloads \subseteq Messages
  BY ClientsAssumption DEF Messages
<1>4. ASSUME NEW m \in sent
      PROVE  /\ m \in OldPayloads /\ receives[m] = 0 /\ OldKey(m).id \in Ids
             /\ OldKey(m).text = OldListPayload(m)
             /\ \/ Legible(OldKey(m)) /\ Decode(OldKey(m)) = Internal(OldKey(m).id, m, 1)
                \/ /\ OldKey(m).text \in PanicKeys /\ Unreadable(m)
                   /\ Decode(OldKey(m)) = Internal(OldKey(m).id, OldKey(m).text, 0)
  <2>1. m \in OldPayloads /\ m \in Messages
    BY <1>2, <1>3
  <2>2. OldKey(m).text = OldListPayload(m)
    BY DEF OldKey, Key
  <2> QED
    BY <1>2, <2>1, <2>2, OldKeys
<1>5. Claimed = {} /\ Copied = {} /\ Fetched = {} /\ Added = {}
  BY <1>2 DEF Claimed, Copied, Fetched, Added
<1>6. TypeOK
  <2>1. counted \in [Messages -> Nat] /\ receives \in [Messages -> 0..MaxReceives]
    BY <1>3 DEF Init
  <2>2. list # {} => ~streamExists
    BY <1>1, <1>2
  <2>3. \A hand \in {claimed, copied, fetched, added} :
           hand \in [Processes -> SUBSET [id : Ids, payload : Messages, num_receives : Nat]]
    BY <1>2
  <2> QED
    BY <1>2, <1>3, <2>1, <2>2, <2>3 DEF Init, TypeOK
<1>7. ASSUME NEW m \in sent, NEW l \in sent, m # l
      PROVE  Decode(OldKey(m)) # Decode(OldKey(l)) /\ OldKey(m) # OldKey(l)
  <2>1. OldListPayload(m) # OldListPayload(l)
    BY <1>4, <1>7, OldKeyTells, ClientsAssumption
  <2>2. CASE Legible(OldKey(m)) /\ Legible(OldKey(l))
    BY <1>4, <1>7, <2>1, <2>2, Fields, Illegible
  <2>3. CASE ~Legible(OldKey(m)) \/ ~Legible(OldKey(l))
    BY <1>4, <2>1, <2>3, Fields, Illegible
  <2> QED
    BY <2>1, <2>2, <2>3, <1>4
<1>8. PlacesOK
  <2>1. \A k \in list \cup delayed : \E m \in sent : k = OldKey(m)
    BY <1>1
  <2>2. list \cap delayed = {}
    BY <1>1, <1>7
  <2>3. \A k, l \in list \cup delayed : k # l => Decode(k) # Decode(l)
    BY <1>7, <2>1
  <2>4. \A k \in list \cup delayed :
           k.id \in Ids /\ (k.text \in PanicKeys \/ Decode(k).num_receives \in Nat \ {0})
    BY <1>4, <2>1, Fields
  <2> QED
    BY <1>2, <2>2, <2>3, <2>4 DEF PlacesOK
<1>9. /\ Out = {} /\ Waiting = {Decode(k) : k \in list} /\ Later = {Decode(k) : k \in delayed}
  BY <1>2 DEF Waiting, Out, Later
<1>10. \A c \in Waiting \cup Later : c.num_receives > 0 =>
          \E m \in sent : /\ c = Decode(OldKey(m)) /\ c.payload = m /\ c.num_receives = 1
                          /\ receives[m] = 0 /\ c.payload \in sent
  <2> SUFFICES ASSUME NEW m \in sent, NEW c, c = Decode(OldKey(m)), c.num_receives > 0
               PROVE  c.payload = m /\ c.num_receives = 1 /\ receives[m] = 0
    BY <1>1, <1>9
  <2> QED
    BY <1>4, Fields
<1>11. CopiesOK
  <2>1. \A c \in Waiting : c.num_receives > 0 =>
           c.payload \in sent /\ c.num_receives <= receives[c.payload] + 1
    BY <1>10
  <2>2. \A c \in Later : c.num_receives > 0 => c.payload \in sent
    BY <1>10
  <2> QED
    BY <1>5, <1>9, <2>1, <2>2 DEF CopiesOK
<1>12. LiveOK
  <2>1. \A c, d \in Live : c.payload = d.payload => c = d
    BY <1>9, <1>10 DEF Live
  <2>2. /\ \A c \in Waiting : c.num_receives > 0 => c.num_receives = receives[c.payload] + 1
        /\ \A c \in Later : c.num_receives > 0 => receives[c.payload] = 0
    BY <1>10
  <2> QED
    BY <1>9, <2>1, <2>2 DEF LiveOK
<1>13. NoneLost
  <2>1. ASSUME NEW m \in Readable PROVE Kept(m, Waiting \cup Later)
    <3>1. m \in sent /\ ~Unreadable(m)
      BY DEF Readable
    <3>2. Decode(OldKey(m)).payload = m /\ Decode(OldKey(m)).num_receives = 1
      BY <1>4, <3>1, Fields
    <3>3. OldKey(m) \in list \cup delayed
      BY <1>1, <3>1
    <3> QED
      BY <1>9, <3>2, <3>3 DEF Kept
  <2> QED
    BY <1>5, <2>1 DEF NoneLost
<1>14. HandsOK
  BY <1>2 DEF HandsOK
<1>15. \A m \in Messages \ sent : receives[m] = 0
  BY <1>2
<1>16. FormsOK
  BY <1>1, <1>2 DEF FormsOK
<1> QED
  BY <1>6, <1>8, <1>11, <1>12, <1>13, <1>14, <1>15, <1>16 DEF ClientsInv

-----------------------------------------------------------------------------
(* The theorems *)

\* ClientsInv holds in every reachable state, however many processes send,
\* receive, requeue and move messages in either form, and whichever commands of
\* their tasks fail: every entry and key in Redis that can be read, and all that a
\* task has read, is of a message that was sent and says no more receives than
\* there were; and a message that was not received is waiting or in the delayed
\* set.
THEOREM ClientsInvariant == Spec => []ClientsInv
<1>1. Init => ClientsInv
  BY ClientsInit
<1>2. ClientsInv /\ [Next]_vars => ClientsInv'
  BY ClientsStep
<1> QED
  BY <1>1, <1>2, PTL DEF Spec

\* What a consumer is handed was sent, byte for byte: no payload, whatever its
\* bytes, comes out of internal_from_list as another one.
THEOREM PayloadsIntact == Spec => []PayloadIntact
<1>1. Init => PayloadIntact
  BY DEF Init, PayloadIntact
<1>2. ClientsInv /\ PayloadIntact /\ [Next]_vars => PayloadIntact'
  BY HistoryEffect DEF PayloadIntact, Handed
<1> QED
  BY <1>1, <1>2, ClientsInvariant, PTL DEF Spec

\* No Delivery is told of more receives than there were, though tasks put copies
\* back twice; and none of fewer, unless they did or a task stopped before it had
\* removed what it put back or moved.
THEOREM CountsAreTrue == Spec => []CountsTrue
<1>1. Init => CountsTrue
  BY DEF Init, CountsTrue
<1>2. ClientsInv /\ CountsTrue /\ [Next]_vars => CountsTrue'
  <2> SUFFICES ASSUME ClientsInv, CountsTrue, [Next]_vars PROVE CountsTrue'
    OBVIOUS
  <2>1. TypeOK
    BY DEF ClientsInv
  <2>2. /\ torn \subseteq torn'
        /\ \/ UNCHANGED <<receives, counted, strange>>
           \/ \E m \in sent, n \in Nat : Handed(m, n)
    BY HistoryEffect
  <2>3. CASE UNCHANGED <<receives, counted, strange>>
    BY <2>2, <2>3 DEF CountsTrue
  <2>4. CASE \E m \in sent, n \in Nat : Handed(m, n)
    <3>1. PICK m \in sent, n \in Nat : Handed(m, n)
      BY <2>4
    <3>2. /\ receives' = [receives EXCEPT ![m] = receives[m] + 1]
          /\ counted' = [counted EXCEPT ![m] = n]
          /\ n <= receives[m] + 1 /\ (m \notin torn => n = receives[m] + 1)
      BY <3>1 DEF Handed
    <3>3. m \in Messages
      BY <2>1, Counts
    <3> QED
      BY <2>1, <2>2, <3>2, <3>3 DEF CountsTrue, TypeOK
  <2> QED
    BY <2>2, <2>3, <2>4
<1> QED
  BY <1>1, <1>2, ClientsInvariant, PTL DEF Spec

\* No command fails with WRONGTYPE while every client uses the form the
\* application asked for.
THEOREM FormsAgree == Spec => []TypesAgree
<1>1. ClientsInv => TypesAgree
  <2> SUFFICES ASSUME ClientsInv, OneForm, NEW p \in Processes, halves[p] # {}
               PROVE  ~WrongType(p)
    BY DEF TypesAgree
  <2>1. TypeOK /\ FormsOK
    BY DEF ClientsInv
  <2>2. p \in built
    BY <2>1, LiveIsBuilt
  <2>3. (p \in usesStreams) = wantStreams /\ wantStreams \in BOOLEAN
    BY <2>1, <2>2 DEF OneForm, TypeOK
  <2>4. IF wantStreams THEN list = {} ELSE ~streamExists
    BY <2>1 DEF FormsOK
  <2> QED
    BY <2>3, <2>4 DEF WrongType
<1> QED
  BY <1>1, ClientsInvariant, PTL

\* A key that cannot be read is one of PanicKeys.
LEMMA Panicking ==
    ASSUME PlacesOK, NEW k \in list \cup processing \cup delayed,
           InternalFromList(k.text).result = "panic"
    PROVE  k.text \in PanicKeys
<1>1. Decode(k).num_receives = 0
  BY Fields DEF Decode
<1> QED
  BY <1>1 DEF PlacesOK

\* It stays where a task meets it.
LEMMA PanicKeysStay ==
    ASSUME ClientsInv, [Next]_vars
    PROVE  /\ PanicKeyIn(processing) => PanicKeyIn(processing')
           /\ PanicKeyIn(delayed) => PanicKeyIn(delayed')
<1>0. CopiesOK /\ \A k : k.text \in PanicKeys => ~Legible(k) /\ Decode(k).num_receives = 0
  BY Illegible DEF ClientsInv
<1> DEFINE Goal == /\ PanicKeyIn(processing) => PanicKeyIn(processing')
                   /\ PanicKeyIn(delayed) => PanicKeyIn(delayed')
<1>1. ASSUME \A k \in processing : k \in processing' \/ Legible(k) \/ Decode(k).num_receives > 0,
             \A k \in delayed : k \in delayed' \/ Legible(k) \/ Decode(k).num_receives > 0
      PROVE  Goal
  BY <1>0, <1>1 DEF PanicKeyIn
<1>2. ASSUME NEW p \in Processes, NEW hs, NEW dynamic \in BOOLEAN, Build(p, hs, dynamic)
      PROVE  Goal
  BY <1>1, <1>2 DEF Build, redisVars
<1>3. ASSUME NEW p \in Processes, NEW h, Drop(p, h)
      PROVE  Goal
  BY <1>1, <1>3 DEF Drop, redisVars
<1>4. ASSUME NEW p \in Processes, NEW m \in Payloads, SendRaw(p, m) \/ SendRawScheduled(p, m)
      PROVE  Goal
  BY <1>1, <1>4 DEF SendRaw, SendRawScheduled
<1>5. ASSUME NEW p \in Processes, Receive(p)
      PROVE  Goal
  BY <1>1, <1>5 DEF Receive, ReceiveEntry, ReceiveKey
<1>6. ASSUME NEW p \in Processes, Claim(p) \/ PutBack(p) \/ AddDue(p)
      PROVE  Goal
  BY <1>1, <1>6 DEF Claim, PutBack, AddDue, redisVars
<1>7. ASSUME NEW p \in Processes, RemoveRead(p)
      PROVE  Goal
  <2>1. UNCHANGED delayed /\ \A k \in processing : k \in processing' \/ Decode(k) \in copied[p]
    BY <1>7 DEF RemoveRead
  <2>2. \A c \in copied[p] : c.num_receives > 0
    BY <1>0 DEF CopiesOK, Copied
  <2> QED
    BY <1>1, <2>1, <2>2
<1>8. ASSUME NEW p \in Processes, RemoveDue(p)
      PROVE  Goal
  <2>1. UNCHANGED processing /\ \A k \in delayed : k \in delayed' \/ Decode(k) \in added[p]
    BY <1>8 DEF RemoveDue
  <2>2. \A c \in added[p] : c.num_receives > 0
    BY <1>0 DEF CopiesOK, Added
  <2> QED
    BY <1>1, <2>1, <2>2
<1>9. ASSUME NEW p \in Processes, NEW k \in delayed, FetchDue(p, k) \/ FetchDuePanics(p, k)
      PROVE  Goal
  BY <1>1, <1>9 DEF FetchDue, FetchDuePanics, redisVars
<1>10. ASSUME NEW p \in Processes, NEW task, BreakOff(p, task)
       PROVE  Goal
  BY <1>1, <1>10 DEF BreakOff, redisVars
<1>11. ASSUME Ack PROVE Goal
  BY <1>1, <1>11 DEF Ack
<1>12. ASSUME UNCHANGED vars PROVE Goal
  BY <1>1, <1>12 DEF vars, redisVars
<1> HIDE DEF Goal
<1>13. Goal
  BY <1>2, <1>3, <1>4, <1>5, <1>6, <1>7, <1>8, <1>9, <1>10, <1>11, <1>12 DEF Next, Schedule
<1> QED
  BY <1>13 DEF Goal

\* A task only ends with the last half, or at a key that cannot be read.
LEMMA TasksEffect ==
    ASSUME ClientsInv, [Next]_vars, NEW q \in Processes, halves'[q] # {}
    PROVE  \/ tasks'[q] = StartBackgroundTasks
           \/ /\ halves[q] # {}
              /\ "requeue" \in tasks[q] => "requeue" \in tasks'[q] \/ PanicKeyIn(processing)
              /\ "delayed" \in tasks[q] => "delayed" \in tasks'[q] \/ PanicKeyIn(delayed)
<1> DEFINE Goal ==
           \/ tasks'[q] = StartBackgroundTasks
           \/ /\ halves[q] # {}
              /\ "requeue" \in tasks[q] => "requeue" \in tasks'[q] \/ PanicKeyIn(processing)
              /\ "delayed" \in tasks[q] => "delayed" \in tasks'[q] \/ PanicKeyIn(delayed)
<1>0. TypeOK /\ PlacesOK
  BY DEF ClientsInv
<1>1. ASSUME UNCHANGED <<halves, tasks>> PROVE Goal
  BY <1>1
<1>2. ASSUME NEW p \in Processes, NEW hs \in (SUBSET {"producer", "consumer"}) \ {{}},
             NEW dynamic \in BOOLEAN, Build(p, hs, dynamic)
      PROVE  Goal
  <2>1. PICK ts : ts = StartBackgroundTasks
    OBVIOUS
  <2>2. tasks' = [tasks EXCEPT ![p] = ts] /\ halves' = [halves EXCEPT ![p] = hs]
    BY <1>2, <2>1 DEF Build
  <2>3. CASE q = p
    BY <1>0, <2>1, <2>2, <2>3 DEF TypeOK
  <2>4. CASE q # p
    <3>1. tasks'[q] = tasks[q] /\ halves'[q] = halves[q]
      BY <1>0, <2>2, <2>4 DEF TypeOK
    <3> QED
      BY <3>1
  <2> QED
    BY <2>3, <2>4
<1>3. ASSUME NEW p \in Processes, NEW h \in {"producer", "consumer"}, Drop(p, h)
      PROVE  Goal
  <2>1. /\ halves' = [halves EXCEPT ![p] = halves[p] \ {h}]
        /\ tasks' = [tasks EXCEPT ![p] = IF halves[p] = {h} THEN {} ELSE tasks[p]]
    BY <1>3 DEF Drop
  <2>2. tasks'[q] = tasks[q] /\ halves[q] # {}
    <3>1. CASE q = p
      <4>1. halves'[q] = halves[p] \ {h}
        BY <1>0, <2>1, <3>1 DEF TypeOK
      <4>2. halves[p] # {h} /\ halves[p] # {}
        BY <4>1
      <4> QED
        BY <1>0, <2>1, <3>1, <4>1, <4>2 DEF TypeOK
    <3>2. CASE q # p
      BY <1>0, <2>1, <3>2 DEF TypeOK
    <3> QED
      BY <3>1, <3>2
  <2> QED
    BY <2>2
<1>4. ASSUME NEW p \in Processes, NEW m \in Payloads, SendRaw(p, m) \/ SendRawScheduled(p, m)
      PROVE  Goal
  BY <1>1, <1>4 DEF SendRaw, SendRawScheduled, processVars
<1>5. ASSUME NEW p \in Processes, Receive(p)
      PROVE  Goal
  BY <1>1, <1>5 DEF Receive, ReceiveEntry, ReceiveKey, processVars
<1>6. ASSUME NEW p \in Processes, Claim(p)
      PROVE  Goal
  <2>1. /\ UNCHANGED halves
        /\ \/ UNCHANGED tasks
           \/ /\ tasks' = [tasks EXCEPT ![p] = @ \ {"requeue"}]
              /\ \E k \in processing : InternalFromList(k.text).result = "panic"
    BY <1>6 DEF Claim, ClaimEntry, ClaimKey, Dies
  <2>2. UNCHANGED tasks \/ PanicKeyIn(processing)
    BY <1>0, <2>1, Panicking DEF PanicKeyIn
  <2>3. "delayed" \in tasks[q] => "delayed" \in tasks'[q]
    BY <1>0, <2>1 DEF TypeOK
  <2> QED
    BY <2>1, <2>2, <2>3
<1>7. ASSUME NEW p \in Processes, PutBack(p) \/ RemoveRead(p) \/ AddDue(p) \/ RemoveDue(p)
      PROVE  Goal
  BY <1>1, <1>7 DEF PutBack, RemoveRead, AddDue, RemoveDue, processVars
<1>8. ASSUME NEW p \in Processes, NEW k \in delayed, FetchDue(p, k)
      PROVE  Goal
  BY <1>1, <1>8 DEF FetchDue, processVars
<1>9. ASSUME NEW p \in Processes, NEW k \in delayed, FetchDuePanics(p, k)
      PROVE  Goal
  <2>1. /\ UNCHANGED halves /\ tasks' = [tasks EXCEPT ![p] = @ \ {"delayed"}]
        /\ InternalFromList(k.text).result = "panic"
    BY <1>9 DEF FetchDuePanics, Dies
  <2>2. PanicKeyIn(delayed)
    BY <1>0, <2>1, Panicking DEF PanicKeyIn
  <2>3. "requeue" \in tasks[q] => "requeue" \in tasks'[q]
    BY <1>0, <2>1 DEF TypeOK
  <2> QED
    BY <2>1, <2>2, <2>3
<1>10. ASSUME NEW p \in Processes, NEW task, BreakOff(p, task)
       PROVE  Goal
  BY <1>1, <1>10 DEF BreakOff, processVars
<1>11. ASSUME Ack \/ UNCHANGED vars PROVE Goal
  BY <1>1, <1>11 DEF Ack, vars, processVars
<1> HIDE DEF Goal
<1>12. Goal
  BY <1>2, <1>3, <1>4, <1>5, <1>6, <1>7, <1>8, <1>9, <1>10, <1>11 DEF Next, Schedule
<1> QED
  BY <1>12 DEF Goal

\* The tasks of a process run as long as it has a half left, unless the task has
\* met a key that cannot be read.
THEOREM TasksStayLive == Spec => []TasksLive
<1>1. Init => TasksLive
  BY DEF Init, TasksLive
<1>2. ClientsInv /\ TasksLive /\ [Next]_vars => TasksLive'
  <2> SUFFICES ASSUME ClientsInv, TasksLive, [Next]_vars, NEW p \in Processes, halves'[p] # {}
               PROVE  /\ "requeue" \in tasks'[p] \/ PanicKeyIn(processing')
                      /\ "delayed" \in tasks'[p] \/ PanicKeyIn(delayed') \/ ~delayOn'
    BY DEF TasksLive, PanicKeyIn, PanicKeys
  <2>1. TypeOK /\ delayOn \in BOOLEAN
    BY DEF ClientsInv, TypeOK
  <2>2. delayOn' = delayOn
    BY <2>1, ProcessTypes
  <2>3. /\ PanicKeyIn(processing) => PanicKeyIn(processing')
        /\ PanicKeyIn(delayed) => PanicKeyIn(delayed')
    BY PanicKeysStay
  <2>4. CASE tasks'[p] = StartBackgroundTasks
    BY <2>1, <2>2, <2>4 DEF StartBackgroundTasks
  <2>5. CASE /\ halves[p] # {}
             /\ "requeue" \in tasks[p] => "requeue" \in tasks'[p] \/ PanicKeyIn(processing)
             /\ "delayed" \in tasks[p] => "delayed" \in tasks'[p] \/ PanicKeyIn(delayed)
    BY <2>2, <2>3, <2>5 DEF TasksLive
  <2> QED
    BY <2>4, <2>5, TasksEffect
<1> QED
  BY <1>1, <1>2, ClientsInvariant, PTL DEF Spec

\* A message that was sent and not received is on the main queue, in the form the
\* consumers read, or in the delayed set with somebody to move it; whatever task
\* was stopped, or whatever command of it failed, between reading and removing.
THEOREM MessagesInReach == Spec => []InReach
<1>1. ClientsInv /\ TasksLive => InReach
  <2> SUFFICES ASSUME ClientsInv, TasksLive, NEW m \in Readable, ~(receives[m] > 0), OneForm
               PROVE  \/ IF wantStreams THEN \E e \in stream : e.payload = m
                                        ELSE \E k \in list : Legible(k) /\ Decode(k).payload = m
                      \/ /\ Shelved(m)
                         /\ \/ ~delayOn \/ PanicKeyIn(delayed)
                            \/ \A p \in Processes : halves[p] # {} => "delayed" \in tasks[p]
    BY DEF InReach
  <2>1. TypeOK /\ FormsOK /\ NoneLost
    BY DEF ClientsInv
  <2>2. PICK c \in Waiting \cup Later : c.payload = m /\ c.num_receives > 0
    BY <2>1 DEF NoneLost, Kept
  <2>3. CASE c \in Later
    BY <2>2, <2>3 DEF Shelved, TasksLive
  <2>4. ASSUME NEW e \in stream, c = DecodeEntry(e)
        PROVE  wantStreams /\ e.payload = m
    BY <2>1, <2>2, <2>4, Fields DEF TypeOK, FormsOK, DecodeEntry
  <2>5. ASSUME NEW k \in list, c = Decode(k)
        PROVE  ~wantStreams /\ Legible(k)
    BY <2>1, <2>2, <2>5, Fields DEF TypeOK, FormsOK, Decode, Legible
  <2> QED
    BY <2>2, <2>3, <2>4, <2>5 DEF Waiting
<1> QED
  BY <1>1, ClientsInvariant, TasksStayLive, PTL

=============================================================================
