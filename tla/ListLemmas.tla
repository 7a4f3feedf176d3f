----------------------------- MODULE ListLemmas -----------------------------
(***************************************************************************)
(* What the operators the Redis lists are modelled with do to the members  *)
(* of a list and to their places, and the least-number principle.          *)
(***************************************************************************)
EXTENDS Integers, Sequences, SequencesExt, SequenceTheorems, WellFoundedInduction, TLAPS

-----------------------------------------------------------------------------
(* Numbers *)

\* A set of numbers has a least element.
LEMMA LeastNumber ==
    ASSUME NEW T, T \subseteq Nat, T # {}
    PROVE  /\ Min(T) \in T
           /\ \A n \in T : Min(T) <= n
<1>1. \A m, n \in Nat : n < m => <<n, m>> \in OpToRel(<, Nat)
  <2>1. ASSUME NEW m \in Nat, NEW n \in Nat, n < m
        PROVE  <<n, m>> \in {ss \in Nat \X Nat : ss[1] < ss[2]}
    BY <2>1
  <2> QED
    BY <2>1, Zenon DEF OpToRel
<1>2. \E m \in T : \A n \in T : ~(<<n, m>> \in OpToRel(<, Nat))
  BY NatLessThanWellFounded, WFMin, Zenon
<1>3. PICK m \in T : \A n \in T : ~(<<n, m>> \in OpToRel(<, Nat))
  BY <1>2
<1>4. ASSUME NEW n \in T PROVE m <= n
  <2>1. ~(n < m)
    BY <1>1, <1>3, Zenon
  <2> QED
    BY <2>1
<1> QED
  BY <1>4, Zenon DEF Min

\* The function f on D is defined by recursion: it is b[k] in the base cases Z, and
\* elsewhere a step from its value at prev[k].
Recurs(f, D, Z, b, prev, step) ==
    /\ \A k \in Z : f[k] = b[k]
    /\ \A k \in D \ Z : f[k] = step[k][f[prev[k]]]

\* If it refers to smaller numbers only, there is such a function.
LEMMA RecursionExists ==
    ASSUME NEW D \in SUBSET Nat, NEW S, NEW Z \in SUBSET D, NEW b \in [D -> S],
           NEW prev \in [D \ Z -> D], \A k \in D \ Z : prev[k] < k,
           NEW step \in [D -> [S -> S]]
    PROVE  \E f \in [D -> S] : Recurs(f, D, Z, b, prev, step)
<1> DEFINE Up(n) == {k \in D : k < n}
           Good(g, n) == \A k \in Up(n) : g[k] = IF k \in Z THEN b[k] ELSE step[k][g[prev[k]]]
           T == {n \in Nat : ~ \E g \in [Up(n) -> S] : Good(g, n)}
<1>1. \A k \in D \ Z : prev[k] \in D /\ prev[k] < k /\ prev[k] \in Nat /\ k \in Nat
  OBVIOUS
<1>2. T = {}
  <2> SUFFICES ASSUME T # {} PROVE FALSE
    OBVIOUS
  <2>1. PICK n \in Nat : n \in T /\ \A i \in T : n <= i
    BY LeastNumber
  <2>2. n # 0
    <3> SUFFICES ASSUME n = 0 PROVE FALSE
      OBVIOUS
    <3>1. \A k \in Nat : ~(k < 0)
      OBVIOUS
    <3>1a. Up(0) = {}
      BY <3>1
    <3>2. [k \in Up(0) |-> b[k]] \in [Up(0) -> S] /\ Good([k \in Up(0) |-> b[k]], 0)
      BY <3>1a
    <3> HIDE DEF Good, Up
    <3> QED
      BY <2>1, <3>2
  <2>3. n - 1 \in Nat /\ n - 1 \notin T
    <3>1. \A q \in Nat : q # 0 => q - 1 \in Nat /\ ~(q <= q - 1)
      OBVIOUS
    <3> HIDE DEF T
    <3> QED
      BY <2>1, <2>2, <3>1
  <2>4. PICK h \in [Up(n - 1) -> S] : Good(h, n - 1)
    BY <2>3
  <2> DEFINE g == [k \in Up(n) |-> IF k < n - 1 THEN h[k]
                                   ELSE IF k \in Z THEN b[k] ELSE step[k][h[prev[k]]]]
  <2>5. \A k \in Up(n) \ Z : prev[k] \in Up(n - 1) /\ prev[k] \in Up(n) /\ g[prev[k]] = h[prev[k]]
    BY <1>1, <2>3
  <2>6. g \in [Up(n) -> S]
    <3> SUFFICES ASSUME NEW k \in Up(n) PROVE g[k] \in S
      OBVIOUS
    <3>1. CASE k < n - 1
      BY <2>3, <3>1
    <3>2. CASE ~(k < n - 1)
      BY <2>5, <3>2
    <3> QED
      BY <3>1, <3>2
  <2>7. ASSUME NEW k \in Up(n) PROVE g[k] = IF k \in Z THEN b[k] ELSE step[k][g[prev[k]]]
    <3>1. CASE k < n - 1
      <4>1. k \in Up(n - 1) /\ g[k] = h[k]
        BY <3>1
      <4> QED
        BY <2>4, <2>5, <4>1
    <3>2. CASE ~(k < n - 1)
      BY <2>5, <3>2
    <3> QED
      BY <3>1, <3>2
  <2>8. Good(g, n)
    BY <2>7
  <2> HIDE DEF g
  <2> QED
    BY <2>1, <2>6, <2>8
<1>3. \A n \in Nat : \E g \in [Up(n) -> S] : Good(g, n)
  BY <1>2
<1>4. ASSUME NEW n \in Nat, NEW m \in Nat, NEW g, NEW h, Good(g, n), Good(h, m)
      PROVE  \A k \in Up(n) \cap Up(m) : g[k] = h[k]
  <2> DEFINE W == {k \in Up(n) \cap Up(m) : g[k] # h[k]}
  <2> SUFFICES ASSUME W # {} PROVE FALSE
    OBVIOUS
  <2>1. PICK k \in W : \A i \in W : k <= i
    <3>1. W \subseteq Nat
      OBVIOUS
    <3> HIDE DEF W
    <3> QED
      BY <3>1, LeastNumber
  <2>2. k \notin Z
    BY <1>4, <2>1
  <2>3. prev[k] \in Up(n) \cap Up(m) /\ prev[k] \notin W
    BY <1>1, <2>1, <2>2
  <2>4. k \in Up(n) /\ k \in Up(m) /\ g[k] # h[k] /\ g[prev[k]] = h[prev[k]]
    BY <2>1, <2>3
  <2>5. g[k] = step[k][g[prev[k]]] /\ h[k] = step[k][h[prev[k]]]
    BY <1>4, <2>2, <2>4
  <2> QED
    BY <2>4, <2>5
<1> DEFINE G(n) == CHOOSE g \in [Up(n) -> S] : Good(g, n)
           f == [k \in D |-> G(k + 1)[k]]
<1>5. \A n \in Nat : G(n) \in [Up(n) -> S] /\ Good(G(n), n)
  BY <1>3
<1>6. \A k \in D : k + 1 \in Nat /\ k \in Up(k + 1)
  OBVIOUS
<1> HIDE DEF G
<1>7. f \in [D -> S]
  <2>1. ASSUME NEW k \in D PROVE G(k + 1)[k] \in S
    <3>1. G(k + 1) \in [Up(k + 1) -> S] /\ k \in Up(k + 1)
      BY <1>5, <1>6
    <3> HIDE DEF Up
    <3> QED
      BY <3>1
  <2> QED
    BY <2>1
<1>8. ASSUME NEW k \in D PROVE f[k] = IF k \in Z THEN b[k] ELSE step[k][f[prev[k]]]
  <2>1. f[k] = G(k + 1)[k] /\ G(k + 1)[k] = IF k \in Z THEN b[k] ELSE step[k][G(k + 1)[prev[k]]]
    BY <1>5, <1>6
  <2>2. CASE k \in Z
    BY <2>1, <2>2
  <2>3. CASE k \notin Z
    <3>1. prev[k] \in D /\ prev[k] \in Up(k + 1) /\ prev[k] \in Up(prev[k] + 1) /\ prev[k] + 1 \in Nat
      BY <1>1, <1>6, <2>3
    <3>2. G(k + 1)[prev[k]] = G(prev[k] + 1)[prev[k]]
      <4>1. PICK n \in Nat : n = k + 1
        BY <1>6
      <4>2. PICK m \in Nat : m = prev[k] + 1
        BY <3>1
      <4>3. Good(G(n), n) /\ Good(G(m), m)
        BY <1>5
      <4>4. prev[k] \in Up(n) \cap Up(m)
        BY <3>1, <4>1, <4>2
      <4> HIDE DEF Good, Up
      <4> QED
        BY <1>4, <4>1, <4>2, <4>3, <4>4
    <3> QED
      BY <2>1, <2>3, <3>1, <3>2
  <2> QED
    BY <2>2, <2>3
<1>9. \A k \in Z : k \in D
  OBVIOUS
<1> HIDE DEF f
<1>10. Recurs(f, D, Z, b, prev, step)
  BY <1>8, <1>9 DEF Recurs
<1> QED
  BY <1>7, <1>10

-----------------------------------------------------------------------------
(* Members and places *)

\* A list is a function on its places.
LEMMA Places ==
    ASSUME NEW S, NEW s \in Seq(S)
    PROVE  /\ Len(s) \in Nat
           /\ DOMAIN s = 1..Len(s)
           /\ \A i \in 1..Len(s) : s[i] \in S
           /\ s = <<>> <=> Len(s) = 0
  OBVIOUS

\* ToSet in terms of places.
LEMMA Members ==
    ASSUME NEW S, NEW s \in Seq(S)
    PROVE  /\ ToSet(s) \subseteq S
           /\ \A x : x \in ToSet(s) <=> \E i \in 1..Len(s) : s[i] = x
  BY Places DEF ToSet

\* RPUSH.
LEMMA AppendPlaces ==
    ASSUME NEW S, NEW s \in Seq(S), NEW x \in S, NEW t, t = Append(s, x)
    PROVE  /\ t \in Seq(S)
           /\ Len(t) = Len(s) + 1
           /\ \A i \in 1..Len(s) : t[i] = s[i]
           /\ t[Len(s) + 1] = x
  OBVIOUS

(* RPUSH adds one element to the members of a list. *)
LEMMA AppendMembers ==
    ASSUME NEW S, NEW s \in Seq(S), NEW x \in S
    PROVE  ToSet(Append(s, x)) = ToSet(s) \cup {x}
<1> SUFFICES ASSUME NEW t, t = Append(s, x) PROVE ToSet(t) = ToSet(s) \cup {x}
  OBVIOUS
<1>1. /\ t \in Seq(S)
      /\ Len(t) = Len(s) + 1
      /\ \A i \in 1..Len(s) : t[i] = s[i]
      /\ t[Len(s) + 1] = x
  BY AppendPlaces
<1>2. 1..Len(t) = 1..Len(s) \cup {Len(s) + 1}
  BY <1>1, Places
<1> QED
  BY <1>1, <1>2, Places DEF ToSet

\* LPUSH, and the push of BRPOPLPUSH.
LEMMA ConsPlaces ==
    ASSUME NEW S, NEW s \in Seq(S), NEW x \in S, NEW t, t = <<x>> \o s
    PROVE  /\ t \in Seq(S)
           /\ Len(t) = Len(s) + 1
           /\ t[1] = x
           /\ \A i \in 1..Len(s) : t[i + 1] = s[i]
           /\ \A i \in 2..Len(s) + 1 : i - 1 \in 1..Len(s) /\ t[i] = s[i - 1]
  BY Places

(* LPUSH adds one element to the members of a list. *)
LEMMA ConsMembers ==
    ASSUME NEW S, NEW s \in Seq(S), NEW x \in S
    PROVE  ToSet(<<x>> \o s) = ToSet(s) \cup {x}
<1> SUFFICES ASSUME NEW t, t = <<x>> \o s PROVE ToSet(t) = ToSet(s) \cup {x}
  OBVIOUS
<1>1. /\ t \in Seq(S)
      /\ Len(t) = Len(s) + 1
      /\ t[1] = x
      /\ \A i \in 1..Len(s) : t[i + 1] = s[i]
      /\ \A i \in 2..Len(s) + 1 : i - 1 \in 1..Len(s) /\ t[i] = s[i - 1]
  BY ConsPlaces
<1>2. 1..Len(t) = {1} \cup 2..Len(s) + 1
  BY <1>1, Places
<1>3. \A i \in 1..Len(s) : i + 1 \in 1..Len(t)
  BY <1>1, Places
<1>4. ASSUME NEW y \in ToSet(t) PROVE y \in ToSet(s) \cup {x}
  BY <1>1, <1>2, Places DEF ToSet
<1>5. ASSUME NEW y \in ToSet(s) PROVE y \in ToSet(t)
  <2>1. PICK i \in 1..Len(s) : s[i] = y
    BY Members
  <2>2. i + 1 \in 1..Len(t) /\ t[i + 1] = y
    BY <1>1, <1>3, <2>1
  <2> QED
    BY <1>1, <2>2, Members
<1>6. x \in ToSet(t)
  BY <1>1, <1>2, Places DEF ToSet
<1> QED
  BY <1>4, <1>5, <1>6

\* The pop of BRPOPLPUSH.
LEMMA FrontPlaces ==
    ASSUME NEW S, NEW s \in Seq(S), s # <<>>, NEW t, t = Front(s)
    PROVE  /\ t \in Seq(S)
           /\ Len(s) \in Nat \ {0}
           /\ Len(t) = Len(s) - 1
           /\ \A i \in 1..Len(t) : t[i] = s[i]
           /\ Last(s) = s[Len(s)]
           /\ Last(s) \in S
<1>1. Len(s) \in Nat \ {0} /\ \A i \in 1..Len(s) : s[i] \in S
  BY Places
<1>2. \A i \in 1..Len(s) - 1 : s[i] \in S
  BY <1>1
<1>3. /\ t \in Seq(S)
      /\ Len(t) = IF 1 <= Len(s) - 1 THEN Len(s) - 1 - 1 + 1 ELSE 0
      /\ \A i \in 1..Len(s) - 1 - 1 + 1 : t[i] = s[1 + i - 1]
  <2>1. 1 \in Int /\ Len(s) - 1 \in Int
    BY <1>1
  <2> QED
    BY <1>2, <2>1, SubSeqProperties DEF Front
<1>4. Len(t) = Len(s) - 1
  <2>1. CASE Len(s) = 1
    BY <1>3, <2>1
  <2>2. CASE Len(s) > 1
    BY <1>1, <1>3, <2>2
  <2>3. \A n \in Nat \ {0} : n = 1 \/ n > 1
    OBVIOUS
  <2> QED
    BY <1>1, <2>1, <2>2, <2>3
<1>5. \A i \in 1..Len(t) : t[i] = s[i]
  <2>1. \A i \in 1..Len(t) : i \in 1..Len(s) - 1 - 1 + 1 /\ 1 + i - 1 = i
    BY <1>1, <1>4
  <2> QED
    BY <1>3, <2>1
<1>6. Last(s) = s[Len(s)] /\ Len(s) \in 1..Len(s)
  BY <1>1 DEF Last
<1> QED
  BY <1>1, <1>3, <1>4, <1>5, <1>6

(* RPOP takes at most the last element out of the members of a list. *)
LEMMA FrontMembers ==
    ASSUME NEW S, NEW s \in Seq(S), s # <<>>, NEW t, t = Front(s)
    PROVE  ToSet(s) = ToSet(t) \cup {Last(s)}
<1>1. /\ t \in Seq(S)
      /\ Len(s) \in Nat \ {0}
      /\ Len(t) = Len(s) - 1
      /\ \A i \in 1..Len(t) : t[i] = s[i]
      /\ Last(s) = s[Len(s)]
  BY FrontPlaces
<1>2. 1..Len(s) = 1..Len(t) \cup {Len(s)}
  BY <1>1
<1> QED
  BY <1>1, <1>2, Places DEF ToSet

\* The end of a list, as LRANGE reads it.
LEMMA SuffixPlaces ==
    ASSUME NEW S, NEW s \in Seq(S), NEW m \in 1..Len(s) + 1, NEW t, t = SubSeq(s, m, Len(s))
    PROVE  /\ t \in Seq(S)
           /\ Len(t) = Len(s) - m + 1
           /\ \A i \in 1..Len(t) : m + i - 1 \in 1..Len(s) /\ t[i] = s[m + i - 1]
           /\ ToSet(t) \subseteq ToSet(s)
<1>1. Len(s) \in Nat /\ m \in Nat \ {0} /\ \A i \in 1..Len(s) : s[i] \in S
  BY Places
<1>2. \A i \in m..Len(s) : s[i] \in S
  BY <1>1
<1>3. /\ t \in Seq(S)
      /\ Len(t) = IF m <= Len(s) THEN Len(s) - m + 1 ELSE 0
      /\ \A i \in 1..Len(s) - m + 1 : t[i] = s[m + i - 1]
  <2>1. m \in Int /\ Len(s) \in Int
    BY <1>1
  <2> QED
    BY <1>2, <2>1, SubSeqProperties
<1>4. Len(t) = Len(s) - m + 1
  BY <1>1, <1>3
<1>5. \A i \in 1..Len(t) : m + i - 1 \in 1..Len(s)
  BY <1>1, <1>4
<1>6. \A i \in 1..Len(t) : t[i] = s[m + i - 1]
  BY <1>3, <1>4
<1>7. ASSUME NEW x \in ToSet(t) PROVE x \in ToSet(s)
  <2>1. PICK i \in 1..Len(t) : t[i] = x
    BY <1>3, Members
  <2> QED
    BY <1>5, <1>6, <2>1, Members
<1> QED
  BY <1>3, <1>4, <1>5, <1>6, <1>7

\* What is left of a list when its first r members have been dealt with.
LEMMA RestMembers ==
    ASSUME NEW S, NEW s \in Seq(S), NEW r \in 1..Len(s)
    PROVE  /\ SubSeq(s, r + 1, Len(s)) \in Seq(S)
           /\ ToSet(SubSeq(s, r + 1, Len(s))) \subseteq ToSet(s)
           /\ ToSet(s) \subseteq {s[i] : i \in 1..r} \cup ToSet(SubSeq(s, r + 1, Len(s)))
<1> SUFFICES ASSUME NEW t, t = SubSeq(s, r + 1, Len(s))
             PROVE  /\ t \in Seq(S)
                    /\ ToSet(t) \subseteq ToSet(s)
                    /\ ToSet(s) \subseteq {s[i] : i \in 1..r} \cup ToSet(t)
  OBVIOUS
<1>1. Len(s) \in Nat /\ r \in Nat
  BY Places
<1>2. PICK m : m = r + 1
  OBVIOUS
<1>3. m \in 1..Len(s) + 1 /\ r = m - 1 /\ m \in Nat
  BY <1>1, <1>2
<1>4. t = SubSeq(s, m, Len(s))
  BY <1>2
<1>5. /\ t \in Seq(S)
      /\ Len(t) = Len(s) - m + 1
      /\ \A i \in 1..Len(t) : m + i - 1 \in 1..Len(s) /\ t[i] = s[m + i - 1]
      /\ ToSet(t) \subseteq ToSet(s)
  BY <1>3, <1>4, SuffixPlaces, Zenon
<1>6. ASSUME NEW x \in ToSet(s) PROVE x \in {s[i] : i \in 1..r} \cup ToSet(t)
  <2>1. PICK i \in 1..Len(s) : s[i] = x
    BY Members
  <2>2. CASE i \in 1..r
    BY <2>1, <2>2
  <2>3. CASE i \notin 1..r
    <3>1. i - m + 1 \in 1..Len(t) /\ m + (i - m + 1) - 1 = i
      BY <1>1, <1>3, <1>5, <2>3
    <3>2. t[i - m + 1] = x
      BY <1>5, <2>1, <3>1
    <3>3. x \in ToSet(t)
      BY <1>5, <3>1, <3>2, Members
    <3> QED
      BY <3>3
  <2> QED
    BY <2>2, <2>3
<1> QED
  BY <1>5, <1>6

\* The first of a list, and the rest.
LEMMA TailPlaces ==
    ASSUME NEW S, NEW s \in Seq(S), s # <<>>
    PROVE  /\ Tail(s) \in Seq(S)
           /\ Head(s) = s[1]
           /\ Head(s) \in ToSet(s)
           /\ Len(Tail(s)) = Len(s) - 1
           /\ \A i \in 1..Len(s) - 1 : Tail(s)[i] = s[i + 1]
           /\ ToSet(Tail(s)) \subseteq ToSet(s)
<1>1. Len(s) \in Nat \ {0} /\ 1 \in 1..Len(s)
  BY Places
<1>2. Head(s) = s[1] /\ Head(s) \in ToSet(s)
  BY <1>1, Members
<1>3. /\ Tail(s) \in Seq(S)
      /\ Len(Tail(s)) = Len(s) - 1
      /\ \A i \in 1..Len(Tail(s)) : Tail(s)[i] = s[i + 1]
  BY HeadTailProperties
<1>4. ASSUME NEW x \in ToSet(Tail(s)) PROVE x \in ToSet(s)
  <2>1. PICK i \in 1..Len(Tail(s)) : Tail(s)[i] = x
    BY <1>3, Members
  <2>2. i + 1 \in 1..Len(s) /\ s[i + 1] = x
    BY <1>1, <1>3, <2>1
  <2> QED
    BY <2>2, Members
<1> QED
  BY <1>2, <1>3, <1>4

\* LREM 1: the first of the members equal to x, at place m, goes, and those behind it
\* move up.
RemovedAt(s, m, x, t) ==
    /\ s[m] = x
    /\ \A i \in 1..m - 1 : s[i] # x
    /\ \A i \in 1..Len(t) : t[i] = IF i < m THEN s[i] ELSE s[i + 1]

\* That is what RemoveFirst does.
LEMMA RemovePlaces ==
    ASSUME NEW S, NEW s \in Seq(S), NEW x \in ToSet(s), NEW t, t = RemoveFirst(s, x)
    PROVE  /\ t \in Seq(S)
           /\ Len(s) \in Nat \ {0}
           /\ Len(t) = Len(s) - 1
           /\ \E m \in 1..Len(s) : RemovedAt(s, m, x, t)
<1> DEFINE I == {i \in 1..Len(s) : s[i] = x}
           m == Min(I)
           a == SubSeq(s, 1, m - 1)
           b == SubSeq(s, m + 1, Len(s))
<1>1. /\ I \subseteq Nat
      /\ I # {}
      /\ I \subseteq 1..Len(s)
      /\ \A i \in I : s[i] = x
      /\ \A i \in 1..Len(s) : s[i] = x => i \in I
  BY Members, Places
<1>2. Len(s) \in Nat /\ \A i \in 1..Len(s) : s[i] \in S
  BY Places
<1>3. t = a \o b
  BY <1>1 DEF RemoveFirst, RemoveAt, SelectInSeq
<1> HIDE DEF I
<1>4. m \in I /\ \A i \in I : m <= i
  BY <1>1, LeastNumber
<1> HIDE DEF m
<1>5. m \in 1..Len(s) /\ m \in Nat \ {0} /\ s[m] = x /\ \A i \in 1..m - 1 : s[i] # x
  BY <1>1, <1>2, <1>4
<1>6. /\ a \in Seq(S)
      /\ Len(a) = m - 1
      /\ \A i \in 1..m - 1 : a[i] = s[i]
  <2>1. 1 \in Int /\ m - 1 \in Int /\ \A i \in 1..m - 1 : s[i] \in S
    BY <1>2, <1>5
  <2>2. /\ a \in Seq(S)
        /\ Len(a) = IF 1 <= m - 1 THEN m - 1 - 1 + 1 ELSE 0
        /\ \A i \in 1..m - 1 - 1 + 1 : a[i] = s[1 + i - 1]
    BY <2>1, SubSeqProperties
  <2>3. \A i \in 1..m - 1 : i \in 1..m - 1 - 1 + 1 /\ 1 + i - 1 = i
    BY <1>5
  <2> HIDE DEF a
  <2> QED
    BY <1>5, <2>2, <2>3
<1>7. /\ b \in Seq(S)
      /\ Len(b) = Len(s) - m
      /\ \A i \in 1..Len(s) - m : b[i] = s[m + i]
  <2>1. m + 1 \in 1..Len(s) + 1
    BY <1>2, <1>5
  <2>2. /\ b \in Seq(S)
        /\ Len(b) = Len(s) - (m + 1) + 1
        /\ \A i \in 1..Len(b) : b[i] = s[m + 1 + i - 1]
    BY <2>1, SuffixPlaces
  <2>3. Len(b) = Len(s) - m /\ \A i \in 1..Len(b) : m + 1 + i - 1 = m + i
    BY <1>2, <1>5, <2>2
  <2> HIDE DEF b
  <2> QED
    BY <2>2, <2>3
<1> HIDE DEF a, b
<1>8. /\ t \in Seq(S)
      /\ Len(t) = Len(a) + Len(b)
      /\ \A i \in 1..Len(a) + Len(b) : t[i] = IF i <= Len(a) THEN a[i] ELSE b[i - Len(a)]
  <2>1. a \in Seq(S) /\ b \in Seq(S) /\ t = a \o b
    BY <1>3, <1>6, <1>7
  <2> QED
    BY <2>1, ConcatProperties
<1>9. Len(t) = Len(s) - 1
  BY <1>2, <1>5, <1>6, <1>7, <1>8
<1>10. ASSUME NEW i \in 1..Len(t) PROVE t[i] = IF i < m THEN s[i] ELSE s[i + 1]
  <2>1. i \in Nat /\ t[i] = IF i <= Len(a) THEN a[i] ELSE b[i - Len(a)]
    BY <1>8
  <2>2. CASE i < m
    <3>1. i <= Len(a) /\ i \in 1..m - 1
      BY <1>5, <1>6, <2>1, <2>2
    <3> QED
      BY <1>6, <2>1, <2>2, <3>1
  <2>3. CASE ~(i < m)
    <3>1. ~(i <= Len(a)) /\ i - Len(a) \in 1..Len(s) - m /\ m + (i - Len(a)) = i + 1
      BY <1>2, <1>5, <1>6, <1>9, <2>1, <2>3
    <3> QED
      BY <1>7, <2>1, <2>3, <3>1
  <2> QED
    BY <2>2, <2>3
<1>11. Len(s) \in Nat \ {0}
  BY <1>2, <1>5
<1> HIDE DEF m
<1>12. RemovedAt(s, m, x, t)
  BY <1>5, <1>10 DEF RemovedAt
<1> QED
  BY <1>5, <1>8, <1>9, <1>11, <1>12

\* LREM of what is not on the list changes nothing.
LEMMA RemoveAbsent ==
    ASSUME NEW S, NEW s \in Seq(S), NEW x, x \notin ToSet(s)
    PROVE  RemoveFirst(s, x) = s
  BY Members DEF RemoveFirst

(* LREM takes at most the removed element out of the members of a list. *)
LEMMA RemoveMembers ==
    ASSUME NEW S, NEW s \in Seq(S), NEW x, NEW t, t = RemoveFirst(s, x)
    PROVE  /\ t \in Seq(S)
           /\ ToSet(t) \subseteq ToSet(s)
           /\ ToSet(s) \subseteq ToSet(t) \cup {x}
<1>1. CASE x \notin ToSet(s)
  BY <1>1, RemoveAbsent
<1>2. CASE x \in ToSet(s)
  <2>1. /\ t \in Seq(S)
        /\ Len(s) \in Nat \ {0}
        /\ Len(t) = Len(s) - 1
    BY <1>2, RemovePlaces
  <2>a. PICK m \in 1..Len(s) : RemovedAt(s, m, x, t)
    BY <1>2, RemovePlaces
  <2>2. /\ s[m] = x
        /\ \A i \in 1..Len(t) : t[i] = IF i < m THEN s[i] ELSE s[i + 1]
    BY <2>a DEF RemovedAt
  <2>3. ASSUME NEW y \in ToSet(t) PROVE y \in ToSet(s)
    <3>1. PICK i \in 1..Len(t) : t[i] = y
      BY <2>1, Members
    <3>2. i \in 1..Len(s) /\ i + 1 \in 1..Len(s)
      BY <2>1
    <3> QED
      BY <2>2, <3>1, <3>2, Members
  <2>4. ASSUME NEW y \in ToSet(s), y # x PROVE y \in ToSet(t)
    <3>1. PICK i \in 1..Len(s) : s[i] = y
      BY Members
    <3>2. CASE i < m
      <4>1. i \in 1..Len(t) /\ t[i] = y
        BY <2>1, <2>2, <3>1, <3>2
      <4> QED
        BY <2>1, <4>1, Members
    <3>3. CASE i > m
      <4>1. i - 1 \in 1..Len(t) /\ ~(i - 1 < m) /\ i - 1 + 1 = i
        BY <2>1, <3>3
      <4>2. t[i - 1] = y
        BY <2>2, <3>1, <4>1
      <4> QED
        BY <2>1, <4>1, <4>2, Members
    <3>4. i # m
      BY <2>2, <2>4, <3>1
    <3> QED
      BY <2>1, <3>2, <3>3, <3>4
  <2> QED
    BY <2>1, <2>3, <2>4
<1> QED
  BY <1>1, <1>2

=============================================================================
