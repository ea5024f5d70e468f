---------------------------- MODULE Lists_proofs ----------------------------
(***************************************************************************)
(* Induction over numbers and lists, and what Kept and FlattenSeq return.  *)
(* The induction theorems of the library take operators, which the provers *)
(* cannot instantiate: these take the set of what has the property.        *)
(***************************************************************************)
EXTENDS Lists, SequencesExt, WellFoundedInduction, TLAPS

-----------------------------------------------------------------------------
(* Induction *)

LEMMA Least ==
  ASSUME NEW T, T \subseteq Nat, T # {}
  PROVE  \E x \in T : \A y \in T : x <= y
<1>1. \E x \in T : \A y \in T : ~ (<<y, x>> \in OpToRel(<, Nat))
  BY NatLessThanWellFounded, WFMin
<1>2. \E x \in T : \A y \in T : ~ (y < x)
  BY <1>1 DEF OpToRel
<1>3. QED
  BY <1>2

LEMMA CountUp ==
  ASSUME NEW T, 0 \in T, \A n \in Nat : n \in T => n + 1 \in T
  PROVE  Nat \subseteq T
<1> SUFFICES ASSUME Nat \ T # {} PROVE FALSE
  OBVIOUS
<1>1. PICK x \in Nat \ T : \A y \in Nat \ T : x <= y
  BY Least
<1>2. x # 0 /\ x - 1 \in Nat /\ x - 1 \in T
  BY <1>1
<1>3. QED
  BY <1>1, <1>2

LEMMA ConcatAppend ==
  ASSUME NEW S, NEW s \in Seq(S), NEW t \in Seq(S), NEW e \in S
  PROVE  s \o Append(t, e) = Append(s \o t, e)
OBVIOUS

\* A list is empty or some list with one more entry.
LEMMA Unfolded ==
  ASSUME NEW S, NEW s \in Seq(S), s # <<>>
  PROVE  \E t \in Seq(S), e \in S : s = Append(t, e) /\ Len(s) = Len(t) + 1
<1> DEFINE t == [k \in 1 .. Len(s) - 1 |-> s[k]]
<1>1. Len(s) \in Nat /\ Len(s) # 0 /\ s[Len(s)] \in S
  OBVIOUS
<1>2. t \in Seq(S) /\ Len(t) = Len(s) - 1 /\ \A k \in 1 .. Len(t) : t[k] = s[k]
  BY <1>1
<1> HIDE DEF t
<1>3. s = Append(t, s[Len(s)])
  BY <1>1, <1>2
<1>4. QED
  BY <1>1, <1>2, <1>3

LEMMA AppendInduction ==
  ASSUME NEW S, NEW T, <<>> \in T,
         \A s \in Seq(S), e \in S : s \in T => Append(s, e) \in T
  PROVE  Seq(S) \subseteq T
<1> DEFINE N == {n \in Nat : \A s \in Seq(S) : Len(s) = n => s \in T}
<1>1. 0 \in N
  <2>1. \A s \in Seq(S) : Len(s) = 0 => s = <<>>
    OBVIOUS
  <2>2. QED
    BY <2>1
<1>2. ASSUME NEW n \in Nat, n \in N PROVE n + 1 \in N
  <2>1. SUFFICES ASSUME NEW s \in Seq(S), Len(s) = n + 1 PROVE s \in T
    OBVIOUS
  <2>2. PICK t \in Seq(S), e \in S : s = Append(t, e) /\ Len(s) = Len(t) + 1
    <3>1. s # <<>>
      BY <2>1, <1>2
    <3>2. QED
      BY <3>1, Unfolded
  <2>3. Len(t) = n
    BY <2>1, <2>2, <1>2
  <2>4. QED
    BY <1>2, <2>2, <2>3
<1>3. Nat \subseteq N
  BY <1>1, <1>2, CountUp
<1>4. SUFFICES ASSUME NEW s \in Seq(S) PROVE s \in T
  OBVIOUS
<1>5. Len(s) \in N
  BY <1>3
<1>6. QED
  BY <1>5

-----------------------------------------------------------------------------
(* Kept *)

\* g is the table that Kept computes, up to position n.
IsKept(g, s, K, n) ==
  g = [i \in 0 .. n |-> IF i = 0 THEN <<>>
                        ELSE IF i \in K THEN Append(g[i - 1], s[i]) ELSE g[i - 1]]

LEMMA KeptTable ==
  ASSUME NEW s, NEW K, NEW n \in Nat
  PROVE  \E g : IsKept(g, s, K, n)
<1> DEFINE N == {m \in Nat : \E g : IsKept(g, s, K, m)}
<1>1. 0 \in N
  <2>1. IsKept([i \in 0 .. 0 |-> <<>>], s, K, 0)
    BY DEF IsKept
  <2>2. QED
    BY <2>1
<1>2. ASSUME NEW m \in Nat, m \in N PROVE m + 1 \in N
  <2>1. PICK g : IsKept(g, s, K, m)
    BY <1>2
  <2> DEFINE last == IF m + 1 \in K THEN Append(g[m], s[m + 1]) ELSE g[m]
             h    == [i \in 0 .. m + 1 |-> IF i = m + 1 THEN last ELSE g[i]]
  <2>2. \A i \in 0 .. m + 1 : h[i] = IF i = 0 THEN <<>>
                                     ELSE IF i \in K THEN Append(h[i - 1], s[i]) ELSE h[i - 1]
    <3> SUFFICES ASSUME NEW i \in 0 .. m + 1
                 PROVE  h[i] = IF i = 0 THEN <<>>
                               ELSE IF i \in K THEN Append(h[i - 1], s[i]) ELSE h[i - 1]
      OBVIOUS
    <3>1. CASE i = m + 1
      <4>1. h[i] = last /\ h[i - 1] = g[m] /\ i # 0 /\ i - 1 = m
        BY <3>1, <1>2
      <4> HIDE DEF h
      <4>2. QED
        BY <3>1, <4>1
    <3>2. CASE i # m + 1
      <4>1. h[i] = g[i] /\ i \in 0 .. m /\ (i # 0 => i - 1 \in 0 .. m /\ h[i - 1] = g[i - 1])
        BY <3>2, <1>2
      <4> HIDE DEF h
      <4>2. g[i] = IF i = 0 THEN <<>>
                   ELSE IF i \in K THEN Append(g[i - 1], s[i]) ELSE g[i - 1]
        BY <2>1, <4>1 DEF IsKept
      <4>3. QED
        BY <4>1, <4>2
    <3>3. QED
      BY <3>1, <3>2
  <2>3. h = [i \in 0 .. m + 1 |-> h[i]]
    OBVIOUS
  <2> HIDE DEF h
  <2>4. IsKept(h, s, K, m + 1)
    BY <2>2, <2>3 DEF IsKept
  <2>5. QED
    BY <2>4
<1>3. QED
  BY <1>1, <1>2, CountUp

LEMMA KeptEntry ==
  ASSUME NEW g, NEW s, NEW K, NEW n \in Nat, IsKept(g, s, K, n)
  PROVE  /\ g[0] = <<>>
         /\ \A i \in 0 .. n - 1 : g[i + 1] = IF i + 1 \in K THEN Append(g[i], s[i + 1]) ELSE g[i]
<1>1. g[0] = <<>>
  BY DEF IsKept
<1>2. ASSUME NEW i \in 0 .. n - 1
      PROVE  g[i + 1] = IF i + 1 \in K THEN Append(g[i], s[i + 1]) ELSE g[i]
  <2>1. PICK j \in 0 .. n : j = i + 1
    OBVIOUS
  <2>2. j # 0 /\ j - 1 = i
    BY <2>1
  <2>3. g[j] = IF j \in K THEN Append(g[j - 1], s[j]) ELSE g[j - 1]
    BY <2>2 DEF IsKept
  <2>4. QED
    BY <2>1, <2>2, <2>3
<1>3. QED
  BY <1>1, <1>2

LEMMA KeptIs ==
  ASSUME NEW s, NEW K, Len(s) \in Nat
  PROVE  \E g : IsKept(g, s, K, Len(s)) /\ Kept(s, K) = g[Len(s)]
<1> DEFINE kept[i \in 0 .. Len(s)] ==
             IF i = 0 THEN <<>>
             ELSE IF i \in K THEN Append(kept[i - 1], s[i]) ELSE kept[i - 1]
<1>1. Kept(s, K) = kept[Len(s)]
  BY DEF Kept
<1>2. \E g : IsKept(g, s, K, Len(s))
  BY KeptTable
<1>3. IsKept(kept, s, K, Len(s))
  BY <1>2 DEF IsKept
<1>4. QED
  BY <1>1, <1>3

LEMMA KeptEmpty ==
  ASSUME NEW K
  PROVE  Kept(<<>>, K) = <<>>
<1>1. Len(<<>>) = 0
  OBVIOUS
<1>2. PICK g : IsKept(g, <<>>, K, 0) /\ Kept(<<>>, K) = g[0]
  BY <1>1, KeptIs
<1>3. QED
  BY <1>2 DEF IsKept

LEMMA KeptAppend ==
  ASSUME NEW S, NEW s \in Seq(S), NEW e \in S, NEW K
  PROVE  Kept(Append(s, e), K) = IF Len(s) + 1 \in K THEN Append(Kept(s, K), e) ELSE Kept(s, K)
<1> DEFINE t == Append(s, e)
           n == Len(s)
<1>1. /\ n \in Nat /\ Len(t) = n + 1 /\ Len(t) \in Nat
      /\ t[n + 1] = e /\ \A k \in 1 .. n : t[k] = s[k]
  OBVIOUS
<1>2. PICK g : IsKept(g, s, K, n) /\ Kept(s, K) = g[n]
  BY <1>1, KeptIs
<1>3. PICK h : IsKept(h, t, K, n + 1) /\ Kept(t, K) = h[n + 1]
  BY <1>1, KeptIs
<1> HIDE DEF t, n
<1> DEFINE N == {m \in Nat : m <= n => h[m] = g[m]}
<1>4. 0 \in N
  <2>1. n + 1 \in Nat
    BY <1>1
  <2>2. h[0] = <<>> /\ g[0] = <<>>
    BY <1>1, <1>2, <1>3, <2>1, KeptEntry
  <2>3. QED
    BY <2>2
<1>5. ASSUME NEW m \in Nat, m \in N, m + 1 <= n PROVE h[m + 1] = g[m + 1]
  <2>1. m \in 0 .. n - 1 /\ m \in 0 .. (n + 1) - 1 /\ n + 1 \in Nat
    BY <1>5, <1>1
  <2>2. h[m] = g[m] /\ t[m + 1] = s[m + 1]
    BY <1>1, <1>5
  <2>3. g[m + 1] = IF m + 1 \in K THEN Append(g[m], s[m + 1]) ELSE g[m]
    BY <1>1, <1>2, <2>1, KeptEntry
  <2>4. h[m + 1] = IF m + 1 \in K THEN Append(h[m], t[m + 1]) ELSE h[m]
    BY <1>3, <2>1, KeptEntry
  <2>5. QED
    BY <2>2, <2>3, <2>4
<1>6. n \in N
  <2>1. \A m \in Nat : m \in N => m + 1 \in N
    BY <1>5
  <2>2. Nat \subseteq N
    BY <1>4, <2>1, CountUp
  <2>3. QED
    BY <1>1, <2>2
<1>7. n \in 0 .. (n + 1) - 1 /\ n + 1 \in Nat
  BY <1>1
<1>8. h[n + 1] = IF n + 1 \in K THEN Append(h[n], t[n + 1]) ELSE h[n]
  BY <1>3, <1>7, KeptEntry
<1>9. Kept(t, K) = IF n + 1 \in K THEN Append(Kept(s, K), e) ELSE Kept(s, K)
  BY <1>1, <1>2, <1>3, <1>6, <1>8
<1>10. QED
  BY <1>9 DEF t, n

\* What Kept returns is made of the entries at the positions in K.
LEMMA KeptType ==
  ASSUME NEW S, NEW s \in Seq(S), NEW K, NEW R, \A k \in DOMAIN s : k \in K => s[k] \in R
  PROVE  Kept(s, K) \in Seq(R)
<1> DEFINE T == {t \in Seq(S) : (\A k \in DOMAIN t : k \in K => t[k] \in R) => Kept(t, K) \in Seq(R)}
<1>1. <<>> \in T
  <2>1. <<>> \in Seq(S) /\ <<>> \in Seq(R) /\ Kept(<<>>, K) = <<>>
    BY KeptEmpty
  <2>2. QED
    BY <2>1
<1>2. ASSUME NEW t \in Seq(S), NEW e \in S, t \in T PROVE Append(t, e) \in T
  <2>0. Append(t, e) \in Seq(S)
    OBVIOUS
  <2>1. SUFFICES ASSUME \A k \in DOMAIN Append(t, e) : k \in K => Append(t, e)[k] \in R
                 PROVE  Kept(Append(t, e), K) \in Seq(R)
    BY <2>0
  <2>2. \A k \in DOMAIN t : k \in DOMAIN Append(t, e) /\ Append(t, e)[k] = t[k]
    OBVIOUS
  <2>3. Len(t) + 1 \in DOMAIN Append(t, e) /\ Append(t, e)[Len(t) + 1] = e
    OBVIOUS
  <2>4. Kept(t, K) \in Seq(R)
    BY <1>2, <2>1, <2>2
  <2>5. Len(t) + 1 \in K => e \in R
    BY <2>1, <2>3
  <2>6. QED
    BY <2>4, <2>5, KeptAppend
<1>3. QED
  BY <1>1, <1>2, AppendInduction

\* Only the positions of s matter.
LEMMA KeptSame ==
  ASSUME NEW S, NEW s \in Seq(S), NEW K, NEW L, \A k \in DOMAIN s : k \in K <=> k \in L
  PROVE  Kept(s, K) = Kept(s, L)
<1> DEFINE T == {t \in Seq(S) : (\A k \in DOMAIN t : k \in K <=> k \in L) => Kept(t, K) = Kept(t, L)}
<1>1. <<>> \in T
  <2>1. <<>> \in Seq(S) /\ Kept(<<>>, K) = Kept(<<>>, L)
    BY KeptEmpty
  <2>2. QED
    BY <2>1
<1>2. ASSUME NEW t \in Seq(S), NEW e \in S, t \in T PROVE Append(t, e) \in T
  <2>1. /\ Append(t, e) \in Seq(S) /\ Len(t) + 1 \in DOMAIN Append(t, e)
        /\ \A k \in DOMAIN t : k \in DOMAIN Append(t, e)
    OBVIOUS
  <2>2. SUFFICES ASSUME \A k \in DOMAIN Append(t, e) : k \in K <=> k \in L
                 PROVE  Kept(Append(t, e), K) = Kept(Append(t, e), L)
    BY <2>1
  <2>3. Kept(t, K) = Kept(t, L)
    BY <1>2, <2>1, <2>2
  <2>4. Len(t) + 1 \in K <=> Len(t) + 1 \in L
    BY <2>1, <2>2
  <2>5. /\ Kept(Append(t, e), K) = IF Len(t) + 1 \in K THEN Append(Kept(t, K), e) ELSE Kept(t, K)
        /\ Kept(Append(t, e), L) = IF Len(t) + 1 \in L THEN Append(Kept(t, L), e) ELSE Kept(t, L)
    BY KeptAppend
  <2>6. QED
    BY <2>3, <2>4, <2>5
<1>3. Seq(S) \subseteq T
  BY <1>1, <1>2, AppendInduction
<1>4. QED
  BY <1>3

\* Where every position is kept the list stays as it is.
LEMMA KeptAll ==
  ASSUME NEW S, NEW s \in Seq(S), NEW K, DOMAIN s \subseteq K
  PROVE  Kept(s, K) = s
<1> DEFINE T == {t \in Seq(S) : DOMAIN t \subseteq K => Kept(t, K) = t}
<1>1. <<>> \in T
  <2>1. <<>> \in Seq(S) /\ Kept(<<>>, K) = <<>>
    BY KeptEmpty
  <2>2. QED
    BY <2>1
<1>2. ASSUME NEW t \in Seq(S), NEW e \in S, t \in T PROVE Append(t, e) \in T
  <2>1. /\ Append(t, e) \in Seq(S) /\ Len(t) + 1 \in DOMAIN Append(t, e)
        /\ \A k \in DOMAIN t : k \in DOMAIN Append(t, e)
    OBVIOUS
  <2>2. SUFFICES ASSUME DOMAIN Append(t, e) \subseteq K
                 PROVE  Kept(Append(t, e), K) = Append(t, e)
    BY <2>1
  <2>3. Kept(t, K) = t /\ Len(t) + 1 \in K
    BY <1>2, <2>1, <2>2
  <2>4. QED
    BY <2>3, KeptAppend
<1>3. Seq(S) \subseteq T
  BY <1>1, <1>2, AppendInduction
<1>4. QED
  BY <1>3

\* Where no position is kept nothing is left.
LEMMA KeptNone ==
  ASSUME NEW S, NEW s \in Seq(S), NEW K, \A k \in DOMAIN s : k \notin K
  PROVE  Kept(s, K) = <<>>
<1>1. Kept(s, K) \in Seq({})
  BY KeptType
<1>2. QED
  BY <1>1

LEMMA KeptConcat ==
  ASSUME NEW S, NEW s \in Seq(S), NEW t \in Seq(S), NEW K, NEW L, NEW M,
         \A k \in DOMAIN s : k \in K <=> k \in L,
         \A k \in DOMAIN t : Len(s) + k \in K <=> k \in M
  PROVE  Kept(s \o t, K) = Kept(s, L) \o Kept(t, M)
<1> DEFINE T == {u \in Seq(S) : (\A k \in DOMAIN u : Len(s) + k \in K <=> k \in M) =>
                                  Kept(s \o u, K) = Kept(s, L) \o Kept(u, M)}
<1>0. Kept(s, L) \in Seq(S)
  <2>1. \A k \in DOMAIN s : s[k] \in S
    OBVIOUS
  <2>2. QED
    BY <2>1, KeptType
<1>1. <<>> \in T
  <2>1. <<>> \in Seq(S) /\ Kept(<<>>, M) = <<>> /\ s \o <<>> = s
    BY KeptEmpty
  <2>2. Kept(s, K) = Kept(s, L)
    BY KeptSame
  <2>3. Kept(s, L) \o <<>> = Kept(s, L)
    BY <1>0
  <2>4. QED
    BY <2>1, <2>2, <2>3
<1>2. ASSUME NEW u \in Seq(S), NEW e \in S, u \in T PROVE Append(u, e) \in T
  <2>1. /\ Append(u, e) \in Seq(S) /\ Len(u) + 1 \in DOMAIN Append(u, e)
        /\ \A k \in DOMAIN u : k \in DOMAIN Append(u, e)
    OBVIOUS
  <2>2. SUFFICES ASSUME \A k \in DOMAIN Append(u, e) : Len(s) + k \in K <=> k \in M
                 PROVE  Kept(s \o Append(u, e), K) = Kept(s, L) \o Kept(Append(u, e), M)
    BY <2>1
  <2>3. Kept(s \o u, K) = Kept(s, L) \o Kept(u, M)
    BY <1>2, <2>1, <2>2
  <2>4. /\ s \o u \in Seq(S) /\ Len(s \o u) + 1 = Len(s) + (Len(u) + 1)
        /\ s \o Append(u, e) = Append(s \o u, e)
    BY ConcatAppend
  <2>5. Kept(s \o Append(u, e), K) = IF Len(s) + (Len(u) + 1) \in K
                                       THEN Append(Kept(s \o u, K), e) ELSE Kept(s \o u, K)
    <3> DEFINE w == s \o u
    <3>1. w \in Seq(S)
      BY <2>4
    <3> HIDE DEF w
    <3>2. Kept(Append(w, e), K) = IF Len(w) + 1 \in K THEN Append(Kept(w, K), e) ELSE Kept(w, K)
      BY <3>1, KeptAppend
    <3>3. QED
      BY <2>4, <3>2 DEF w
  <2>6. Kept(u, M) \in Seq(S)
    <3>1. \A k \in DOMAIN u : u[k] \in S
      OBVIOUS
    <3>2. QED
      BY <3>1, KeptType
  <2>7. Append(Kept(s, L) \o Kept(u, M), e) = Kept(s, L) \o Append(Kept(u, M), e)
    <3> DEFINE a == Kept(s, L)
               b == Kept(u, M)
    <3>1. a \in Seq(S) /\ b \in Seq(S)
      BY <1>0, <2>6
    <3> HIDE DEF a, b
    <3>2. a \o Append(b, e) = Append(a \o b, e)
      BY ONLY <3>1, e \in S, ConcatAppend
    <3>3. QED
      BY <3>2 DEF a, b
  <2>8. Kept(Append(u, e), M) = IF Len(u) + 1 \in M THEN Append(Kept(u, M), e) ELSE Kept(u, M)
    BY KeptAppend
  <2>9. Len(s) + (Len(u) + 1) \in K <=> Len(u) + 1 \in M
    BY <2>1, <2>2
  <2>10. QED
    BY <2>3, <2>5, <2>7, <2>8, <2>9
<1>3. Seq(S) \subseteq T
  BY <1>1, <1>2, AppendInduction
<1>4. QED
  BY <1>3

\* Every entry of the result is an entry of s that was kept, and the other way round.
LEMMA KeptFrom ==
  ASSUME NEW S, NEW s \in Seq(S), NEW K, NEW p \in DOMAIN Kept(s, K)
  PROVE  \E k \in DOMAIN s : k \in K /\ Kept(s, K)[p] = s[k]
<1> DEFINE R == {s[k] : k \in DOMAIN s \cap K}
<1>1. Kept(s, K) \in Seq(R)
  BY KeptType
<1>2. Kept(s, K)[p] \in R
  BY <1>1
<1>3. QED
  BY <1>2

LEMMA KeptHas ==
  ASSUME NEW S, NEW s \in Seq(S), NEW K, NEW k \in DOMAIN s, k \in K
  PROVE  \E p \in DOMAIN Kept(s, K) : Kept(s, K)[p] = s[k]
<1> DEFINE T == {t \in Seq(S) : \A j \in DOMAIN t : j \in K =>
                                  \E p \in DOMAIN Kept(t, K) : Kept(t, K)[p] = t[j]}
<1>1. <<>> \in T
  OBVIOUS
<1>2. ASSUME NEW t \in Seq(S), NEW e \in S, t \in T PROVE Append(t, e) \in T
  <2>1. Append(t, e) \in Seq(S)
    OBVIOUS
  <2>2. SUFFICES ASSUME NEW j \in DOMAIN Append(t, e), j \in K
                 PROVE  \E p \in DOMAIN Kept(Append(t, e), K) : Kept(Append(t, e), K)[p] = Append(t, e)[j]
    BY <2>1
  <2>3. Kept(t, K) \in Seq(S)
    <3>1. \A i \in DOMAIN t : t[i] \in S
      OBVIOUS
    <3>2. QED
      BY <3>1, KeptType
  <2>4. Kept(Append(t, e), K) = IF Len(t) + 1 \in K THEN Append(Kept(t, K), e) ELSE Kept(t, K)
    BY KeptAppend
  <2>5. CASE j = Len(t) + 1
    <3>1. Kept(Append(t, e), K) = Append(Kept(t, K), e) /\ Append(t, e)[j] = e
      BY <2>2, <2>4, <2>5
    <3>2. QED
      BY <2>3, <3>1
  <2>6. CASE j # Len(t) + 1
    <3>1. j \in DOMAIN t /\ Append(t, e)[j] = t[j]
      BY <2>2, <2>6
    <3>2. PICK p \in DOMAIN Kept(t, K) : Kept(t, K)[p] = t[j]
      BY <1>2, <2>2, <3>1
    <3>3. p \in DOMAIN Append(Kept(t, K), e) /\ Append(Kept(t, K), e)[p] = t[j]
      BY <2>3, <3>2
    <3>4. QED
      BY <2>4, <3>1, <3>2, <3>3
  <2>7. QED
    BY <2>5, <2>6
<1>3. Seq(S) \subseteq T
  BY <1>1, <1>2, AppendInduction
<1>4. QED
  BY <1>3

\* What is in V occurs in s once at the most.
OnceIn(V, s) == \A p, q \in DOMAIN s : s[p] \in V /\ s[q] \in V => p = q

LEMMA OnceAppend ==
  ASSUME NEW S, NEW s \in Seq(S), NEW e \in S, NEW V
  PROVE  OnceIn(V, Append(s, e)) <=>
           OnceIn(V, s) /\ (e \in V => \A p \in DOMAIN s : s[p] \notin V)
<1>1. /\ DOMAIN Append(s, e) = DOMAIN s \cup {Len(s) + 1} /\ Len(s) + 1 \notin DOMAIN s
      /\ Append(s, e)[Len(s) + 1] = e /\ \A p \in DOMAIN s : Append(s, e)[p] = s[p]
  OBVIOUS
<1>2. QED
  BY <1>1 DEF OnceIn

LEMMA KeptOnce ==
  ASSUME NEW S, NEW s \in Seq(S), NEW K, NEW V, OnceIn(V, s)
  PROVE  OnceIn(V, Kept(s, K))
<1> DEFINE T == {t \in Seq(S) : OnceIn(V, t) => OnceIn(V, Kept(t, K))}
<1>1. <<>> \in T
  <2>1. <<>> \in Seq(S) /\ Kept(<<>>, K) = <<>>
    BY KeptEmpty
  <2>2. QED
    BY <2>1
<1>2. ASSUME NEW t \in Seq(S), NEW e \in S, t \in T PROVE Append(t, e) \in T
  <2>1. Append(t, e) \in Seq(S)
    OBVIOUS
  <2>2. SUFFICES ASSUME OnceIn(V, Append(t, e)) PROVE OnceIn(V, Kept(Append(t, e), K))
    BY <2>1
  <2>3. OnceIn(V, t) /\ (e \in V => \A p \in DOMAIN t : t[p] \notin V)
    BY <2>2, OnceAppend
  <2>4. OnceIn(V, Kept(t, K))
    BY <1>2, <2>3
  <2>5. Kept(t, K) \in Seq(S)
    <3>1. \A i \in DOMAIN t : t[i] \in S
      OBVIOUS
    <3>2. QED
      BY <3>1, KeptType
  <2>6. e \in V => \A p \in DOMAIN Kept(t, K) : Kept(t, K)[p] \notin V
    BY <2>3, KeptFrom
  <2>7. OnceIn(V, Append(Kept(t, K), e))
    BY <2>4, <2>5, <2>6, OnceAppend
  <2>8. Kept(Append(t, e), K) = IF Len(t) + 1 \in K THEN Append(Kept(t, K), e) ELSE Kept(t, K)
    BY KeptAppend
  <2>9. QED
    BY <2>4, <2>7, <2>8
<1>3. Seq(S) \subseteq T
  BY <1>1, <1>2, AppendInduction
<1>4. QED
  BY <1>3

-----------------------------------------------------------------------------
(* FlattenSeq *)

\* g is the table that FlattenSeq computes, up to position n.
IsFlat(g, ss, n) ==
  g = [i \in 1 .. n |-> IF i = 1 THEN ss[i] ELSE g[i - 1] \o ss[i]]

LEMMA FlatTable ==
  ASSUME NEW ss, NEW n \in Nat \ {0}
  PROVE  \E g : IsFlat(g, ss, n)
<1> DEFINE N == {m \in Nat : m # 0 => \E g : IsFlat(g, ss, m)}
<1>1. 0 \in N
  OBVIOUS
<1>2. ASSUME NEW m \in Nat, m \in N PROVE m + 1 \in N
  <2>1. CASE m = 0
    <3>1. IsFlat([i \in 1 .. 1 |-> ss[1]], ss, 1)
      BY DEF IsFlat
    <3>2. QED
      BY <2>1, <3>1
  <2>2. CASE m # 0
    <3>1. PICK g : IsFlat(g, ss, m)
      BY <1>2, <2>2
    <3> DEFINE h == [i \in 1 .. m + 1 |-> IF i = m + 1 THEN g[m] \o ss[m + 1] ELSE g[i]]
    <3>2. \A i \in 1 .. m + 1 : h[i] = IF i = 1 THEN ss[i] ELSE h[i - 1] \o ss[i]
      <4> SUFFICES ASSUME NEW i \in 1 .. m + 1
                   PROVE  h[i] = IF i = 1 THEN ss[i] ELSE h[i - 1] \o ss[i]
        OBVIOUS
      <4>1. CASE i = m + 1
        <5>1. i # 1 /\ i - 1 \in 1 .. m + 1 /\ i - 1 # m + 1 /\ i - 1 = m
          BY <1>2, <2>2, <4>1
        <5>2. h[i] = g[m] \o ss[m + 1] /\ h[i - 1] = g[m]
          BY <4>1, <5>1
        <5> HIDE DEF h
        <5>3. QED
          BY <4>1, <5>1, <5>2
      <4>2. CASE i # m + 1
        <5>1. h[i] = g[i] /\ i \in 1 .. m /\ (i # 1 => i - 1 \in 1 .. m /\ h[i - 1] = g[i - 1])
          BY <1>2, <2>2, <4>2
        <5> HIDE DEF h
        <5>2. g[i] = IF i = 1 THEN ss[i] ELSE g[i - 1] \o ss[i]
          BY <3>1, <5>1 DEF IsFlat
        <5>3. QED
          BY <5>1, <5>2
      <4>3. QED
        BY <4>1, <4>2
    <3>3. h = [i \in 1 .. m + 1 |-> h[i]]
      OBVIOUS
    <3> HIDE DEF h
    <3>4. IsFlat(h, ss, m + 1)
      BY <3>2, <3>3 DEF IsFlat
    <3>5. QED
      BY <3>4
  <2>3. QED
    BY <2>1, <2>2
<1>3. n \in N
  <2>1. \A m \in Nat : m \in N => m + 1 \in N
    BY <1>2
  <2>2. Nat \subseteq N
    BY <1>1, <2>1, CountUp
  <2>3. QED
    BY <2>2
<1>4. QED
  BY <1>3

LEMMA FlatEntry ==
  ASSUME NEW g, NEW ss, NEW n \in Nat \ {0}, IsFlat(g, ss, n)
  PROVE  g[1] = ss[1] /\ \A i \in 1 .. n - 1 : g[i + 1] = g[i] \o ss[i + 1]
<1>1. g[1] = ss[1]
  <2>1. 1 \in 1 .. n
    OBVIOUS
  <2>2. QED
    BY <2>1 DEF IsFlat
<1>2. ASSUME NEW i \in 1 .. n - 1 PROVE g[i + 1] = g[i] \o ss[i + 1]
  <2>1. PICK j \in 1 .. n : j = i + 1
    OBVIOUS
  <2>2. j # 1 /\ j - 1 = i
    BY <2>1
  <2>3. g[j] = g[j - 1] \o ss[j]
    BY <2>2 DEF IsFlat
  <2>4. QED
    BY <2>1, <2>2, <2>3
<1>3. QED
  BY <1>1, <1>2

LEMMA FlatIs ==
  ASSUME NEW ss, Len(ss) \in Nat \ {0}
  PROVE  \E g : IsFlat(g, ss, Len(ss)) /\ FlattenSeq(ss) = g[Len(ss)]
<1> DEFINE flatten[i \in 1 .. Len(ss)] == IF i = 1 THEN ss[i] ELSE flatten[i - 1] \o ss[i]
<1>1. FlattenSeq(ss) = flatten[Len(ss)]
  BY DEF FlattenSeq
<1>2. \E g : IsFlat(g, ss, Len(ss))
  BY FlatTable
<1>3. IsFlat(flatten, ss, Len(ss))
  BY <1>2 DEF IsFlat
<1>4. QED
  BY <1>1, <1>3

LEMMA FlattenEmpty == FlattenSeq(<<>>) = <<>>
BY DEF FlattenSeq

LEMMA FlattenAppend ==
  ASSUME NEW S, NEW ss \in Seq(Seq(S)), NEW t \in Seq(S)
  PROVE  FlattenSeq(Append(ss, t)) = FlattenSeq(ss) \o t
<1> DEFINE tt == Append(ss, t)
           n  == Len(ss)
<1>1. /\ n \in Nat /\ Len(tt) = n + 1 /\ n + 1 \in Nat \ {0}
      /\ tt[n + 1] = t /\ \A k \in 1 .. n : tt[k] = ss[k]
  OBVIOUS
<1>2. PICK h : IsFlat(h, tt, n + 1) /\ FlattenSeq(tt) = h[n + 1]
  BY <1>1, FlatIs
<1>3. CASE n = 0
  <2>1. ss = <<>>
    BY <1>3
  <2>2. h[1] = t
    <3>1. h[1] = tt[1]
      BY <1>1, <1>2, FlatEntry
    <3>2. QED
      BY <1>1, <1>3, <3>1
  <2>3. <<>> \o t = t
    OBVIOUS
  <2>4. FlattenSeq(ss) = <<>>
    BY <2>1, FlattenEmpty
  <2>5. FlattenSeq(tt) = t
    BY <1>2, <1>3, <2>2
  <2>6. QED
    BY <2>3, <2>4, <2>5
<1>4. CASE n # 0
  <2> HIDE DEF tt, n
  <2>1. PICK g : IsFlat(g, ss, n) /\ FlattenSeq(ss) = g[n]
    <3>1. Len(ss) \in Nat \ {0}
      BY <1>1, <1>4 DEF n
    <3>2. QED
      BY <3>1, FlatIs DEF n
  <2> DEFINE N == {m \in Nat : m + 1 <= n => h[m + 1] = g[m + 1]}
  <2>2. 0 \in N
    <3>1. n \in Nat \ {0}
      BY <1>1, <1>4
    <3>2. tt[1] = ss[1]
      BY <1>1, <3>1
    <3>3. h[1] = tt[1]
      BY ONLY <1>1, <1>2, FlatEntry
    <3>4. g[1] = ss[1]
      BY ONLY <2>1, <3>1, FlatEntry
    <3>5. QED
      BY <3>2, <3>3, <3>4
  <2>3. ASSUME NEW m \in Nat, m \in N, (m + 1) + 1 <= n PROVE h[(m + 1) + 1] = g[(m + 1) + 1]
    <3> DEFINE j == m + 1
    <3>1. n \in Nat \ {0} /\ j \in 1 .. n - 1 /\ j \in 1 .. (n + 1) - 1 /\ j + 1 \in 1 .. n
      BY <1>1, <1>4, <2>3
    <3>2. h[j] = g[j] /\ tt[j + 1] = ss[j + 1]
      BY <1>1, <2>3, <3>1
    <3> HIDE DEF j
    <3>3. g[j + 1] = g[j] \o ss[j + 1]
      BY <2>1, <3>1, FlatEntry
    <3>4. h[j + 1] = h[j] \o tt[j + 1]
      BY <1>1, <1>2, <3>1, FlatEntry
    <3>5. QED
      BY <3>2, <3>3, <3>4 DEF j
  <2>4. n - 1 \in N
    <3>1. \A m \in Nat : m \in N => m + 1 \in N
      BY <2>3
    <3>2. Nat \subseteq N
      BY <2>2, <3>1, CountUp
    <3>3. n - 1 \in Nat
      BY <1>1, <1>4
    <3>4. QED
      BY <3>2, <3>3
  <2>5. h[n] = g[n]
    <3>1. (n - 1) + 1 = n /\ n <= n
      BY <1>1
    <3>2. QED
      BY <2>4, <3>1
  <2>6. h[n + 1] = h[n] \o tt[n + 1]
    <3>1. n \in 1 .. (n + 1) - 1
      BY <1>1, <1>4
    <3>2. QED
      BY <1>1, <1>2, <3>1, FlatEntry
  <2>7. QED
    BY <1>1, <1>2, <2>1, <2>5, <2>6 DEF tt
<1>5. QED
  BY <1>3, <1>4

LEMMA FlattenType ==
  ASSUME NEW S, NEW ss \in Seq(Seq(S))
  PROVE  FlattenSeq(ss) \in Seq(S)
<1> DEFINE T == {tt \in Seq(Seq(S)) : FlattenSeq(tt) \in Seq(S)}
<1>1. <<>> \in T
  <2>1. <<>> \in Seq(Seq(S)) /\ <<>> \in Seq(S)
    OBVIOUS
  <2>2. QED
    BY <2>1, FlattenEmpty
<1>2. ASSUME NEW tt \in Seq(Seq(S)), NEW t \in Seq(S), tt \in T PROVE Append(tt, t) \in T
  <2>1. Append(tt, t) \in Seq(Seq(S)) /\ FlattenSeq(tt) \in Seq(S)
    BY <1>2
  <2>2. FlattenSeq(tt) \o t \in Seq(S)
    BY <2>1
  <2>3. QED
    BY <2>1, <2>2, FlattenAppend
<1>3. Seq(Seq(S)) \subseteq T
  BY <1>1, <1>2, AppendInduction
<1>4. QED
  BY <1>3

LEMMA FlattenConcat ==
  ASSUME NEW S, NEW ss \in Seq(Seq(S)), NEW tt \in Seq(Seq(S))
  PROVE  FlattenSeq(ss \o tt) = FlattenSeq(ss) \o FlattenSeq(tt)
<1> DEFINE T == {uu \in Seq(Seq(S)) : FlattenSeq(ss \o uu) = FlattenSeq(ss) \o FlattenSeq(uu)}
<1>0. FlattenSeq(ss) \in Seq(S)
  BY FlattenType
<1>1. <<>> \in T
  <2>1. <<>> \in Seq(Seq(S)) /\ ss \o <<>> = ss
    OBVIOUS
  <2>2. FlattenSeq(ss) \o <<>> = FlattenSeq(ss)
    BY <1>0
  <2>3. QED
    BY <2>1, <2>2, FlattenEmpty
<1>2. ASSUME NEW uu \in Seq(Seq(S)), NEW u \in Seq(S), uu \in T PROVE Append(uu, u) \in T
  <2> DEFINE vv == ss \o uu
             a  == FlattenSeq(ss)
             b  == FlattenSeq(uu)
  <2>1. Append(uu, u) \in Seq(Seq(S)) /\ vv \in Seq(Seq(S)) /\ ss \o Append(uu, u) = Append(vv, u)
    BY ConcatAppend
  <2>2. a \in Seq(S) /\ b \in Seq(S) /\ FlattenSeq(vv) = a \o b
    BY <1>0, <1>2, FlattenType
  <2>3. FlattenSeq(Append(uu, u)) = b \o u
    BY FlattenAppend
  <2> HIDE DEF vv, a, b
  <2>4. FlattenSeq(Append(vv, u)) = FlattenSeq(vv) \o u
    BY <2>1, FlattenAppend
  <2>5. (a \o b) \o u = a \o (b \o u)
    BY <2>2
  <2>6. FlattenSeq(ss \o Append(uu, u)) = a \o FlattenSeq(Append(uu, u))
    BY <2>1, <2>2, <2>3, <2>4, <2>5
  <2>7. QED
    BY <2>1, <2>6 DEF a
<1>3. Seq(Seq(S)) \subseteq T
  BY <1>1, <1>2, AppendInduction
<1>4. QED
  BY <1>3

\* s has an entry that is in V.
Meets(V, s) == \E p \in DOMAIN s : s[p] \in V

LEMMA MeetsConcat ==
  ASSUME NEW S, NEW s \in Seq(S), NEW t \in Seq(S), NEW V
  PROVE  Meets(V, s \o t) <=> Meets(V, s) \/ Meets(V, t)
<1>1. \A p \in DOMAIN s : p \in DOMAIN (s \o t) /\ (s \o t)[p] = s[p]
  OBVIOUS
<1>2. \A p \in DOMAIN t : Len(s) + p \in DOMAIN (s \o t) /\ (s \o t)[Len(s) + p] = t[p]
  OBVIOUS
<1>3. \A p \in DOMAIN (s \o t) : p \in DOMAIN s \/ \E q \in DOMAIN t : p = Len(s) + q
  <2> SUFFICES ASSUME NEW p \in DOMAIN (s \o t), p \notin DOMAIN s
               PROVE  \E q \in DOMAIN t : p = Len(s) + q
    OBVIOUS
  <2>1. p - Len(s) \in DOMAIN t /\ p = Len(s) + (p - Len(s))
    OBVIOUS
  <2>2. QED
    BY <2>1
<1>4. QED
  BY <1>1, <1>2, <1>3 DEF Meets

LEMMA OnceConcat ==
  ASSUME NEW S, NEW s \in Seq(S), NEW t \in Seq(S), NEW V,
         OnceIn(V, s), OnceIn(V, t), ~ (Meets(V, s) /\ Meets(V, t))
  PROVE  OnceIn(V, s \o t)
<1>1. ASSUME NEW p \in DOMAIN (s \o t)
      PROVE  \/ p \in DOMAIN s /\ (s \o t)[p] = s[p]
             \/ p - Len(s) \in DOMAIN t /\ (s \o t)[p] = t[p - Len(s)] /\ p = (p - Len(s)) + Len(s)
  OBVIOUS
<1>2. SUFFICES ASSUME NEW p \in DOMAIN (s \o t), NEW q \in DOMAIN (s \o t),
                      (s \o t)[p] \in V, (s \o t)[q] \in V
               PROVE  p = q
  BY DEF OnceIn
<1>3. CASE p \in DOMAIN s /\ (s \o t)[p] = s[p]
  <2>1. ~ Meets(V, t)
    BY <1>2, <1>3 DEF Meets
  <2>2. q \in DOMAIN s /\ (s \o t)[q] = s[q]
    BY <1>1, <1>2, <2>1 DEF Meets
  <2>3. QED
    BY <1>2, <1>3, <2>2 DEF OnceIn
<1>4. CASE p - Len(s) \in DOMAIN t /\ (s \o t)[p] = t[p - Len(s)] /\ p = (p - Len(s)) + Len(s)
  <2>1. ~ Meets(V, s)
    BY <1>2, <1>4 DEF Meets
  <2>2. q - Len(s) \in DOMAIN t /\ (s \o t)[q] = t[q - Len(s)] /\ q = (q - Len(s)) + Len(s)
    BY <1>1, <1>2, <2>1 DEF Meets
  <2>3. p - Len(s) = q - Len(s)
    BY <1>2, <1>4, <2>2 DEF OnceIn
  <2>4. QED
    BY <1>4, <2>2, <2>3
<1>5. QED
  BY <1>1, <1>3, <1>4

\* What the lists of ss are made of is what the flat list is made of.
LEMMA FlattenMeets ==
  ASSUME NEW S, NEW ss \in Seq(Seq(S)), NEW V
  PROVE  Meets(V, FlattenSeq(ss)) <=> \E k \in DOMAIN ss : Meets(V, ss[k])
<1> DEFINE T == {tt \in Seq(Seq(S)) :
                   Meets(V, FlattenSeq(tt)) <=> \E k \in DOMAIN tt : Meets(V, tt[k])}
<1>1. <<>> \in T
  <2>1. <<>> \in Seq(Seq(S)) /\ DOMAIN <<>> = {}
    OBVIOUS
  <2>2. QED
    BY <2>1, FlattenEmpty DEF Meets
<1>2. ASSUME NEW tt \in Seq(Seq(S)), NEW t \in Seq(S), tt \in T PROVE Append(tt, t) \in T
  <2>1. /\ Append(tt, t) \in Seq(Seq(S))
        /\ DOMAIN Append(tt, t) = DOMAIN tt \cup {Len(tt) + 1}
        /\ Append(tt, t)[Len(tt) + 1] = t /\ \A k \in DOMAIN tt : Append(tt, t)[k] = tt[k]
    OBVIOUS
  <2>2. Meets(V, FlattenSeq(Append(tt, t))) <=> Meets(V, FlattenSeq(tt)) \/ Meets(V, t)
    <3>1. FlattenSeq(Append(tt, t)) = FlattenSeq(tt) \o t /\ FlattenSeq(tt) \in Seq(S)
      BY FlattenAppend, FlattenType
    <3> DEFINE a == FlattenSeq(tt)
    <3> HIDE DEF a
    <3>2. a \in Seq(S)
      BY <3>1 DEF a
    <3>3. Meets(V, a \o t) <=> Meets(V, a) \/ Meets(V, t)
      BY ONLY <3>2, t \in Seq(S), MeetsConcat
    <3>4. QED
      BY <3>1, <3>3 DEF a
  <2>3. (\E k \in DOMAIN Append(tt, t) : Meets(V, Append(tt, t)[k])) <=>
          (\E k \in DOMAIN tt : Meets(V, tt[k])) \/ Meets(V, t)
    BY <2>1
  <2>4. QED
    BY <1>2, <2>1, <2>2, <2>3
<1>3. Seq(Seq(S)) \subseteq T
  BY <1>1, <1>2, AppendInduction
<1>4. QED
  BY <1>3

\* What occurs once in the lists of ss occurs once in the flat list.
OnceAmong(V, ss) ==
  /\ \A k \in DOMAIN ss : OnceIn(V, ss[k])
  /\ \A j, k \in DOMAIN ss : Meets(V, ss[j]) /\ Meets(V, ss[k]) => j = k

LEMMA FlattenOnce ==
  ASSUME NEW S, NEW ss \in Seq(Seq(S)), NEW V, OnceAmong(V, ss)
  PROVE  OnceIn(V, FlattenSeq(ss))
<1> DEFINE T == {tt \in Seq(Seq(S)) : OnceAmong(V, tt) => OnceIn(V, FlattenSeq(tt))}
<1>1. <<>> \in T
  <2>1. <<>> \in Seq(Seq(S)) /\ DOMAIN <<>> = {}
    OBVIOUS
  <2>2. QED
    BY <2>1, FlattenEmpty DEF OnceIn
<1>2. ASSUME NEW tt \in Seq(Seq(S)), NEW t \in Seq(S), tt \in T PROVE Append(tt, t) \in T
  <2> DEFINE a == FlattenSeq(tt)
  <2>1. /\ Append(tt, t) \in Seq(Seq(S))
        /\ DOMAIN Append(tt, t) = DOMAIN tt \cup {Len(tt) + 1} /\ Len(tt) + 1 \notin DOMAIN tt
        /\ Append(tt, t)[Len(tt) + 1] = t /\ \A k \in DOMAIN tt : Append(tt, t)[k] = tt[k]
    OBVIOUS
  <2>2. SUFFICES ASSUME OnceAmong(V, Append(tt, t)) PROVE OnceIn(V, FlattenSeq(Append(tt, t)))
    BY <2>1
  <2>3. OnceAmong(V, tt) /\ OnceIn(V, t) /\ ~ (Meets(V, t) /\ \E k \in DOMAIN tt : Meets(V, tt[k]))
    BY <2>1, <2>2 DEF OnceAmong
  <2>4. OnceIn(V, a)
    BY <1>2, <2>3
  <2>5. a \in Seq(S) /\ FlattenSeq(Append(tt, t)) = a \o t
    BY FlattenType, FlattenAppend
  <2>6. ~ (Meets(V, a) /\ Meets(V, t))
    BY <2>3, FlattenMeets
  <2> HIDE DEF a
  <2>7. OnceIn(V, a \o t)
    BY ONLY <2>3, <2>4, <2>5, <2>6, t \in Seq(S), OnceConcat
  <2>8. QED
    BY <2>5, <2>7
<1>3. Seq(Seq(S)) \subseteq T
  BY <1>1, <1>2, AppendInduction
<1>4. QED
  BY <1>3
-----------------------------------------------------------------------------
(* Lists that are filtered by what their entries are, and mapped.          *)

Only(P, s)   == Kept(s, {k \in DOMAIN s : s[k] \in P})
Mapped(f, s) == [k \in DOMAIN s |-> f[s[k]]]

LEMMA OnlyEmpty ==
  ASSUME NEW P
  PROVE  Only(P, <<>>) = <<>>
BY KeptEmpty DEF Only

LEMMA OnlyType ==
  ASSUME NEW S, NEW s \in Seq(S), NEW P
  PROVE  Only(P, s) \in Seq(S \cap P)
<1> DEFINE K == {k \in DOMAIN s : s[k] \in P}
<1>1. \A k \in DOMAIN s : k \in K => s[k] \in S \cap P
  OBVIOUS
<1> HIDE DEF K
<1>2. Kept(s, K) \in Seq(S \cap P)
  BY <1>1, KeptType
<1>3. QED
  BY <1>2 DEF Only, K

LEMMA OnlyConcat ==
  ASSUME NEW S, NEW s \in Seq(S), NEW t \in Seq(S), NEW P
  PROVE  Only(P, s \o t) = Only(P, s) \o Only(P, t)
<1> DEFINE u == s \o t
           K == {k \in DOMAIN u : u[k] \in P}
           L == {k \in DOMAIN s : s[k] \in P}
           M == {k \in DOMAIN t : t[k] \in P}
<1>1. \A k \in DOMAIN s : k \in K <=> k \in L
  OBVIOUS
<1>2. \A k \in DOMAIN t : Len(s) + k \in K <=> k \in M
  OBVIOUS
<1> HIDE DEF K, L, M
<1>3. Kept(s \o t, K) = Kept(s, L) \o Kept(t, M)
  BY <1>1, <1>2, KeptConcat
<1>4. QED
  BY <1>3 DEF Only, K, L, M

LEMMA OnlyAppend ==
  ASSUME NEW S, NEW s \in Seq(S), NEW e \in S, NEW P
  PROVE  Only(P, Append(s, e)) = IF e \in P THEN Append(Only(P, s), e) ELSE Only(P, s)
<1> DEFINE u == Append(s, e)
           K == {k \in DOMAIN u : u[k] \in P}
           L == {k \in DOMAIN s : s[k] \in P}
<1>1. /\ \A k \in DOMAIN s : k \in K <=> k \in L
      /\ Len(s) + 1 \in K <=> e \in P
  OBVIOUS
<1> HIDE DEF K, L
<1>2. Kept(s, K) = Kept(s, L)
  BY <1>1, KeptSame
<1>3. Kept(u, K) = IF Len(s) + 1 \in K THEN Append(Kept(s, K), e) ELSE Kept(s, K)
  BY KeptAppend
<1>4. QED
  BY <1>1, <1>2, <1>3 DEF Only, K, L

LEMMA OnlyNone ==
  ASSUME NEW S, NEW s \in Seq(S), NEW P, \A k \in DOMAIN s : s[k] \notin P
  PROVE  Only(P, s) = <<>>
<1> DEFINE K == {k \in DOMAIN s : s[k] \in P}
<1>1. \A k \in DOMAIN s : k \notin K
  OBVIOUS
<1> HIDE DEF K
<1>2. Kept(s, K) = <<>>
  BY <1>1, KeptNone
<1>3. QED
  BY <1>2 DEF Only, K

LEMMA OnlyAll ==
  ASSUME NEW S, NEW s \in Seq(S), NEW P, \A k \in DOMAIN s : s[k] \in P
  PROVE  Only(P, s) = s
<1> DEFINE K == {k \in DOMAIN s : s[k] \in P}
<1>1. DOMAIN s \subseteq K
  OBVIOUS
<1> HIDE DEF K
<1>2. Kept(s, K) = s
  BY <1>1, KeptAll
<1>3. QED
  BY <1>2 DEF Only, K

\* What is left was there, and what is in P is left.
LEMMA OnlyMeets ==
  ASSUME NEW S, NEW s \in Seq(S), NEW P, NEW V
  PROVE  Meets(V, Only(P, s)) <=> Meets(V \cap P, s)
<1> DEFINE K == {k \in DOMAIN s : s[k] \in P}
<1>1. Only(P, s) = Kept(s, K) /\ Only(P, s) \in Seq(S \cap P)
  BY OnlyType DEF Only
<1>2. ASSUME Meets(V, Only(P, s)) PROVE Meets(V \cap P, s)
  <2>1. PICK p \in DOMAIN Only(P, s) : Only(P, s)[p] \in V
    BY <1>2 DEF Meets
  <2>2. \E k \in DOMAIN s : k \in K /\ Kept(s, K)[p] = s[k]
    <3> HIDE DEF K
    <3>1. p \in DOMAIN Kept(s, K)
      BY <1>1, <2>1
    <3>2. QED
      BY <3>1, KeptFrom
  <2>3. PICK k \in DOMAIN s : k \in K /\ Kept(s, K)[p] = s[k]
    BY <2>2
  <2>4. QED
    BY <1>1, <2>1, <2>3 DEF Meets
<1>3. ASSUME Meets(V \cap P, s) PROVE Meets(V, Only(P, s))
  <2>1. PICK k \in DOMAIN s : s[k] \in V \cap P
    BY <1>3 DEF Meets
  <2>2. k \in K
    BY <2>1
  <2>3. PICK p \in DOMAIN Kept(s, K) : Kept(s, K)[p] = s[k]
    BY <2>2, KeptHas
  <2>4. QED
    BY <1>1, <2>1, <2>3 DEF Meets
<1>4. QED
  BY <1>2, <1>3

LEMMA OnlyOnce ==
  ASSUME NEW S, NEW s \in Seq(S), NEW P, NEW V, OnceIn(V, s)
  PROVE  OnceIn(V, Only(P, s))
BY KeptOnce DEF Only

LEMMA MappedType ==
  ASSUME NEW S, NEW R, NEW f \in [S -> R], NEW s \in Seq(S)
  PROVE  /\ Mapped(f, s) \in Seq(R) /\ Len(Mapped(f, s)) = Len(s)
         /\ DOMAIN Mapped(f, s) = DOMAIN s /\ \A k \in DOMAIN s : Mapped(f, s)[k] = f[s[k]]
BY DEF Mapped

LEMMA MappedEmpty ==
  ASSUME NEW f
  PROVE  Mapped(f, <<>>) = <<>>
BY DEF Mapped

LEMMA MappedAppend ==
  ASSUME NEW S, NEW f, NEW s \in Seq(S), NEW e \in S
  PROVE  Mapped(f, Append(s, e)) = Append(Mapped(f, s), f[e])
<1> DEFINE R == {f[x] : x \in S}
<1>1. /\ Mapped(f, s) \in Seq(R) /\ Len(Mapped(f, s)) = Len(s)
      /\ \A k \in DOMAIN s : Mapped(f, s)[k] = f[s[k]]
  BY DEF Mapped
<1>2. /\ Mapped(f, Append(s, e)) \in Seq(R) /\ Len(Mapped(f, Append(s, e))) = Len(s) + 1
      /\ \A k \in DOMAIN s : Mapped(f, Append(s, e))[k] = f[s[k]]
      /\ Mapped(f, Append(s, e))[Len(s) + 1] = f[e]
  <2>1. Append(s, e) \in Seq(S) /\ Len(Append(s, e)) = Len(s) + 1
    OBVIOUS
  <2>2. QED
    BY <2>1 DEF Mapped
<1>3. f[e] \in R
  OBVIOUS
<1>4. QED
  BY <1>1, <1>2, <1>3

LEMMA MappedConcat ==
  ASSUME NEW S, NEW f, NEW s \in Seq(S), NEW t \in Seq(S)
  PROVE  Mapped(f, s \o t) = Mapped(f, s) \o Mapped(f, t)
<1> DEFINE R == {f[x] : x \in S}
<1>0. \A u \in Seq(S) : Mapped(f, u) \in Seq(R)
  BY DEF Mapped
<1> DEFINE T == {u \in Seq(S) : Mapped(f, s \o u) = Mapped(f, s) \o Mapped(f, u)}
<1>1. <<>> \in T
  <2>1. s \o <<>> = s /\ <<>> \in Seq(S) /\ Mapped(f, s) \o <<>> = Mapped(f, s)
    BY <1>0
  <2>2. QED
    BY <2>1, MappedEmpty
<1>2. ASSUME NEW u \in Seq(S), NEW e \in S, u \in T PROVE Append(u, e) \in T
  <2> DEFINE w == s \o u
             a == Mapped(f, s)
             b == Mapped(f, u)
  <2>1. /\ w \in Seq(S) /\ Append(u, e) \in Seq(S) /\ f[e] \in R
        /\ s \o Append(u, e) = Append(w, e)
    BY ConcatAppend
  <2>2. a \in Seq(R) /\ b \in Seq(R)
    BY <1>0
  <2>3. Mapped(f, w) = a \o b
    BY <1>2
  <2>4. Mapped(f, Append(u, e)) = Append(b, f[e])
    BY MappedAppend
  <2> HIDE DEF w, a, b
  <2>5. Mapped(f, Append(w, e)) = Append(Mapped(f, w), f[e])
    BY <2>1, MappedAppend
  <2>6. a \o Append(b, f[e]) = Append(a \o b, f[e])
    BY <2>1, <2>2, ConcatAppend
  <2>7. Mapped(f, s \o Append(u, e)) = a \o Mapped(f, Append(u, e))
    BY <2>1, <2>3, <2>4, <2>5, <2>6
  <2>8. QED
    BY <2>1, <2>7 DEF a
<1>3. Seq(S) \subseteq T
  BY <1>1, <1>2, AppendInduction
<1>4. QED
  BY <1>3

\* f tells entries of V apart from those that it maps into W.
LEMMA MappedMeets ==
  ASSUME NEW S, NEW f, NEW s \in Seq(S), NEW V
  PROVE  Meets(V, Mapped(f, s)) <=> Meets({x \in S : f[x] \in V}, s)
BY DEF Mapped, Meets

LEMMA MappedOnce ==
  ASSUME NEW S, NEW f, NEW s \in Seq(S), NEW V, OnceIn({x \in S : f[x] \in V}, s)
  PROVE  OnceIn(V, Mapped(f, s))
BY DEF Mapped, OnceIn

\* Both: what f makes of the entries that are in P.
Chosen(P, f, s) == Mapped(f, Only(P, s))

LEMMA ChosenType ==
  ASSUME NEW S, NEW R, NEW P, NEW f \in [S \cap P -> R], NEW s \in Seq(S)
  PROVE  Chosen(P, f, s) \in Seq(R)
<1>1. Only(P, s) \in Seq(S \cap P)
  BY OnlyType
<1>2. QED
  BY <1>1, MappedType DEF Chosen

LEMMA ChosenConcat ==
  ASSUME NEW S, NEW P, NEW f, NEW s \in Seq(S), NEW t \in Seq(S)
  PROVE  Chosen(P, f, s \o t) = Chosen(P, f, s) \o Chosen(P, f, t)
<1>1. Only(P, s) \in Seq(S \cap P) /\ Only(P, t) \in Seq(S \cap P)
  BY OnlyType
<1>2. Only(P, s \o t) = Only(P, s) \o Only(P, t)
  BY OnlyConcat
<1> DEFINE a == Only(P, s)
           b == Only(P, t)
<1> HIDE DEF a, b
<1>3. a \in Seq(S \cap P) /\ b \in Seq(S \cap P)
  BY <1>1 DEF a, b
<1>4. Mapped(f, a \o b) = Mapped(f, a) \o Mapped(f, b)
  BY <1>3, MappedConcat
<1>5. QED
  BY <1>2, <1>4 DEF Chosen, a, b

LEMMA ChosenNone ==
  ASSUME NEW S, NEW P, NEW f, NEW s \in Seq(S), \A k \in DOMAIN s : s[k] \notin P
  PROVE  Chosen(P, f, s) = <<>>
<1>1. Only(P, s) = <<>>
  BY OnlyNone
<1>2. QED
  BY <1>1, MappedEmpty DEF Chosen

LEMMA ChosenAll ==
  ASSUME NEW S, NEW P, NEW f, NEW s \in Seq(S), \A k \in DOMAIN s : s[k] \in P
  PROVE  Chosen(P, f, s) = Mapped(f, s)
<1>1. Only(P, s) = s
  BY OnlyAll
<1>2. QED
  BY <1>1 DEF Chosen

LEMMA ChosenMeets ==
  ASSUME NEW S, NEW P, NEW f, NEW s \in Seq(S), NEW V
  PROVE  Meets(V, Chosen(P, f, s)) <=> Meets({x \in S \cap P : f[x] \in V}, s)
<1> DEFINE W == {x \in S \cap P : f[x] \in V}
<1>1. Only(P, s) \in Seq(S \cap P)
  BY OnlyType
<1>2. Meets(V, Chosen(P, f, s)) <=> Meets(W, Only(P, s))
  <2> DEFINE o == Only(P, s)
  <2> HIDE DEF o
  <2> DEFINE Q == S \cap P
  <2>1. o \in Seq(Q)
    BY <1>1 DEF o
  <2> HIDE DEF Q
  <2>2. Meets(V, Mapped(f, o)) <=> Meets({x \in Q : f[x] \in V}, o)
    BY ONLY <2>1, MappedMeets
  <2>3. QED
    BY <2>2 DEF Chosen, o, Q
<1>3. Meets(W, Only(P, s)) <=> Meets(W \cap P, s)
  BY OnlyMeets
<1>4. W \cap P = W
  OBVIOUS
<1>5. QED
  BY <1>2, <1>3, <1>4

LEMMA ChosenOnce ==
  ASSUME NEW S, NEW P, NEW f, NEW s \in Seq(S), NEW V,
         OnceIn({x \in S \cap P : f[x] \in V}, s)
  PROVE  OnceIn(V, Chosen(P, f, s))
<1>1. Only(P, s) \in Seq(S \cap P)
  BY OnlyType
<1>2. OnceIn({x \in S \cap P : f[x] \in V}, Only(P, s))
  BY OnlyOnce
<1>3. QED
  BY <1>1, <1>2, MappedOnce DEF Chosen

\* The converse of OnceConcat.
LEMMA OnceParts ==
  ASSUME NEW S, NEW s \in Seq(S), NEW t \in Seq(S), NEW V, OnceIn(V, s \o t)
  PROVE  OnceIn(V, s) /\ OnceIn(V, t) /\ ~ (Meets(V, s) /\ Meets(V, t))
<1>1. \A p \in DOMAIN s : p \in DOMAIN (s \o t) /\ (s \o t)[p] = s[p]
  OBVIOUS
<1>2. \A p \in DOMAIN t : Len(s) + p \in DOMAIN (s \o t) /\ (s \o t)[Len(s) + p] = t[p]
  OBVIOUS
<1>3. OnceIn(V, s)
  BY <1>1 DEF OnceIn
<1>4. OnceIn(V, t)
  <2> SUFFICES ASSUME NEW p \in DOMAIN t, NEW q \in DOMAIN t, t[p] \in V, t[q] \in V
               PROVE  p = q
    BY DEF OnceIn
  <2>1. Len(s) + p = Len(s) + q
    BY <1>2 DEF OnceIn
  <2>2. p \in Int /\ q \in Int /\ Len(s) \in Int
    OBVIOUS
  <2>3. QED
    BY <2>1, <2>2
<1>5. ~ (Meets(V, s) /\ Meets(V, t))
  <2> SUFFICES ASSUME NEW p \in DOMAIN s, NEW q \in DOMAIN t, s[p] \in V, t[q] \in V
               PROVE  FALSE
    BY DEF Meets
  <2>1. p = Len(s) + q
    BY <1>1, <1>2 DEF OnceIn
  <2>2. p \in 1 .. Len(s) /\ q \in Nat /\ q > 0 /\ Len(s) \in Int
    OBVIOUS
  <2>3. QED
    BY <2>1, <2>2
<1>6. QED
  BY <1>3, <1>4, <1>5

\* The converse of FlattenOnce.
LEMMA FlattenParts ==
  ASSUME NEW S, NEW ss \in Seq(Seq(S)), NEW V, OnceIn(V, FlattenSeq(ss))
  PROVE  OnceAmong(V, ss)
<1> DEFINE T == {tt \in Seq(Seq(S)) : OnceIn(V, FlattenSeq(tt)) => OnceAmong(V, tt)}
<1>1. <<>> \in T
  <2>1. <<>> \in Seq(Seq(S)) /\ DOMAIN <<>> = {}
    OBVIOUS
  <2>2. QED
    BY <2>1 DEF OnceAmong
<1>2. ASSUME NEW tt \in Seq(Seq(S)), NEW t \in Seq(S), tt \in T PROVE Append(tt, t) \in T
  <2> DEFINE a == FlattenSeq(tt)
             w == Append(tt, t)
  <2>1. /\ w \in Seq(Seq(S))
        /\ DOMAIN w = DOMAIN tt \cup {Len(tt) + 1} /\ Len(tt) + 1 \notin DOMAIN tt
        /\ w[Len(tt) + 1] = t /\ \A k \in DOMAIN tt : w[k] = tt[k]
    OBVIOUS
  <2>2. SUFFICES ASSUME OnceIn(V, FlattenSeq(w)) PROVE OnceAmong(V, w)
    BY <2>1
  <2>3. a \in Seq(S) /\ FlattenSeq(w) = a \o t
    BY FlattenType, FlattenAppend
  <2> HIDE DEF w
  <2>4. Meets(V, a) <=> \E k \in DOMAIN tt : Meets(V, tt[k])
    BY FlattenMeets
  <2> HIDE DEF a
  <2>5. OnceIn(V, a) /\ OnceIn(V, t) /\ ~ (Meets(V, a) /\ Meets(V, t))
    BY <2>2, <2>3, OnceParts
  <2>6. OnceAmong(V, tt)
    BY <1>2, <2>5 DEF a
  <2>7. QED
    BY <2>1, <2>4, <2>5, <2>6 DEF OnceAmong
<1>3. Seq(Seq(S)) \subseteq T
  BY <1>1, <1>2, AppendInduction
<1>4. QED
  BY <1>3

LEMMA OnceLess ==
  ASSUME NEW s, NEW V, NEW W, OnceIn(V, s), W \subseteq V
  PROVE  OnceIn(W, s)
BY DEF OnceIn

LEMMA MeetsLess ==
  ASSUME NEW s, NEW V, NEW W, Meets(W, s), W \subseteq V
  PROVE  Meets(V, s)
BY DEF Meets

LEMMA MeetsAppend ==
  ASSUME NEW S, NEW s \in Seq(S), NEW e \in S, NEW V
  PROVE  Meets(V, Append(s, e)) <=> Meets(V, s) \/ e \in V
<1>1. /\ DOMAIN Append(s, e) = DOMAIN s \cup {Len(s) + 1}
      /\ Append(s, e)[Len(s) + 1] = e /\ \A p \in DOMAIN s : Append(s, e)[p] = s[p]
  OBVIOUS
<1>2. QED
  BY <1>1 DEF Meets
=============================================================================
