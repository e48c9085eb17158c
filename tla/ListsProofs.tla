----------------------------- MODULE ListsProofs -----------------------------
(***************************************************************************)
(* What Kept makes of a list: which elements, from where, in which order.  *)
(* The list at each position of the loop is a function that exists (IsUp), *)
(* and h says which position each element of the result r comes from.      *)
(***************************************************************************)
EXTENDS Lists, FiniteSetsExt, SequenceTheorems, WellFoundedInduction, TLAPS

(* A set of numbers that has 0, and n + 1 with every n below m, has all up *)
(* to m.                                                                   *)
LEMMA CountUp ==
  ASSUME NEW m \in Nat, NEW G, 0 \in G,
         \A n \in 0..(m - 1) : n \in G => n + 1 \in G
  PROVE  0..m \subseteq G
  <1> DEFINE R == {ss \in Nat \X Nat : ss[1] < ss[2]}
             S == (0..m) \ G
  <1> SUFFICES ASSUME S # {} PROVE FALSE
    OBVIOUS
  <1>1. IsWellFoundedOn(R, Nat)
    BY NatLessThanWellFounded DEF OpToRel
  <1>2. PICK i \in S : \A j \in S : ~ (<<j, i>> \in R)
    BY <1>1, WFMin
  <1>3. i \in 1..m /\ i \notin G
    BY <1>2
  <1>4. i - 1 \in 0..(m - 1) /\ (i - 1) + 1 = i
    BY <1>3
  <1>5. i - 1 \notin G
    BY <1>3, <1>4
  <1>6. i - 1 \in S /\ <<i - 1, i>> \in R
    BY <1>4, <1>5
  <1> QED BY <1>2, <1>6

(* LeastElement, for the first position of something in a list.            *)
LEMMA LeastElement ==
  ASSUME NEW T \in SUBSET Nat, T # {}
  PROVE  Min(T) \in T /\ \A j \in T : Min(T) <= j
  <1> DEFINE R == {ss \in Nat \X Nat : ss[1] < ss[2]}
  <1>1. IsWellFoundedOn(R, Nat)
    BY NatLessThanWellFounded DEF OpToRel
  <1>2. PICK i \in T : \A j \in T : ~ (<<j, i>> \in R)
    BY <1>1, WFMin
  <1>3. ASSUME NEW j \in T PROVE i <= j
    <2>1. i \in Nat /\ j \in Nat /\ ~ (j < i)
      BY <1>2
    <2> QED BY <2>1
  <1> QED BY <1>3 DEF Min

-----------------------------------------------------------------------------
(* Kept.                                                                   *)

Step(F, s, I, n) == IF n \in I THEN Append(F[n - 1], s[n]) ELSE F[n - 1]

IsUp(F, s, I) ==
  F = [n \in 0..Len(s) |-> IF n = 0 THEN <<>> ELSE Step(F, s, I, n)]

Embeds(h, r, s) ==
  /\ h \in [DOMAIN r -> DOMAIN s]
  /\ \A i, j \in DOMAIN r : i < j => h[i] < h[j]
  /\ \A i \in DOMAIN r : r[i] = s[h[i]]

Selects(h, r, s, I) ==
  /\ Embeds(h, r, s)
  /\ \A k \in DOMAIN s : k \in I <=> \E i \in DOMAIN r : h[i] = k

LEMMA UpDefined ==
  ASSUME NEW S, NEW s \in Seq(S), NEW I
  PROVE  \E F : IsUp(F, s, I)
  <1> Len(s) \in Nat
    OBVIOUS
  <1> DEFINE Built(F, n) == /\ F \in [0..n -> Seq(S)]
                           /\ F[0] = <<>>
                           /\ \A i \in 1..n : F[i] = Step(F, s, I, i)
             G == {n \in 0..Len(s) : \E F : Built(F, n)}
  <1>1. 0 \in G
    <2>1. Built([i \in 0..0 |-> <<>>], 0)
      OBVIOUS
    <2> HIDE DEF Built
    <2> QED BY <2>1
  <1>2. ASSUME NEW n \in 0..(Len(s) - 1), n \in G PROVE n + 1 \in G
    <2>1. PICK F : Built(F, n)
      BY <1>2
    <2> n + 1 \in 0..Len(s)
      OBVIOUS
    <2> HIDE DEF Built
    <2> DEFINE E == [i \in 0..(n + 1) |-> IF i = n + 1 THEN Step(F, s, I, n + 1) ELSE F[i]]
    <2>2. Step(F, s, I, n + 1) \in Seq(S)
      BY <2>1 DEF Step, Built
    <2>3. E \in [0..(n + 1) -> Seq(S)]
      BY <2>1, <2>2 DEF Built
    <2>4. ASSUME NEW i \in 1..(n + 1) PROVE E[i] = Step(E, s, I, i)
      <3>1. E[i - 1] = F[i - 1]
        OBVIOUS
      <3>2. CASE i = n + 1
        BY <3>1, <3>2 DEF Step
      <3>3. CASE i # n + 1
        <4>1. i \in 1..n /\ E[i] = F[i]
          BY <3>3
        <4> QED BY <2>1, <3>1, <4>1 DEF Step, Built
      <3> QED BY <3>2, <3>3
    <2>5. E[0] = <<>>
      BY <2>1 DEF Built
    <2>6. Built(E, n + 1)
      BY <2>3, <2>4, <2>5 DEF Built
    <2> QED BY <2>6
  <1>3. Len(s) \in G
    <2>1. \A n \in 0..(Len(s) - 1) : n \in G => n + 1 \in G
      BY <1>2
    <2> HIDE DEF G
    <2>2. 0..Len(s) \subseteq G
      BY <1>1, <2>1, CountUp
    <2> QED BY <2>2
  <1>4. PICK F : Built(F, Len(s))
    BY <1>3
  <1>5. IsUp(F, s, I)
    BY <1>4 DEF IsUp
  <1> QED BY <1>5

LEMMA UpSelects ==
  ASSUME NEW S, NEW s \in Seq(S), NEW I, NEW F, IsUp(F, s, I)
  PROVE  F[Len(s)] \in Seq(S) /\ \E h : Selects(h, F[Len(s)], s, I)
  <1> Len(s) \in Nat
    OBVIOUS
  <1> DEFINE Up(h, n) == /\ h \in [DOMAIN F[n] -> 1..n]
                         /\ \A i, j \in DOMAIN F[n] : i < j => h[i] < h[j]
                         /\ \A i \in DOMAIN F[n] : F[n][i] = s[h[i]]
                         /\ \A k \in 1..n : k \in I <=> \E i \in DOMAIN F[n] : h[i] = k
             G == {n \in 0..Len(s) : F[n] \in Seq(S) /\ \E h : Up(h, n)}
  <1>0. F[0] = <<>> /\ \A n \in 1..Len(s) : F[n] = Step(F, s, I, n)
    BY DEF IsUp
  <1>1. 0 \in G
    <2>1. Up(<<>>, 0)
      BY <1>0
    <2> HIDE DEF Up
    <2>2. F[0] \in Seq(S) /\ 0 \in 0..Len(s)
      BY <1>0
    <2> QED BY <2>1, <2>2
  <1>2. ASSUME NEW n \in 0..(Len(s) - 1), n \in G PROVE n + 1 \in G
    <2>1. PICK h : Up(h, n)
      BY <1>2
    <2> DEFINE g == F[n]
               x == s[n + 1]
    <2>2. g \in Seq(S) /\ x \in S
      BY <1>2
    <2>0. n + 1 \in 1..Len(s) /\ (n + 1) - 1 = n
      OBVIOUS
    <2>3. CASE n + 1 \notin I
      <3>1. F[n + 1] = F[n]
        BY <1>0, <2>0, <2>3 DEF Step
      <3>2. Up(h, n + 1)
        BY <2>1, <2>3, <3>1
      <3> HIDE DEF Up
      <3> QED BY <3>1, <3>2, <2>0, <2>2
    <2>4. CASE n + 1 \in I
      <3>1. F[n + 1] = Append(g, x)
        BY <1>0, <2>0, <2>4 DEF Step
      <3> DEFINE e == [i \in 1..(Len(g) + 1) |-> IF i = Len(g) + 1 THEN n + 1 ELSE h[i]]
      <3>2. DOMAIN g = 1..Len(g) /\ DOMAIN Append(g, x) = 1..(Len(g) + 1) /\ Append(g, x) \in Seq(S)
        BY <2>2
      <3>3. \A i \in 1..(Len(g) + 1) : Append(g, x)[i] = IF i = Len(g) + 1 THEN x ELSE g[i]
        BY <2>2
      <3>4. h \in [1..Len(g) -> 1..n] /\ \A i, j \in 1..Len(g) : i < j => h[i] < h[j]
        BY <2>1, <3>2
      <3>5. \A k \in 1..n : k \in I <=> \E i \in 1..Len(g) : h[i] = k
        BY <2>1, <3>2
      <3>6. \A i \in 1..Len(g) : g[i] = s[h[i]]
        BY <2>1, <3>2
      <3> Len(g) \in Nat
        BY <2>2
      <3> HIDE DEF g, x
      <3>7. e \in [1..(Len(g) + 1) -> 1..(n + 1)] /\ \A i, j \in 1..(Len(g) + 1) : i < j => e[i] < e[j]
        <4> Len(g) + 1 > Len(g) /\ \A i \in 1..(Len(g) + 1) : i # Len(g) + 1 => i \in 1..Len(g)
          OBVIOUS
        <4>1. \A i \in 1..Len(g) : h[i] \in 1..n
          BY <3>4
        <4> QED BY <3>4, <4>1
      <3>8. \A i \in 1..(Len(g) + 1) : Append(g, x)[i] = s[e[i]]
        BY <3>3, <3>6 DEF x
      <3>9. ASSUME NEW k \in 1..(n + 1) PROVE k \in I <=> \E i \in 1..(Len(g) + 1) : e[i] = k
        <4>1. CASE k = n + 1
          BY <4>1, <2>4
        <4>2. CASE k # n + 1
          <5>1. k \in 1..n
            BY <4>2
          <5>2. (\E i \in 1..(Len(g) + 1) : e[i] = k) <=> \E i \in 1..Len(g) : h[i] = k
            BY <4>2, <5>1
          <5> QED BY <5>1, <5>2, <3>5
        <4> QED BY <4>1, <4>2
      <3>10. Up(e, n + 1)
        <4> HIDE DEF e
        <4> QED BY <3>1, <3>2, <3>7, <3>8, <3>9
      <3> HIDE DEF Up
      <3>11. F[n + 1] \in Seq(S) /\ n + 1 \in 0..Len(s)
        BY <3>1, <3>2, <2>0
      <3> QED BY <3>10, <3>11
    <2> QED BY <2>3, <2>4
  <1>3. Len(s) \in G
    <2>1. \A n \in 0..(Len(s) - 1) : n \in G => n + 1 \in G
      BY <1>2
    <2> HIDE DEF G
    <2>2. 0..Len(s) \subseteq G
      BY <1>1, <2>1, CountUp
    <2> QED BY <2>2
  <1>4. PICK h : Up(h, Len(s))
    BY <1>3
  <1>5. Selects(h, F[Len(s)], s, I)
    BY <1>4, DOMAIN s = 1..Len(s) DEF Selects, Embeds
  <1> QED BY <1>3, <1>5
(* The elements of Kept(s, I) are those of s at the positions in I.        *)
LEMMA KeptSelects ==
  ASSUME NEW S, NEW s \in Seq(S), NEW I
  PROVE  Kept(s, I) \in Seq(S) /\ \E h : Selects(h, Kept(s, I), s, I)
  <1> DEFINE C == CHOOSE F : IsUp(F, s, I)
  <1>1. IsUp(C, s, I)
    BY UpDefined
  <1>2. Kept(s, I) = C[Len(s)]
    BY DEF Kept, IsUp, Step
  <1> HIDE DEF C
  <1> QED BY <1>1, <1>2, UpSelects

(* The turns of the loop, and one more.                                    *)
LEMMA KeptUp ==
  ASSUME NEW S, NEW s \in Seq(S), NEW I
  PROVE  \E F : /\ F[0] = <<>>
                /\ \A n \in 1..Len(s) :
                     F[n] = IF n \in I THEN Append(F[n - 1], s[n]) ELSE F[n - 1]
                /\ Kept(s, I) = F[Len(s)]
  <1> Len(s) \in Nat
    OBVIOUS
  <1> DEFINE C == CHOOSE F : IsUp(F, s, I)
  <1>1. IsUp(C, s, I)
    BY UpDefined
  <1>2. Kept(s, I) = C[Len(s)]
    BY DEF Kept, IsUp, Step
  <1> HIDE DEF C
  <1>3. /\ C[0] = <<>>
        /\ \A n \in 1..Len(s) : C[n] = IF n \in I THEN Append(C[n - 1], s[n]) ELSE C[n - 1]
    <2>1. \A n \in 0..Len(s) : C[n] = IF n = 0 THEN <<>> ELSE Step(C, s, I, n)
      BY <1>1 DEF IsUp
    <2>2. 0 \in 0..Len(s) /\ \A n \in 1..Len(s) : n \in 0..Len(s) /\ n # 0
      OBVIOUS
    <2> QED BY <2>1, <2>2 DEF Step
  <1> QED BY <1>2, <1>3

LEMMA KeptAppend ==
  ASSUME NEW S, NEW s \in Seq(S), NEW x \in S, NEW I, NEW J,
         \A i \in 1..Len(s) : i \in J <=> i \in I
  PROVE  Kept(Append(s, x), J) =
           IF Len(s) + 1 \in J THEN Append(Kept(s, I), x) ELSE Kept(s, I)
  <1> DEFINE q == Append(s, x)
  <1>1. /\ q \in Seq(S) /\ Len(q) = Len(s) + 1 /\ Len(s) \in Nat
        /\ \A i \in 1..Len(s) : q[i] = s[i]
        /\ q[Len(s) + 1] = x
    BY AppendProperties
  <1> HIDE DEF q
  <1>2. PICK E : /\ E[0] = <<>>
                 /\ \A n \in 1..Len(s) :
                      E[n] = IF n \in I THEN Append(E[n - 1], s[n]) ELSE E[n - 1]
                 /\ Kept(s, I) = E[Len(s)]
    BY KeptUp
  <1>3. PICK F : /\ F[0] = <<>>
                 /\ \A n \in 1..Len(q) :
                      F[n] = IF n \in J THEN Append(F[n - 1], q[n]) ELSE F[n - 1]
                 /\ Kept(q, J) = F[Len(q)]
    BY <1>1, KeptUp
  <1> DEFINE G == {n \in 0..Len(s) : F[n] = E[n]}
  <1>4. 0 \in G
    BY <1>1, <1>2, <1>3
  <1>5. ASSUME NEW n \in 0..(Len(s) - 1), n \in G PROVE n + 1 \in G
    <2>1. /\ n + 1 \in 1..Len(s) /\ n + 1 \in 1..Len(q) /\ (n + 1) - 1 = n /\ n + 1 \in 0..Len(s)
          /\ F[n] = E[n] /\ q[n + 1] = s[n + 1]
      BY <1>1, <1>5
    <2>2. F[n + 1] = IF n + 1 \in J THEN Append(F[n], q[n + 1]) ELSE F[n]
      BY <1>3, <2>1
    <2>3. E[n + 1] = IF n + 1 \in I THEN Append(E[n], s[n + 1]) ELSE E[n]
      BY <1>2, <2>1
    <2>4. F[n + 1] = E[n + 1]
      BY <2>1, <2>2, <2>3
    <2> QED BY <2>1, <2>4
  <1>6. F[Len(s)] = E[Len(s)]
    <2>1. \A n \in 0..(Len(s) - 1) : n \in G => n + 1 \in G
      BY <1>5
    <2>2. Len(s) \in Nat /\ Len(s) \in 0..Len(s)
      BY <1>1
    <2>3. 0..Len(s) \subseteq G
      <3> HIDE DEF G
      <3> QED BY <1>4, <2>1, <2>2, CountUp
    <2> QED BY <2>2, <2>3
  <1>7. F[Len(s) + 1] = IF Len(s) + 1 \in J THEN Append(F[Len(s)], x) ELSE F[Len(s)]
    <2>1. Len(s) + 1 \in 1..Len(q) /\ (Len(s) + 1) - 1 = Len(s)
      BY <1>1
    <2> QED BY <1>1, <1>3, <2>1
  <1> QED BY <1>1, <1>2, <1>3, <1>6, <1>7 DEF q

(* What is kept from the start on stays where it is.                       *)
LEMMA SelectsPrefix ==
  ASSUME NEW S, NEW s \in Seq(S), NEW r \in Seq(S), NEW I, NEW h,
         Selects(h, r, s, I),
         NEW m \in 0..Len(s), \A k \in 1..m : k \in I
  PROVE  m <= Len(r) /\ \A k \in 1..m : h[k] = k /\ r[k] = s[k]
  <1> m \in Nat /\ Len(s) \in Nat /\ Len(r) \in Nat /\ DOMAIN s = 1..Len(s) /\ DOMAIN r = 1..Len(r)
    OBVIOUS
  <1>0. \A i, j \in 1..Len(r) : i < j => h[i] < h[j]
    BY DEF Selects, Embeds
  <1> DEFINE G == {n \in 0..m : \A k \in 1..n : k \in 1..Len(r) /\ h[k] = k}
  <1>1. 0 \in G
    OBVIOUS
  <1>2. ASSUME NEW n \in 0..(m - 1), n \in G PROVE n + 1 \in G
    <2>1. n + 1 \in 1..m /\ n + 1 \in DOMAIN s /\ n + 1 \in I
      OBVIOUS
    <2>2. PICK i \in 1..Len(r) : h[i] = n + 1
      BY <2>1 DEF Selects
    <2>3. ~ (i <= n)
      BY <1>2, <2>2
    <2>4. n + 1 \in 1..Len(r) /\ h[n + 1] \in 1..Len(s)
      BY <2>3, <2>2 DEF Selects, Embeds
    <2>5. ASSUME n >= 1 PROVE n \in 1..Len(r) /\ h[n] = n /\ h[n] < h[n + 1]
      <3>1. n \in 1..n
        BY <2>5
      <3>2. n \in 1..Len(r) /\ h[n] = n
        BY <1>2, <3>1
      <3>3. h[n] < h[n + 1]
        BY <1>0, <3>2, <2>4
      <3> QED BY <3>2, <3>3
    <2>6. h[n + 1] >= n + 1
      BY <2>4, <2>5
    <2>7. i > n + 1 => h[n + 1] < h[i]
      BY <2>2, <2>4 DEF Selects, Embeds
    <2>8. i = n + 1
      BY <2>2, <2>3, <2>6, <2>7, <2>4
    <2>9. \A k \in 1..(n + 1) : k \in 1..n \/ k = n + 1
      OBVIOUS
    <2> QED BY <1>2, <2>2, <2>8, <2>4, <2>9, <2>1
  <1>3. m \in G
    <2>1. \A n \in 0..(m - 1) : n \in G => n + 1 \in G
      BY <1>2
    <2> HIDE DEF G
    <2>2. 0..m \subseteq G
      BY <1>1, <2>1, CountUp
    <2> QED BY <2>2
  <1>4. \A k \in 1..m : k \in 1..Len(r) /\ h[k] = k
    BY <1>3
  <1>5. m <= Len(r)
    <2>1. CASE m = 0
      BY <2>1
    <2>2. CASE m # 0
      BY <1>4, <2>2, m \in 1..m
    <2> QED BY <2>1, <2>2
  <1> QED BY <1>4, <1>5 DEF Selects, Embeds

(* Neighbours that are both kept stay neighbours.                          *)
LEMMA SelectsNext ==
  ASSUME NEW S, NEW s \in Seq(S), NEW r \in Seq(S), NEW I, NEW h,
         Selects(h, r, s, I),
         NEW i \in DOMAIN r, h[i] + 1 \in DOMAIN s, h[i] + 1 \in I
  PROVE  i + 1 \in DOMAIN r /\ h[i + 1] = h[i] + 1
  <1> Len(s) \in Nat /\ Len(r) \in Nat /\ DOMAIN s = 1..Len(s) /\ DOMAIN r = 1..Len(r)
    OBVIOUS
  <1>1. PICK j \in 1..Len(r) : h[j] = h[i] + 1
    BY DEF Selects
  <1>2. \A k, l \in 1..Len(r) : k < l => h[k] < h[l]
    BY DEF Selects, Embeds
  <1>3. \A k \in 1..Len(r) : h[k] \in 1..Len(s)
    BY DEF Selects, Embeds
  <1>4. ~ (j < i) /\ j # i
    BY <1>1, <1>2, <1>3
  <1>5. i + 1 \in 1..Len(r)
    BY <1>4
  <1>6. h[i] < h[i + 1]
    BY <1>2, <1>5
  <1>7. ~ (i + 1 < j)
    BY <1>1, <1>2, <1>3, <1>5, <1>6
  <1>8. j = i + 1
    BY <1>4, <1>5, <1>7
  <1> QED BY <1>1, <1>5, <1>8

(* The elements of s at the positions in I.                                *)
At(s, I) == {s[k] : k \in I \cap DOMAIN s}

(* Nothing else is kept.                                                   *)
LEMMA KeptAmong ==
  ASSUME NEW S, NEW s \in Seq(S), NEW I
  PROVE  Kept(s, I) \in Seq(At(s, I))
  <1> Len(s) \in Nat /\ DOMAIN s = 1..Len(s)
    OBVIOUS
  <1>1. PICK F : /\ F[0] = <<>>
                 /\ \A n \in 1..Len(s) :
                      F[n] = IF n \in I THEN Append(F[n - 1], s[n]) ELSE F[n - 1]
                 /\ Kept(s, I) = F[Len(s)]
    BY KeptUp
  <1> DEFINE G == {n \in 0..Len(s) : F[n] \in Seq(At(s, I))}
  <1>2. 0 \in G
    <2>1. <<>> \in Seq(At(s, I)) /\ 0 \in 0..Len(s)
      BY EmptySeq
    <2> QED BY <1>1, <2>1
  <1>3. ASSUME NEW n \in 0..(Len(s) - 1), n \in G PROVE n + 1 \in G
    <2>1. n + 1 \in 1..Len(s) /\ (n + 1) - 1 = n /\ n + 1 \in 0..Len(s) /\ F[n] \in Seq(At(s, I))
      BY <1>3
    <2>2. n + 1 \in I => s[n + 1] \in At(s, I)
      BY <2>1 DEF At
    <2>3. F[n + 1] = IF n + 1 \in I THEN Append(F[n], s[n + 1]) ELSE F[n]
      BY <1>1, <2>1
    <2>4. F[n + 1] \in Seq(At(s, I))
      BY <2>1, <2>2, <2>3, AppendProperties
    <2> QED BY <2>1, <2>4
  <1>4. Len(s) \in G
    <2>1. \A n \in 0..(Len(s) - 1) : n \in G => n + 1 \in G
      BY <1>3
    <2> HIDE DEF G
    <2> QED BY <1>2, <2>1, CountUp, Len(s) \in 0..Len(s)
  <1> QED BY <1>1, <1>4

(* All is kept when all of it is meant.                                    *)
LEMMA KeptAll ==
  ASSUME NEW S, NEW s \in Seq(S), NEW I, DOMAIN s \subseteq I
  PROVE  Kept(s, I) = s
  <1> Len(s) \in Nat /\ DOMAIN s = 1..Len(s)
    OBVIOUS
  <1>1. PICK F : /\ F[0] = <<>>
                 /\ \A n \in 1..Len(s) :
                      F[n] = IF n \in I THEN Append(F[n - 1], s[n]) ELSE F[n - 1]
                 /\ Kept(s, I) = F[Len(s)]
    BY KeptUp
  <1> DEFINE G == {n \in 0..Len(s) : /\ F[n] \in Seq(S) /\ Len(F[n]) = n
                                     /\ \A k \in 1..n : F[n][k] = s[k]}
  <1>2. 0 \in G
    <2>1. <<>> \in Seq(S) /\ Len(<<>>) = 0 /\ 0 \in 0..Len(s) /\ 1..0 = {}
      BY EmptySeq
    <2> QED BY <1>1, <2>1
  <1>3. ASSUME NEW n \in 0..(Len(s) - 1), n \in G PROVE n + 1 \in G
    <2>1. /\ n + 1 \in 1..Len(s) /\ (n + 1) - 1 = n /\ n + 1 \in 0..Len(s)
          /\ F[n] \in Seq(S) /\ Len(F[n]) = n /\ \A k \in 1..n : F[n][k] = s[k]
      BY <1>3
    <2>2. F[n + 1] = Append(F[n], s[n + 1]) /\ s[n + 1] \in S
      <3>1. F[n + 1] = IF n + 1 \in I THEN Append(F[n], s[n + 1]) ELSE F[n]
        BY <1>1, <2>1
      <3>2. n + 1 \in I
        BY <2>1
      <3> QED BY <2>1, <3>1, <3>2
    <2>3. /\ F[n + 1] \in Seq(S) /\ Len(F[n + 1]) = n + 1
          /\ \A k \in 1..n : F[n + 1][k] = F[n][k]
          /\ F[n + 1][n + 1] = s[n + 1]
      BY <2>1, <2>2, AppendProperties
    <2>4. \A k \in 1..(n + 1) : F[n + 1][k] = s[k]
      <3>1. \A k \in 1..(n + 1) : k \in 1..n \/ k = n + 1
        OBVIOUS
      <3> QED BY <2>1, <2>3, <3>1
    <2> QED BY <2>1, <2>3, <2>4
  <1>4. Len(s) \in G
    <2>1. \A n \in 0..(Len(s) - 1) : n \in G => n + 1 \in G
      BY <1>3
    <2> HIDE DEF G
    <2> QED BY <1>2, <2>1, CountUp, Len(s) \in 0..Len(s)
  <1>5. F[Len(s)] \in Seq(S) /\ Len(F[Len(s)]) = Len(s) /\ \A k \in 1..Len(s) : F[Len(s)][k] = s[k]
    BY <1>4
  <1> QED BY <1>1, <1>5, SeqEqual

(* Nothing is kept of nothing.                                             *)
LEMMA KeptNothing ==
  ASSUME NEW I
  PROVE  Kept(<<>>, I) = <<>>
  <1> DEFINE e == <<>>
  <1>1. e \in Seq({}) /\ Len(e) = 0
    BY EmptySeq
  <1>2. \A r \in Seq({}) : r = e
    <2>1. SUFFICES ASSUME NEW r \in Seq({}) PROVE Len(r) = 0
      BY EmptySeq
    <2>2. Len(r) \in Nat /\ \A i \in 1..Len(r) : r[i] \in {}
      OBVIOUS
    <2>3. ~ (1 \in 1..Len(r))
      BY <2>2
    <2> QED BY <2>2, <2>3
  <1> HIDE DEF e
  <1>3. Kept(e, I) \in Seq({})
    BY ONLY <1>1, KeptSelects
  <1> QED BY <1>2, <1>3 DEF e

(* AppendProperties, for a list that may be empty.                         *)
LEMMA Appended ==
  ASSUME NEW S, NEW s \in Seq(S), NEW x \in S
  PROVE /\ Append(s, x) \in Seq(S) /\ Append(s, x) # <<>>
        /\ Len(Append(s, x)) = Len(s) + 1 /\ Append(s, x)[Len(s) + 1] = x
  BY AppendProperties
=============================================================================
