--------------------------- MODULE SequenceLemmas ---------------------------
(***************************************************************************)
(* What several proofs need to know of sequences: bounded induction stated *)
(* with sets, extrema of bounded sets, the part of a sequence at given     *)
(* places, sequences put one after the other, and an enumeration of a      *)
(* finite set.                                                             *)
(***************************************************************************)
EXTENDS Sections, FiniteSetTheorems, WellFoundedInduction, TLAPS

(* A nonempty set of bounded naturals has a least element: the intervals   *)
(* below its elements are well-founded by inclusion.                       *)
LEMMA Least ==
    ASSUME NEW N \in Nat, NEW T, T \subseteq 0 .. N, T # {}
    PROVE  \E m \in T : \A n \in T : m <= n
<1> DEFINE Below == {0 .. n : n \in T}
<1>1. IsFiniteSet(0 .. N)
  BY FS_Interval
<1>2. Below \subseteq FiniteSubsetsOf(0 .. N) /\ Below # {}
  <2>1. \A n \in T : 0 .. n \subseteq 0 .. N /\ n \in Nat
    OBVIOUS
  <2>2. \A n \in T : IsFiniteSet(0 .. n)
    BY <2>1, FS_Interval
  <2>3. QED
    BY <2>1, <2>2 DEF FiniteSubsetsOf
<1>3. PICK X \in Below : \A Y \in Below : ~(<<Y, X>> \in StrictSubsetOrdering(0 .. N))
  BY <1>2, FS_StrictSubsetOrderingWellFounded, WFMin
<1>4. PICK m \in T : X = 0 .. m
  OBVIOUS
<1>5. ASSUME NEW n \in T PROVE m <= n
  <2>1. ~(0 .. n \subseteq 0 .. m /\ 0 .. n # 0 .. m)
    <3>1. X \in SUBSET (0 .. N) /\ 0 .. n \in SUBSET (0 .. N) /\ 0 .. n \in Below
      BY <1>2 DEF FiniteSubsetsOf
    <3>2. ~(<<0 .. n, X>> \in StrictSubsetOrdering(0 .. N))
      BY <1>3, <3>1
    <3> HIDE DEF Below
    <3>3. QED
      BY <3>1, <3>2, <1>4 DEF StrictSubsetOrdering
  <2>2. m \in Nat /\ n \in Nat
    OBVIOUS
  <2>3. CASE n < m
    <3>1. 0 .. n \subseteq 0 .. m
      BY <2>2, <2>3
    <3>2. m \in 0 .. m /\ m \notin 0 .. n
      BY <2>2, <2>3
    <3>3. QED
      BY <2>1, <3>1, <3>2
  <2>4. QED
    BY <2>2, <2>3
<1>6. QED
  BY <1>5

(* What holds at 0 and goes on from n to n + 1 holds up to N. *)
LEMMA Climb ==
    ASSUME NEW N \in Nat, NEW T, 0 \in T, \A n \in 0 .. N : n \in T /\ n < N => n + 1 \in T
    PROVE  0 .. N \subseteq T
<1> SUFFICES ASSUME (0 .. N) \ T # {} PROVE FALSE
  OBVIOUS
<1>1. PICK m \in (0 .. N) \ T : \A n \in (0 .. N) \ T : m <= n
  <2>1. (0 .. N) \ T \subseteq 0 .. N
    OBVIOUS
  <2>2. QED
    BY <2>1, Least
<1>2. m # 0 /\ m - 1 \in 0 .. N /\ m - 1 < N /\ (m - 1) + 1 = m /\ ~(m <= m - 1)
  OBVIOUS
<1>3. m - 1 \in T
  BY <1>1, <1>2
<1>4. QED
  BY <1>2, <1>3

-----------------------------------------------------------------------------
(* The recursive function AtPlacesUpTo(s, places) exists.                  *)
LEMMA AtPlacesUnfolds ==
    ASSUME NEW s, NEW places, Len(s) \in Nat
    PROVE  LET u == AtPlacesUpTo(s, places)
           IN  u = [n \in 0 .. Len(s) |->
                      IF n = 0 THEN <<>>
                      ELSE IF n \in places THEN Append(u[n - 1], s[n]) ELSE u[n - 1]]
<1> DEFINE N == Len(s)
           More(x, n) == IF n \in places THEN Append(x, s[n]) ELSE x
           Fits(g, m) == g = [n \in 0 .. m |-> IF n = 0 THEN <<>> ELSE More(g[n - 1], n)]
           T == {m \in 0 .. N : \E g : Fits(g, m)}
<1>1. 0 \in T
  <2>1. Fits([n \in 0 .. 0 |-> <<>>], 0)
    OBVIOUS
  <2> HIDE DEF Fits
  <2>2. 0 \in 0 .. N
    OBVIOUS
  <2>3. QED
    BY <2>1, <2>2
<1>2. ASSUME NEW m \in 0 .. N, m \in T, m < N PROVE m + 1 \in T
  <2>1. PICK g : Fits(g, m)
    BY <1>2
  <2> DEFINE h == [n \in 0 .. m + 1 |-> IF n <= m THEN g[n] ELSE More(g[m], m + 1)]
  <2>2. \A n \in 0 .. m + 1 : h[n] = IF n = 0 THEN <<>> ELSE More(h[n - 1], n)
    <3> SUFFICES ASSUME NEW n \in 0 .. m + 1
                 PROVE  h[n] = IF n = 0 THEN <<>> ELSE More(h[n - 1], n)
      OBVIOUS
    <3>1. CASE n = 0
      BY <2>1, <3>1
    <3>2. CASE n # 0 /\ n <= m
      <4>1. n \in 0 .. m /\ n - 1 \in 0 .. m + 1 /\ n - 1 <= m
        BY <3>2
      <4>2. h[n] = g[n] /\ h[n - 1] = g[n - 1]
        BY <3>2, <4>1
      <4>3. g[n] = More(g[n - 1], n)
        BY <2>1, <3>2, <4>1
      <4> HIDE DEF h
      <4>4. QED
        BY <3>2, <4>2, <4>3
    <3>3. CASE n = m + 1
      <4>1. n # 0 /\ ~(n <= m) /\ n - 1 = m /\ m \in 0 .. m + 1 /\ m <= m
        BY <3>3
      <4>2. h[n] = More(g[m], m + 1) /\ h[m] = g[m]
        BY <4>1
      <4> HIDE DEF h
      <4>3. QED
        BY <3>3, <4>1, <4>2
    <3>4. QED
      BY <3>1, <3>2, <3>3
  <2>3. Fits(h, m + 1)
    <3>1. h = [n \in 0 .. m + 1 |-> h[n]]
      OBVIOUS
    <3> HIDE DEF h
    <3>2. QED
      BY <2>2, <3>1
  <2> HIDE DEF h, Fits
  <2>4. QED
    BY <1>2, <2>3
<1>3. N \in 0 .. N /\ 0 .. N \subseteq T
  <2> HIDE DEF T
  <2>1. QED
    BY <1>1, <1>2, Climb
<1>4. \E g : Fits(g, N)
  <2> HIDE DEF Fits
  <2>1. QED
    BY <1>3
<1>5. AtPlacesUpTo(s, places) = CHOOSE g : Fits(g, N)
  BY DEF AtPlacesUpTo
<1>6. Fits(AtPlacesUpTo(s, places), N)
  <2> HIDE DEF Fits
  <2>1. QED
    BY <1>4, <1>5
<1>7. QED
  BY <1>6

(* The part at given places is a sequence of the elements at these places. *)
LEMMA AtPlacesType ==
    ASSUME NEW S, NEW s \in Seq(S), NEW places
    PROVE  AtPlaces(s, places) \in Seq({s[k] : k \in places \cap DOMAIN s})
<1> DEFINE N == Len(s)
           u == AtPlacesUpTo(s, places)
           At == {s[k] : k \in places \cap DOMAIN s}
           T == {n \in 0 .. N : u[n] \in Seq(At)}
<1>1. N \in Nat /\ DOMAIN s = 1 .. N
  OBVIOUS
<1>2. /\ u[0] = <<>>
      /\ \A n \in 0 .. N : n < N =>
           u[n + 1] = IF n + 1 \in places THEN Append(u[n], s[n + 1]) ELSE u[n]
  <2>1. u = [n \in 0 .. N |-> IF n = 0 THEN <<>>
                              ELSE IF n \in places THEN Append(u[n - 1], s[n]) ELSE u[n - 1]]
    BY <1>1, AtPlacesUnfolds
  <2>2. /\ 0 \in 0 .. N
        /\ \A n \in 0 .. N : n < N => n + 1 \in 0 .. N /\ n + 1 # 0 /\ (n + 1) - 1 = n
    BY <1>1
  <2> HIDE DEF u, N
  <2>3. u[0] = <<>>
    BY <2>1, <2>2
  <2>4. QED
    BY <2>1, <2>2, <2>3
<1>3. \A n \in 1 .. N : n \in places => s[n] \in At
  BY <1>1
<1> HIDE DEF u, N, At
<1>4. 0 \in T
  <2>1. 0 \in 0 .. N /\ u[0] \in Seq(At)
    BY <1>1, <1>2
  <2>2. QED
    BY <2>1
<1>5. ASSUME NEW n \in 0 .. N, n \in T, n < N PROVE n + 1 \in T
  <2>1. n + 1 \in 1 .. N /\ n + 1 \in 0 .. N
    BY <1>1, <1>5
  <2>2. u[n + 1] = IF n + 1 \in places THEN Append(u[n], s[n + 1]) ELSE u[n]
    BY <1>2, <1>5
  <2>3. u[n] \in Seq(At) /\ (n + 1 \in places => s[n + 1] \in At)
    BY <1>3, <1>5, <2>1
  <2>4. u[n + 1] \in Seq(At)
    BY <2>2, <2>3
  <2>5. QED
    BY <2>1, <2>4
<1>6. 0 .. N \subseteq T
  <2> HIDE DEF T
  <2>1. QED
    BY <1>1, <1>4, <1>5, Climb
<1>7. QED
  BY <1>1, <1>6 DEF AtPlaces, u, N, At

(* Two sequences and the places chosen of them agree up to n.              *)
Agree(s, P, t, Q, n) == \A k \in 1 .. n : s[k] = t[k] /\ (k \in P <=> k \in Q)

(* Where two sequences and the places agree, so do the parts.              *)
LEMMA AtPlacesAgree ==
    ASSUME NEW s, NEW t, Len(s) \in Nat, Len(t) \in Nat, NEW P, NEW Q,
           NEW n \in 0 .. Len(s), n <= Len(t), Agree(s, P, t, Q, n)
    PROVE  AtPlacesUpTo(s, P)[n] = AtPlacesUpTo(t, Q)[n]
<1> DEFINE u == AtPlacesUpTo(s, P)
           v == AtPlacesUpTo(t, Q)
           T == {k \in 0 .. n : u[k] = v[k]}
<1>1. Len(s) \in Nat /\ Len(t) \in Nat /\ n \in Nat /\ n <= Len(s)
  OBVIOUS
<1>2. /\ u[0] = <<>> /\ v[0] = <<>>
      /\ \A k \in 0 .. n : k < n =>
           /\ u[k + 1] = IF k + 1 \in P THEN Append(u[k], s[k + 1]) ELSE u[k]
           /\ v[k + 1] = IF k + 1 \in Q THEN Append(v[k], t[k + 1]) ELSE v[k]
  <2>1. u = [k \in 0 .. Len(s) |-> IF k = 0 THEN <<>>
                              ELSE IF k \in P THEN Append(u[k - 1], s[k]) ELSE u[k - 1]]
    BY <1>1, AtPlacesUnfolds
  <2>2. v = [k \in 0 .. Len(t) |-> IF k = 0 THEN <<>>
                              ELSE IF k \in Q THEN Append(v[k - 1], t[k]) ELSE v[k - 1]]
    BY <1>1, AtPlacesUnfolds
  <2>3. /\ 0 \in 0 .. Len(s) /\ 0 \in 0 .. Len(t)
        /\ \A k \in 0 .. n : k < n => /\ k + 1 \in 0 .. Len(s) /\ k + 1 \in 0 .. Len(t)
                                      /\ k + 1 # 0 /\ (k + 1) - 1 = k
    BY <1>1
  <2> HIDE DEF u, v
  <2>4. u[0] = <<>> /\ v[0] = <<>>
    BY <2>1, <2>2, <2>3
  <2>5. ASSUME NEW k \in 0 .. n, k < n
        PROVE  /\ u[k + 1] = IF k + 1 \in P THEN Append(u[k], s[k + 1]) ELSE u[k]
               /\ v[k + 1] = IF k + 1 \in Q THEN Append(v[k], t[k + 1]) ELSE v[k]
    <3>1. /\ k + 1 \in 0 .. Len(s) /\ k + 1 \in 0 .. Len(t)
          /\ k + 1 # 0 /\ (k + 1) - 1 = k
      BY <2>3, <2>5
    <3>2. u[k + 1] = IF k + 1 \in P THEN Append(u[(k + 1) - 1], s[k + 1]) ELSE u[(k + 1) - 1]
      BY <2>1, <3>1
    <3>3. v[k + 1] = IF k + 1 \in Q THEN Append(v[(k + 1) - 1], t[k + 1]) ELSE v[(k + 1) - 1]
      BY <2>2, <3>1
    <3>4. QED
      BY <3>1, <3>2, <3>3
  <2>6. QED
    BY <2>4, <2>5
<1> HIDE DEF u, v
<1>3. 0 \in T
  <2>1. 0 \in 0 .. n /\ u[0] = v[0]
    BY <1>1, <1>2
  <2>2. QED
    BY <2>1
<1>4. ASSUME NEW k \in 0 .. n, k \in T, k < n PROVE k + 1 \in T
  <2>1. k + 1 \in 1 .. n /\ k + 1 \in 0 .. n
    BY <1>1, <1>4
  <2>2. s[k + 1] = t[k + 1] /\ (k + 1 \in P <=> k + 1 \in Q) /\ u[k] = v[k]
    BY <1>4, <2>1 DEF Agree
  <2>3. u[k + 1] = v[k + 1]
    BY <1>2, <1>4, <2>2
  <2>4. QED
    BY <2>1, <2>3
<1>5. 0 .. n \subseteq T
  <2> HIDE DEF T
  <2>1. QED
    BY <1>1, <1>3, <1>4, Climb
<1>6. QED
  BY <1>1, <1>5 DEF u, v

(* One element more is chosen or not; the part of the others stays.        *)
LEMMA AtPlacesLonger ==
    ASSUME NEW s, NEW t, Len(s) \in Nat, Len(t) = Len(s) + 1, NEW P, NEW Q,
           Agree(s, P, t, Q, Len(s))
    PROVE  AtPlaces(t, Q) = IF Len(t) \in Q THEN Append(AtPlaces(s, P), t[Len(t)])
                            ELSE AtPlaces(s, P)
<1> DEFINE n == Len(s)
           v == AtPlacesUpTo(t, Q)
<1>1. n \in Nat /\ Len(t) \in Nat /\ Len(t) = n + 1
  OBVIOUS
<1>2. v = [k \in 0 .. Len(t) |-> IF k = 0 THEN <<>>
                                 ELSE IF k \in Q THEN Append(v[k - 1], t[k]) ELSE v[k - 1]]
  BY <1>1, AtPlacesUnfolds
<1>3. AtPlacesUpTo(s, P)[n] = v[n]
  <2>1. n \in 0 .. Len(s) /\ n <= Len(t)
    BY <1>1
  <2>2. Agree(s, P, t, Q, n)
    OBVIOUS
  <2>3. AtPlacesUpTo(s, P)[n] = AtPlacesUpTo(t, Q)[n]
    BY <1>1, <2>1, <2>2, AtPlacesAgree
  <2>4. QED
    BY <2>3
<1> HIDE DEF v
<1>4. v[n + 1] = IF n + 1 \in Q THEN Append(v[n], t[n + 1]) ELSE v[n]
  <2>1. n + 1 \in 0 .. Len(t) /\ n + 1 # 0 /\ (n + 1) - 1 = n
    BY <1>1
  <2>2. v[n + 1] = IF n + 1 \in Q THEN Append(v[(n + 1) - 1], t[n + 1]) ELSE v[(n + 1) - 1]
    BY <1>2, <2>1
  <2>3. QED
    BY <2>1, <2>2
<1>5. AtPlaces(t, Q) = v[n + 1] /\ AtPlaces(s, P) = v[n]
  BY <1>1, <1>3 DEF AtPlaces, v
<1>6. QED
  BY <1>1, <1>4, <1>5

(* Every element at a chosen place is in the part.                         *)
LEMMA AtPlacesRange ==
    ASSUME NEW S, NEW s \in Seq(S), NEW places
    PROVE  Range(AtPlaces(s, places)) = {s[k] : k \in places \cap DOMAIN s}
<1> DEFINE N == Len(s)
           u == AtPlacesUpTo(s, places)
           At == {s[k] : k \in places \cap DOMAIN s}
           Has(x, n) == \A k \in 1 .. n : k \in places => \E i \in DOMAIN x : x[i] = s[k]
           T == {n \in 0 .. N : u[n] \in Seq(S) /\ Has(u[n], n)}
<1>1. N \in Nat /\ DOMAIN s = 1 .. N /\ \A k \in 1 .. N : s[k] \in S
  OBVIOUS
<1>2. u = [n \in 0 .. N |-> IF n = 0 THEN <<>>
                            ELSE IF n \in places THEN Append(u[n - 1], s[n]) ELSE u[n - 1]]
  BY <1>1, AtPlacesUnfolds
<1> HIDE DEF u, N
<1>3. u[0] = <<>>
  BY <1>1, <1>2
<1>4. \A n \in 0 .. N : n < N =>
        u[n + 1] = IF n + 1 \in places THEN Append(u[n], s[n + 1]) ELSE u[n]
  <2> SUFFICES ASSUME NEW n \in 0 .. N, n < N
               PROVE  u[n + 1] = IF n + 1 \in places THEN Append(u[n], s[n + 1]) ELSE u[n]
    OBVIOUS
  <2>1. n + 1 \in 0 .. N /\ n + 1 # 0 /\ (n + 1) - 1 = n
    BY <1>1
  <2>2. u[n + 1] = IF n + 1 \in places THEN Append(u[(n + 1) - 1], s[n + 1]) ELSE u[(n + 1) - 1]
    BY <1>2, <2>1
  <2>3. QED
    BY <2>1, <2>2
<1>5. 0 \in T
  <2>1. 0 \in 0 .. N /\ u[0] \in Seq(S) /\ 1 .. 0 = {}
    BY <1>1, <1>3
  <2>2. Has(u[0], 0)
    BY <2>1
  <2>3. QED
    BY <2>1, <2>2
<1>6. ASSUME NEW n \in 0 .. N, n \in T, n < N PROVE n + 1 \in T
  <2>1. u[n] \in Seq(S) /\ Has(u[n], n) /\ n + 1 \in 1 .. N /\ n \in Nat
    BY <1>1, <1>6
  <2>2. s[n + 1] \in S
    BY <1>1, <2>1
  <2> DEFINE x == u[n]
             y == u[n + 1]
  <2>3. y = IF n + 1 \in places THEN Append(x, s[n + 1]) ELSE x
    BY <1>4, <1>6
  <2> HIDE DEF x, y
  <2>4. x \in Seq(S) /\ Has(x, n)
    BY <2>1 DEF x
  <2>5. y \in Seq(S)
    BY <2>2, <2>3, <2>4
  <2>6. Has(y, n + 1)
    <3> SUFFICES ASSUME NEW k \in 1 .. n + 1, k \in places PROVE \E i \in DOMAIN y : y[i] = s[k]
      OBVIOUS
    <3>1. CASE k = n + 1
      <4>1. y = Append(x, s[k])
        BY <2>3, <3>1
      <4>2. Len(x) + 1 \in DOMAIN y /\ y[Len(x) + 1] = s[k]
        BY <2>2, <2>4, <3>1, <4>1
      <4>3. QED
        BY <4>2
    <3>2. CASE k # n + 1
      <4>1. k \in 1 .. n
        BY <2>1, <3>2
      <4>2. PICK i \in DOMAIN x : x[i] = s[k]
        BY <2>4, <4>1
      <4>3. i \in DOMAIN y /\ y[i] = x[i]
        BY <2>2, <2>3, <2>4, <4>2
      <4>4. QED
        BY <4>2, <4>3
    <3>3. QED
      BY <3>1, <3>2
  <2>7. y \in Seq(S) /\ Has(y, n + 1) /\ n + 1 \in 0 .. N
    BY <2>1, <2>5, <2>6
  <2>8. QED
    BY <2>7 DEF y
<1>7. 0 .. N \subseteq T
  <2> HIDE DEF T
  <2>1. QED
    BY <1>1, <1>5, <1>6, Climb DEF N
<1>8. Has(u[N], N)
  BY <1>1, <1>7
<1>9. AtPlaces(s, places) = u[N]
  BY DEF AtPlaces, u, N
<1>10. At \subseteq Range(AtPlaces(s, places))
  BY <1>1, <1>8, <1>9 DEF Range
<1>11. AtPlaces(s, places) \in Seq(At)
  BY AtPlacesType
<1>12. Range(AtPlaces(s, places)) \subseteq At
  <2> HIDE DEF At
  <2>1. QED
    BY <1>11 DEF Range
<1>13. QED
  BY <1>10, <1>12

-----------------------------------------------------------------------------
(* A nonempty set of bounded naturals has its greatest element.            *)
LEMMA GreatestIn ==
    ASSUME NEW N \in Nat, NEW T, T \subseteq 1 .. N, T # {}
    PROVE  MaxOfSet(T) \in T /\ \A y \in T : MaxOfSet(T) >= y
<1> DEFINE U == {N - x : x \in T}
<1>1. U \subseteq 0 .. N /\ U # {}
  <2>1. \A x \in T : x \in Nat /\ 1 <= x /\ x <= N
    OBVIOUS
  <2>2. ASSUME NEW x \in T PROVE N - x \in 0 .. N
    BY <2>1
  <2>3. QED
    BY <2>2
<1>2. PICK u \in U : \A y \in U : u <= y
  <2> HIDE DEF U
  <2>1. QED
    BY <1>1, Least
<1>3. PICK x \in T : u = N - x
  OBVIOUS
<1>4. ASSUME NEW y \in T PROVE x >= y
  <2>1. N - y \in U
    OBVIOUS
  <2>2. N - x <= N - y
    BY <1>2, <1>3, <2>1
  <2>3. x \in Int /\ y \in Int
    OBVIOUS
  <2>4. QED
    BY <2>2, <2>3
<1>5. QED
  BY <1>4 DEF MaxOfSet

(* An enumeration of a finite set has each element once.                   *)
LEMMA Enumerated ==
    ASSUME NEW S, IsFiniteSet(S)
    PROVE  /\ SetToSeq(S) \in Seq(S) /\ Range(SetToSeq(S)) = S
           /\ \A i, k \in DOMAIN SetToSeq(S) : SetToSeq(S)[i] = SetToSeq(S)[k] => i = k
<1> DEFINE n == Cardinality(S)
           f == SetToSeq(S)
<1>1. n \in Nat /\ \E g \in [1 .. n -> S] : IsInjective(g)
  BY FS_CardinalityType DEF ExistsBijection, Bijection, Injection
<1>2. f \in Injection(1 .. n, S)
  BY <1>1 DEF SetToSeq, Injection
<1>3. IsFiniteSet(1 .. n) /\ Cardinality(1 .. n) = n
  BY <1>1, FS_Interval
<1>4. f \in Surjection(1 .. n, S)
  BY <1>2, <1>3, FS_Injection
<1> HIDE DEF f, n
<1>5. f \in [1 .. n -> S] /\ (\A i, k \in 1 .. n : f[i] = f[k] => i = k) /\ \A x \in S : \E i \in 1 .. n : f[i] = x
  BY <1>2, <1>4 DEF Injection, Surjection, IsInjective
<1>6. f \in Seq(S) /\ DOMAIN f = 1 .. n
  BY <1>1, <1>5
<1>7. Range(f) = S
  BY <1>5, <1>6 DEF Range
<1>8. QED
  BY <1>5, <1>6, <1>7 DEF f

(* A nonempty set of bounded naturals has its least element.               *)
LEMMA LeastIn ==
    ASSUME NEW N \in Nat, NEW T, T \subseteq 0 .. N, T # {}
    PROVE  MinOfSet(T) \in T /\ \A y \in T : MinOfSet(T) <= y
<1>1. PICK m \in T : \A y \in T : m <= y
  BY Least
<1>2. QED
  BY <1>1 DEF MinOfSet

(* How AtPlacesUpTo goes on, step by step.                                 *)
LEMMA AtPlacesSteps ==
    ASSUME NEW S, NEW s \in Seq(S), NEW places
    PROVE  LET u == AtPlacesUpTo(s, places)
           IN  /\ u[0] = <<>> /\ AtPlaces(s, places) = u[Len(s)]
               /\ \A n \in 0 .. Len(s) : n < Len(s) =>
                    u[n + 1] = IF n + 1 \in places THEN Append(u[n], s[n + 1]) ELSE u[n]
<1> DEFINE N == Len(s)
           u == AtPlacesUpTo(s, places)
<1>1. N \in Nat
  OBVIOUS
<1>2. u = [n \in 0 .. N |-> IF n = 0 THEN <<>>
                            ELSE IF n \in places THEN Append(u[n - 1], s[n]) ELSE u[n - 1]]
  BY <1>1, AtPlacesUnfolds
<1>3. AtPlaces(s, places) = u[N]
  BY DEF AtPlaces
<1> HIDE DEF u, N
<1>4. u[0] = <<>>
  BY <1>1, <1>2
<1>5. ASSUME NEW n \in 0 .. N, n < N
      PROVE  u[n + 1] = IF n + 1 \in places THEN Append(u[n], s[n + 1]) ELSE u[n]
  <2>1. n + 1 \in 0 .. N /\ n + 1 # 0 /\ (n + 1) - 1 = n
    BY <1>1, <1>5
  <2>2. u[n + 1] = IF n + 1 \in places THEN Append(u[(n + 1) - 1], s[n + 1]) ELSE u[(n + 1) - 1]
    BY <1>2, <2>1
  <2>3. QED
    BY <2>1, <2>2
<1>6. QED
  BY <1>3, <1>4, <1>5 DEF u, N

(* Two sequences of one length have their elements at given places side by *)
(* side.                                                                   *)
LEMMA AtPlacesTogether ==
    ASSUME NEW S, NEW s \in Seq(S), NEW V, NEW t \in Seq(V), Len(t) = Len(s), NEW places
    PROVE  /\ Len(AtPlaces(s, places)) = Len(AtPlaces(t, places))
           /\ \A k \in 1 .. Len(AtPlaces(s, places)) : \E i \in places \cap DOMAIN s :
                AtPlaces(s, places)[k] = s[i] /\ AtPlaces(t, places)[k] = t[i]
<1> DEFINE N == Len(s)
           u == AtPlacesUpTo(s, places)
           v == AtPlacesUpTo(t, places)
           Beside(x, y) == /\ x \in Seq(S) /\ y \in Seq(V) /\ Len(x) = Len(y)
                           /\ \A k \in 1 .. Len(x) : \E i \in places \cap 1 .. N : x[k] = s[i] /\ y[k] = t[i]
           T == {n \in 0 .. N : Beside(u[n], v[n])}
<1>1. N \in Nat /\ DOMAIN s = 1 .. N /\ Len(t) = N /\ (\A k \in 1 .. N : s[k] \in S /\ t[k] \in V)
  OBVIOUS
<1>2. /\ u[0] = <<>> /\ AtPlaces(s, places) = u[N]
      /\ \A n \in 0 .. N : n < N =>
           u[n + 1] = IF n + 1 \in places THEN Append(u[n], s[n + 1]) ELSE u[n]
  BY AtPlacesSteps
<1>3. /\ v[0] = <<>> /\ AtPlaces(t, places) = v[N]
      /\ \A n \in 0 .. N : n < N =>
           v[n + 1] = IF n + 1 \in places THEN Append(v[n], t[n + 1]) ELSE v[n]
  BY <1>1, AtPlacesSteps
<1> HIDE DEF u, v, N
<1>4. 0 \in T
  <2>1. u[0] \in Seq(S) /\ v[0] \in Seq(V) /\ Len(u[0]) = 0 /\ Len(v[0]) = 0 /\ 0 \in 0 .. N
    BY <1>1, <1>2, <1>3
  <2>2. 1 .. Len(u[0]) = {}
    BY <2>1
  <2>3. Beside(u[0], v[0])
    BY <2>1, <2>2
  <2>4. QED
    BY <2>1, <2>3
<1>5. ASSUME NEW n \in 0 .. N, n \in T, n < N PROVE n + 1 \in T
  <2>1. n + 1 \in 1 .. N /\ n + 1 \in 0 .. N
    BY <1>1, <1>5
  <2> DEFINE x == u[n]
             y == v[n]
             x2 == u[n + 1]
             y2 == v[n + 1]
  <2>2. Beside(x, y)
    BY <1>5
  <2>3. CASE n + 1 \in places
    <3>1. x2 = Append(x, s[n + 1]) /\ y2 = Append(y, t[n + 1])
      BY <1>2, <1>3, <1>5, <2>3
    <3>2. s[n + 1] \in S /\ t[n + 1] \in V
      BY <1>1, <2>1
    <3> HIDE DEF x, y, x2, y2
    <3>3. x2 \in Seq(S) /\ y2 \in Seq(V) /\ Len(x2) = Len(x) + 1 /\ Len(y2) = Len(y) + 1
      BY <2>2, <3>1, <3>2
    <3>4. ASSUME NEW k \in 1 .. Len(x2)
          PROVE  \E i \in places \cap 1 .. N : x2[k] = s[i] /\ y2[k] = t[i]
      <4>1. CASE k = Len(x) + 1
        <5>1. x2[k] = s[n + 1] /\ y2[k] = t[n + 1]
          BY <2>2, <3>1, <3>2, <4>1
        <5>2. QED
          BY <2>1, <2>3, <5>1
      <4>2. CASE k # Len(x) + 1
        <5>1. k \in 1 .. Len(x)
          BY <2>2, <3>3, <3>4, <4>2
        <5>2. x2[k] = x[k] /\ y2[k] = y[k]
          BY <2>2, <3>1, <3>2, <5>1
        <5>3. QED
          BY <2>2, <5>1, <5>2
      <4>3. QED
        BY <4>1, <4>2
    <3>5. Beside(x2, y2)
      BY <2>2, <3>3, <3>4
    <3>6. QED
      BY <2>1, <3>5 DEF x2, y2
  <2>4. CASE n + 1 \notin places
    <3>1. x2 = x /\ y2 = y
      BY <1>2, <1>3, <1>5, <2>4
    <3>2. QED
      BY <2>1, <2>2, <3>1
  <2>5. QED
    BY <2>3, <2>4
<1>6. 0 .. N \subseteq T
  <2> HIDE DEF T
  <2>1. QED
    BY <1>1, <1>4, <1>5, Climb
<1>7. Beside(u[N], v[N])
  BY <1>1, <1>6
<1>8. QED
  BY <1>1, <1>2, <1>3, <1>7

(* All places are the whole.                                               *)
LEMMA AtPlacesAll ==
    ASSUME NEW S, NEW s \in Seq(S), NEW places, DOMAIN s \subseteq places
    PROVE  AtPlaces(s, places) = s
<1> DEFINE N == Len(s)
           u == AtPlacesUpTo(s, places)
           First(x, n) == x \in Seq(S) /\ Len(x) = n /\ \A k \in 1 .. n : x[k] = s[k]
           T == {n \in 0 .. N : First(u[n], n)}
<1>1. N \in Nat /\ DOMAIN s = 1 .. N /\ (\A k \in 1 .. N : s[k] \in S)
  OBVIOUS
<1>2. /\ u[0] = <<>> /\ AtPlaces(s, places) = u[N]
      /\ \A n \in 0 .. N : n < N =>
           u[n + 1] = IF n + 1 \in places THEN Append(u[n], s[n + 1]) ELSE u[n]
  BY AtPlacesSteps
<1> HIDE DEF u, N
<1>3. 0 \in T
  <2>1. u[0] \in Seq(S) /\ Len(u[0]) = 0 /\ 0 \in 0 .. N /\ 1 .. 0 = {}
    BY <1>1, <1>2
  <2>2. First(u[0], 0)
    BY <2>1
  <2>3. QED
    BY <2>1, <2>2
<1>4. ASSUME NEW n \in 0 .. N, n \in T, n < N PROVE n + 1 \in T
  <2>1. n + 1 \in 1 .. N /\ n + 1 \in 0 .. N /\ n \in Nat
    BY <1>1, <1>4
  <2> DEFINE x == u[n]
             y == u[n + 1]
  <2>2. First(x, n) /\ y = Append(x, s[n + 1]) /\ s[n + 1] \in S
    BY <1>1, <1>2, <1>4, <2>1
  <2> HIDE DEF x, y
  <2>3. y \in Seq(S) /\ Len(y) = n + 1
    BY <2>2
  <2>4. ASSUME NEW k \in 1 .. n + 1 PROVE y[k] = s[k]
    <3>1. CASE k = n + 1
      BY <2>2, <2>1, <3>1
    <3>2. CASE k # n + 1
      <4>1. k \in 1 .. n
        BY <2>1, <3>2
      <4>2. QED
        BY <2>2, <4>1
    <3>3. QED
      BY <3>1, <3>2
  <2>5. First(y, n + 1)
    BY <2>3, <2>4
  <2>6. QED
    BY <2>1, <2>5 DEF y
<1>5. 0 .. N \subseteq T
  <2> HIDE DEF T
  <2>1. QED
    BY <1>1, <1>3, <1>4, Climb
<1>6. First(u[N], N)
  BY <1>1, <1>5
<1> DEFINE x == u[N]
<1> HIDE DEF x
<1>7. x \in Seq(S) /\ Len(x) = Len(s) /\ \A k \in 1 .. Len(s) : x[k] = s[k]
  BY <1>6 DEF x, N
<1>8. x = s
  <2>1. x = [k \in 1 .. Len(s) |-> x[k]] /\ s = [k \in 1 .. Len(s) |-> s[k]]
    BY <1>7
  <2>2. QED
    BY <1>7, <2>1
<1>9. QED
  BY <1>2, <1>8 DEF x

(* There are as many elements as places.                                   *)
LEMMA AtPlacesLength ==
    ASSUME NEW S, NEW s \in Seq(S), NEW places
    PROVE  Len(AtPlaces(s, places)) = Cardinality(places \cap DOMAIN s)
<1> DEFINE N == Len(s)
           u == AtPlacesUpTo(s, places)
           Counts(x, n) == /\ x \in Seq(S) /\ IsFiniteSet(places \cap 1 .. n)
                           /\ Len(x) = Cardinality(places \cap 1 .. n)
           T == {n \in 0 .. N : Counts(u[n], n)}
<1>1. N \in Nat /\ DOMAIN s = 1 .. N /\ (\A k \in 1 .. N : s[k] \in S)
  OBVIOUS
<1>2. /\ u[0] = <<>> /\ AtPlaces(s, places) = u[N]
      /\ \A n \in 0 .. N : n < N =>
           u[n + 1] = IF n + 1 \in places THEN Append(u[n], s[n + 1]) ELSE u[n]
  BY AtPlacesSteps
<1> HIDE DEF u, N
<1>3. 0 \in T
  <2>1. places \cap 1 .. 0 = {} /\ u[0] \in Seq(S) /\ Len(u[0]) = 0 /\ 0 \in 0 .. N
    BY <1>1, <1>2
  <2>2. IsFiniteSet({}) /\ Cardinality({}) = 0
    BY FS_EmptySet
  <2>3. QED
    BY <2>1, <2>2
<1>4. ASSUME NEW n \in 0 .. N, n \in T, n < N PROVE n + 1 \in T
  <2>1. n + 1 \in 1 .. N /\ n + 1 \in 0 .. N /\ n \in Nat
    BY <1>1, <1>4
  <2> DEFINE x == u[n]
             y == u[n + 1]
             P == places \cap 1 .. n
             Q == places \cap 1 .. (n + 1)
  <2>2. Counts(x, n) /\ s[n + 1] \in S
    BY <1>1, <1>4, <2>1
  <2>3. CASE n + 1 \in places
    <3>1. y = Append(x, s[n + 1])
      BY <1>2, <1>4, <2>3
    <3>2. Q = P \cup {n + 1} /\ n + 1 \notin P
      BY <2>1, <2>3
    <3>3. IsFiniteSet(Q) /\ Cardinality(Q) = Cardinality(P) + 1
      <4> HIDE DEF P, Q
      <4>1. IsFiniteSet(P)
        BY <2>2 DEF P
      <4>2. QED
        BY <3>2, <4>1, FS_AddElement
    <3> HIDE DEF x, y
    <3>4. y \in Seq(S) /\ Len(y) = Len(x) + 1
      BY <2>2, <3>1
    <3>5. Counts(y, n + 1)
      BY <2>2, <3>3, <3>4
    <3>6. QED
      BY <2>1, <3>5 DEF y
  <2>4. CASE n + 1 \notin places
    <3>1. y = x
      BY <1>2, <1>4, <2>4
    <3>2. Q = P
      BY <2>1, <2>4
    <3>3. Counts(y, n + 1)
      BY <2>2, <3>1, <3>2
    <3>4. QED
      BY <2>1, <3>3
  <2>5. QED
    BY <2>3, <2>4
<1>5. 0 .. N \subseteq T
  <2> HIDE DEF T
  <2>1. QED
    BY <1>1, <1>3, <1>4, Climb
<1>6. Counts(u[N], N)
  BY <1>1, <1>5
<1>7. QED
  BY <1>1, <1>2, <1>6

-----------------------------------------------------------------------------
(* A concatenation of parts goes on part by part.                          *)
LEMMA FlattenSteps ==
    ASSUME NEW seqs, Len(seqs) \in Nat \ {0}
    PROVE  \E f : /\ f[1] = seqs[1] /\ FlattenSeq(seqs) = f[Len(seqs)]
                  /\ \A n \in 1 .. Len(seqs) : n < Len(seqs) => f[n + 1] = f[n] \o seqs[n + 1]
<1> DEFINE N == Len(seqs)
           Fits(g, m) == g = [n \in 1 .. m |-> IF n = 1 THEN seqs[n] ELSE g[n - 1] \o seqs[n]]
           T == {m \in 0 .. N : m = 0 \/ \E g : Fits(g, m)}
<1>1. 0 \in T
  OBVIOUS
<1>2. ASSUME NEW m \in 0 .. N, m \in T, m < N PROVE m + 1 \in T
  <2>1. m + 1 \in 0 .. N
    BY <1>2
  <2>2. CASE m = 0
    <3>1. 1 .. m + 1 = {1} /\ [n \in {1} |-> seqs[n]] = [n \in {1} |-> IF n = 1 THEN seqs[n] ELSE [k \in {1} |-> seqs[k]][n - 1] \o seqs[n]]
      BY <2>2
    <3>2. Fits([n \in {1} |-> seqs[n]], m + 1)
      BY <3>1
    <3> HIDE DEF Fits
    <3>3. QED
      BY <2>1, <3>2
  <2>3. CASE m # 0
    <3>1. PICK g : Fits(g, m)
      BY <1>2, <2>3
    <3> DEFINE h == [n \in 1 .. m + 1 |-> IF n <= m THEN g[n] ELSE g[m] \o seqs[m + 1]]
    <3>2. \A n \in 1 .. m + 1 : h[n] = IF n = 1 THEN seqs[n] ELSE h[n - 1] \o seqs[n]
      <4> SUFFICES ASSUME NEW n \in 1 .. m + 1
                   PROVE  h[n] = IF n = 1 THEN seqs[n] ELSE h[n - 1] \o seqs[n]
        OBVIOUS
      <4>1. CASE n = 1
        <5>1. 1 \in 1 .. m /\ n <= m
          BY <2>3, <4>1
        <5>2. g[1] = seqs[1]
          BY <3>1, <5>1
        <5>3. h[n] = g[n]
          BY <5>1
        <5> HIDE DEF h
        <5>4. QED
          BY <4>1, <5>2, <5>3
      <4>2. CASE n # 1 /\ n <= m
        <5>1. n \in 1 .. m /\ n - 1 \in 1 .. m + 1 /\ n - 1 <= m
          BY <4>2
        <5>2. h[n] = g[n] /\ h[n - 1] = g[n - 1]
          BY <4>2, <5>1
        <5>3. g[n] = g[n - 1] \o seqs[n]
          BY <3>1, <4>2, <5>1
        <5> HIDE DEF h
        <5>4. QED
          BY <4>2, <5>2, <5>3
      <4>3. CASE n = m + 1
        <5>1. n # 1 /\ ~(n <= m) /\ n - 1 = m /\ m \in 1 .. m + 1 /\ m <= m
          BY <2>3, <4>3
        <5>2. h[n] = g[m] \o seqs[m + 1] /\ h[m] = g[m]
          BY <5>1
        <5> HIDE DEF h
        <5>3. QED
          BY <4>3, <5>1, <5>2
      <4>4. QED
        BY <4>1, <4>2, <4>3
    <3>3. Fits(h, m + 1)
      <4>1. h = [n \in 1 .. m + 1 |-> h[n]]
        OBVIOUS
      <4> HIDE DEF h
      <4>2. QED
        BY <3>2, <4>1
    <3> HIDE DEF h, Fits
    <3>4. QED
      BY <2>1, <3>3
  <2>4. QED
    BY <2>2, <2>3
<1>3. N \in 0 .. N /\ 0 .. N \subseteq T
  <2> HIDE DEF T
  <2>1. QED
    BY <1>1, <1>2, Climb
<1>4. \E g : Fits(g, N)
  <2> HIDE DEF Fits
  <2>1. QED
    BY <1>3
<1> DEFINE f == CHOOSE g : Fits(g, N)
<1>5. FlattenSeq(seqs) = f[N]
  BY DEF FlattenSeq
<1>6. Fits(f, N)
  <2> HIDE DEF Fits
  <2>1. QED
    BY <1>4
<1> HIDE DEF f
<1>7. f[1] = seqs[1]
  BY <1>6
<1>8. ASSUME NEW n \in 1 .. N, n < N PROVE f[n + 1] = f[n] \o seqs[n + 1]
  <2>1. n + 1 \in 1 .. N /\ n + 1 # 1 /\ (n + 1) - 1 = n
    BY <1>8
  <2>2. f[n + 1] = f[(n + 1) - 1] \o seqs[n + 1]
    BY <1>6, <2>1
  <2>3. QED
    BY <2>1, <2>2
<1>9. QED
  BY <1>5, <1>7, <1>8

(* What is concatenated comes of the parts.                                *)
LEMMA FlattenType ==
    ASSUME NEW S, NEW seqs \in Seq(Seq(S))
    PROVE  FlattenSeq(seqs) \in Seq(S)
<1> DEFINE N == Len(seqs)
<1>1. CASE N = 0
  <2>1. seqs = <<>>
    BY <1>1
  <2>2. FlattenSeq(seqs) = <<>>
    BY <1>1, <2>1 DEF FlattenSeq
  <2>3. <<>> \in Seq(S)
    OBVIOUS
  <2>4. QED
    BY <2>2, <2>3
<1>2. CASE N # 0
  <2>1. PICK f : /\ f[1] = seqs[1] /\ FlattenSeq(seqs) = f[N]
                 /\ \A n \in 1 .. N : n < N => f[n + 1] = f[n] \o seqs[n + 1]
    <3>1. N \in Nat \ {0}
      BY <1>2
    <3>2. QED
      BY <3>1, FlattenSteps
  <2> DEFINE T == {n \in 0 .. N : n = 0 \/ f[n] \in Seq(S)}
  <2>2. N \in Nat /\ \A n \in 1 .. N : seqs[n] \in Seq(S)
    OBVIOUS
  <2>3. 0 \in T
    BY <2>2
  <2>4. ASSUME NEW n \in 0 .. N, n \in T, n < N PROVE n + 1 \in T
    <3>1. n + 1 \in 1 .. N /\ seqs[n + 1] \in Seq(S)
      BY <2>2, <2>4
    <3>2. CASE n = 0
      BY <2>1, <3>1, <3>2
    <3>3. CASE n # 0
      <4>1. f[n] \in Seq(S) /\ f[n + 1] = f[n] \o seqs[n + 1]
        <5>1. n \in 1 .. N
          BY <2>2, <2>4, <3>3
        <5>2. QED
          BY <2>1, <2>4, <3>3, <5>1
      <4>2. f[n + 1] \in Seq(S)
        BY <3>1, <4>1
      <4>3. QED
        BY <3>1, <4>2
    <3>4. QED
      BY <3>2, <3>3
  <2>5. 0 .. N \subseteq T
    <3> HIDE DEF T
    <3>1. QED
      BY <2>2, <2>3, <2>4, Climb
  <2>6. QED
    BY <1>2, <2>1, <2>2, <2>5
<1>3. QED
  BY <1>1, <1>2

(* Of parts of which only one may hold something, that one is the whole.   *)
LEMMA FlattenOne ==
    ASSUME NEW S, NEW seqs \in Seq(Seq(S)), NEW one \in DOMAIN seqs,
           \A n \in DOMAIN seqs : n # one => seqs[n] = <<>>
    PROVE  FlattenSeq(seqs) = seqs[one]
<1> DEFINE N == Len(seqs)
<1>1. N \in Nat /\ N # 0 /\ DOMAIN seqs = 1 .. N /\ seqs[one] \in Seq(S) /\ one \in 1 .. N
  OBVIOUS
<1>2. PICK f : /\ f[1] = seqs[1] /\ FlattenSeq(seqs) = f[N]
               /\ \A n \in 1 .. N : n < N => f[n + 1] = f[n] \o seqs[n + 1]
  BY <1>1, FlattenSteps
<1> DEFINE T == {n \in 0 .. N : n = 0 \/ f[n] = IF n < one THEN <<>> ELSE seqs[one]}
<1>3. 0 \in T
  BY <1>1
<1>4. ASSUME NEW n \in 0 .. N, n \in T, n < N PROVE n + 1 \in T
  <2>1. n + 1 \in 1 .. N /\ n + 1 \in 0 .. N /\ n \in Nat
    BY <1>1, <1>4
  <2>2. CASE n = 0
    <3>1. f[n + 1] = IF n + 1 < one THEN <<>> ELSE seqs[one]
      BY <1>1, <1>2, <2>2
    <3>2. QED
      BY <2>1, <3>1
  <2>3. CASE n # 0
    <3>1. f[n + 1] = f[n] \o seqs[n + 1] /\ f[n] = IF n < one THEN <<>> ELSE seqs[one]
      <4>1. n \in 1 .. N
        BY <1>1, <1>4, <2>3
      <4>2. QED
        BY <1>2, <1>4, <2>3, <4>1
    <3>2. CASE n + 1 < one
      <4>1. f[n] = <<>> /\ seqs[n + 1] = <<>>
        <5>1. n < one /\ n + 1 # one /\ n + 1 \in DOMAIN seqs
          BY <1>1, <2>1, <3>2
        <5>2. QED
          BY <3>1, <5>1
      <4>2. QED
        BY <2>1, <3>1, <3>2, <4>1
    <3>3. CASE n + 1 = one
      <4>1. f[n] = <<>> /\ seqs[n + 1] = seqs[one]
        BY <2>1, <3>1, <3>3
      <4>2. f[n + 1] = seqs[one]
        BY <1>1, <3>1, <4>1
      <4>3. QED
        BY <1>1, <2>1, <3>3, <4>2
    <3>4. CASE n + 1 > one
      <4>1. f[n] = seqs[one] /\ seqs[n + 1] = <<>>
        BY <1>1, <2>1, <3>1, <3>4
      <4>2. f[n + 1] = seqs[one]
        BY <1>1, <3>1, <4>1
      <4>3. QED
        BY <1>1, <2>1, <3>4, <4>2
    <3>5. QED
      BY <1>1, <2>1, <3>2, <3>3, <3>4
  <2>4. QED
    BY <2>2, <2>3
<1>5. 0 .. N \subseteq T
  <2> HIDE DEF T
  <2>1. QED
    BY <1>1, <1>3, <1>4, Climb
<1>6. N \in T /\ ~(N < one)
  BY <1>1, <1>5
<1>7. QED
  BY <1>1, <1>2, <1>6
=============================================================================
