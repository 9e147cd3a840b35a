---------------------------- MODULE RankingProofs ----------------------------
(***************************************************************************)
(* Proofs about two computations: what a tournament makes of its record,   *)
(* the ratings and the plan of the next round; and what a run is billed    *)
(* for.  They share no state, but the lemmas on functions by recursion.    *)
(***************************************************************************)
EXTENDS Ranking, Estimates, SequenceTheorems, FiniteSetTheorems,
        WellFoundedInduction, TLAPS

-----------------------------------------------------------------------------
(* Numbers, sequences and what is defined by recursion on them.             *)

LEMMA LeastOf ==
  ASSUME NEW T \in SUBSET Nat, T # {}
  PROVE  \E m \in T : \A k \in T : m <= k
<1>. DEFINE less == OpToRel(<, Nat)
<1>1. IsWellFoundedOn(less, Nat)
  BY NatLessThanWellFounded
<1>2. \E m \in T : \A k \in T : ~(<<k, m>> \in less)
  <2>. HIDE DEF less
  <2>. QED
    BY <1>1, WFMin
<1>3. PICK m \in T : \A k \in T : ~(<<k, m>> \in less)
  BY <1>2
<1>4. ASSUME NEW k \in T PROVE m <= k
  <2>1. <<k, m>> \in Nat \X Nat /\ ~(<<k, m>> \in less)
    BY <1>3
  <2>2. ~(<<k, m>>[1] < <<k, m>>[2])
    BY <2>1, Zenon DEF OpToRel
  <2>. QED
    BY <2>2
<1>. QED
  BY <1>4

LEMMA MaxOf ==
  ASSUME NEW n \in Nat, NEW S \in SUBSET (0 .. n), S # {}
  PROVE  Max(S) \in S /\ \A x \in S : x <= Max(S)
<1>. DEFINE T == {n - x : x \in S}
<1>0. \A x \in S : n - x \in Nat
  OBVIOUS
<1>1. T \in SUBSET Nat /\ T # {}
  BY <1>0
<1>2. PICK m \in T : \A t \in T : m <= t
  BY <1>1, LeastOf
<1>3. PICK y \in S : m = n - y
  OBVIOUS
<1>4. \A x \in S : y >= x
  <2>. SUFFICES ASSUME NEW x \in S PROVE y >= x
    OBVIOUS
  <2>1. n - x \in T
    OBVIOUS
  <2>2. n - y <= n - x
    BY <1>2, <1>3, <2>1
  <2>. QED
    BY <2>2
<1>5. Max(S) \in S /\ \A x \in S : Max(S) >= x
  BY <1>4 DEF Max
<1>. QED
  BY <1>5

LEMMA FunctionIsSeq ==
  ASSUME NEW S, NEW n \in Nat, NEW f \in [1 .. n -> S]
  PROVE  f \in Seq(S) /\ Len(f) = n
OBVIOUS

LEMMA OneMore ==
  ASSUME NEW S, NEW z, IsFiniteSet(S), z \notin S
  PROVE  Cardinality(S \cup {z}) = Cardinality(S) + 1
BY FS_AddElement

(* What holds at 0 and is handed on holds up to N. *)
LEMMA Climb ==
  ASSUME NEW N \in Nat, NEW T, NEW g, g[0] \in T, \A k \in 1 .. N : g[k - 1] \in T => g[k] \in T
  PROVE  \A k \in 0 .. N : g[k] \in T
<1>. DEFINE Bad == {k \in 0 .. N : g[k] \notin T}
<1>. SUFFICES ASSUME Bad # {} PROVE FALSE
  OBVIOUS
<1>1. Bad \in SUBSET Nat
  OBVIOUS
<1>2. PICK m \in Bad : \A k \in Bad : m <= k
  BY <1>1, LeastOf
<1>3. m # 0 /\ m \in 1 .. N /\ g[m] \notin T
  OBVIOUS
<1>4. m - 1 \in 0 .. N /\ m - 1 \notin Bad
  BY <1>2, <1>3
<1>. QED
  BY <1>3, <1>4

(* A step that stays in T can be taken N times. *)
Iterable(N, T, base, by) ==
  \E g \in [0 .. N -> T] : g[0] = base /\ \A k \in 1 .. N : g[k] = by[k][g[k - 1]]

LEMMA Iterates ==
  ASSUME NEW N \in Nat, NEW T, NEW base \in T, NEW by \in [1 .. N -> [T -> T]]
  PROVE  Iterable(N, T, base, by)
<1>. DEFINE Good(n) == Iterable(n, T, base, by)
            Bad == {n \in 0 .. N : ~Good(n)}
<1>. SUFFICES ASSUME Bad # {} PROVE FALSE
  <2>1. N \in 0 .. N
    OBVIOUS
  <2>. QED
    BY <2>1
<1>1. Bad \in SUBSET Nat
  OBVIOUS
<1>2. PICK m \in Bad : \A k \in Bad : m <= k
  <2>. HIDE DEF Bad
  <2>. QED
    BY <1>1, LeastOf
<1>. USE DEF Iterable
<1>3. Good(0)
  <2>. DEFINE g == [k \in 0 .. 0 |-> base]
  <2>1. g \in [0 .. 0 -> T] /\ g[0] = base
    OBVIOUS
  <2>2. \A k \in 1 .. 0 : g[k] = by[k][g[k - 1]]
    OBVIOUS
  <2>. QED
    BY <2>1, <2>2
<1>4. m \in 0 .. N /\ ~Good(m)
  OBVIOUS
<1>5. m \in 1 .. N /\ m - 1 \in 0 .. N
  <2>. HIDE DEF Good, Bad
  <2>1. m # 0
    BY <1>3, <1>4
  <2>. QED
    BY <1>4, <2>1
<1>6. Good(m - 1)
  <2>. HIDE DEF Good
  <2>1. m - 1 \notin Bad
    <3>. HIDE DEF Bad
    <3>. QED
      BY <1>2, <1>4, <1>5
  <2>. QED
    BY <1>5, <2>1
<1>7. PICK g \in [0 .. m - 1 -> T] : g[0] = base /\ \A k \in 1 .. m - 1 : g[k] = by[k][g[k - 1]]
  BY <1>6
<1>. DEFINE h == [k \in 0 .. m |-> IF k = m THEN by[m][g[m - 1]] ELSE g[k]]
<1>8. g[m - 1] \in T /\ by[m][g[m - 1]] \in T
  <2>1. g[m - 1] \in T
    BY <1>5
  <2>2. by[m] \in [T -> T]
    BY <1>5, <2>1
  <2>. QED
    BY <2>1, <2>2
<1>9. h \in [0 .. m -> T]
  BY <1>5, <1>8
<1>10. h[0] = base /\ \A k \in 1 .. m : h[k] = by[k][h[k - 1]]
  <2>1. h[0] = base
    BY <1>5, <1>7
  <2>2. ASSUME NEW k \in 1 .. m PROVE h[k] = by[k][h[k - 1]]
    <3>1. k - 1 \in 0 .. m /\ k - 1 # m /\ h[k - 1] = g[k - 1]
      BY <1>5, <2>2
    <3>2. CASE k = m
      BY <1>5, <3>1, <3>2
    <3>3. CASE k # m
      <4>1. k \in 1 .. m - 1 /\ h[k] = g[k]
        BY <1>5, <3>3
      <4>. QED
        BY <1>7, <3>1, <4>1
    <3>. QED
      BY <3>2, <3>3
  <2>. QED
    BY <2>1, <2>2
<1>. QED
  BY <1>4, <1>9, <1>10

(* Orders: in a strict order of a finite set each has its place, and the    *)
(* list by places has everyone once, those before it before it.             *)

Strict(S, R) ==
  /\ \A i \in S : <<i, i>> \notin R
  /\ \A i, j \in S : i # j => <<i, j>> \in R \/ <<j, i>> \in R
  /\ \A i, j, k \in S : <<i, j>> \in R /\ <<j, k>> \in R => <<i, k>> \in R

PlaceIn(S, R, i) == Cardinality({j \in S : <<j, i>> \in R})

ByPlace(S, R) == [n \in 1 .. Cardinality(S) |-> CHOOSE i \in S : PlaceIn(S, R, i) = n - 1]

Lists(f, S, R) ==
  /\ f \in [1 .. Cardinality(S) -> S]
  /\ \A m, n \in 1 .. Cardinality(S) : m < n => <<f[m], f[n]>> \in R
  /\ \A i \in S : \E n \in 1 .. Cardinality(S) : f[n] = i

LEMMA PlacesAre ==
  ASSUME NEW S, IsFiniteSet(S), NEW R, Strict(S, R)
  PROVE  /\ \A i \in S : PlaceIn(S, R, i) \in 0 .. Cardinality(S) - 1
         /\ \A i, j \in S : <<i, j>> \in R => PlaceIn(S, R, i) < PlaceIn(S, R, j)
<1>. DEFINE before(i) == {j \in S : <<j, i>> \in R}
<1>1. Cardinality(S) \in Nat
  BY FS_CardinalityType
<1>2. ASSUME NEW i \in S
      PROVE  IsFiniteSet(before(i)) /\ Cardinality(before(i)) \in 0 .. Cardinality(S) - 1
  <2>1. before(i) \subseteq S /\ i \notin before(i)
    BY DEF Strict
  <2>2. IsFiniteSet(before(i)) /\ Cardinality(before(i)) <= Cardinality(S)
        /\ (Cardinality(before(i)) = Cardinality(S) => before(i) = S)
    BY <2>1, FS_Subset
  <2>. QED
    BY <1>1, <2>1, <2>2, FS_CardinalityType
<1>3. ASSUME NEW i \in S, NEW j \in S, <<i, j>> \in R
      PROVE  Cardinality(before(i)) < Cardinality(before(j))
  <2>1. before(i) \subseteq before(j) /\ i \in before(j) /\ i \notin before(i)
    BY <1>3 DEF Strict
  <2>2. /\ IsFiniteSet(before(j))
        /\ Cardinality(before(i)) \in 0 .. Cardinality(S) - 1
        /\ Cardinality(before(j)) \in 0 .. Cardinality(S) - 1
    BY <1>2
  <2>. HIDE DEF before
  <2>3. Cardinality(before(i)) <= Cardinality(before(j)) /\ Cardinality(before(i)) # Cardinality(before(j))
    BY <2>1, <2>2, FS_Subset
  <2>. QED
    BY <2>2, <2>3
<1>. QED
  BY <1>2, <1>3 DEF PlaceIn

(* There is one with n - 1 before it. *)
HasNth(S, R, n) == \E i \in S : PlaceIn(S, R, i) = n - 1

LEMMA NthOf ==
  ASSUME NEW S, IsFiniteSet(S), NEW R, Strict(S, R), NEW n \in 1 .. Cardinality(S)
  PROVE  HasNth(S, R, n)
<1>. DEFINE c == Cardinality(S)
            rank == [i \in S |-> PlaceIn(S, R, i)]
            T == (0 .. c - 1) \ {n - 1}
<1>1. c \in Nat
  BY FS_CardinalityType
<1>2. /\ \A i \in S : rank[i] \in 0 .. c - 1
      /\ \A i, j \in S : <<i, j>> \in R => rank[i] < rank[j]
  BY PlacesAre
<1>. SUFFICES ASSUME \A i \in S : rank[i] # n - 1 PROVE FALSE
  BY DEF HasNth
<1>. HIDE DEF rank
<1>3. rank \in [S -> T]
  BY <1>2 DEF rank
<1>4. IsFiniteSet(T) /\ Cardinality(T) = c - 1
  <2>1. IsFiniteSet(0 .. c - 1) /\ Cardinality(0 .. c - 1) = c
    <3>. HIDE DEF c
    <3>1. c - 1 \in Int /\ 0 \in Int /\ c >= 1
      BY <1>1 DEF c
    <3>. QED
      BY <1>1, <3>1, FS_Interval
  <2>2. n - 1 \in 0 .. c - 1
    BY <1>1
  <2>3. IsFiniteSet(T) /\ Cardinality(T) = Cardinality(0 .. c - 1) - 1
    BY <2>1, <2>2, FS_RemoveElement
  <2>. QED
    BY <2>1, <2>3
<1>5. PICK x \in S, y \in S : x # y /\ rank[x] = rank[y]
  <2>1. Cardinality(T) < c
    BY <1>1, <1>4
  <2>. HIDE DEF T
  <2>. QED
    BY <1>3, <1>4, <2>1, FS_PigeonHole
<1>6. \A i \in S : rank[i] \in Int
  BY <1>1, <1>2
<1>7. <<x, y>> \in R \/ <<y, x>> \in R
  BY <1>5 DEF Strict
<1>. QED
  BY <1>2, <1>5, <1>6, <1>7

LEMMA ListedInOrder ==
  ASSUME NEW S, IsFiniteSet(S), NEW R, Strict(S, R)
  PROVE  Lists(ByPlace(S, R), S, R)
<1>. DEFINE c == Cardinality(S)
            f == ByPlace(S, R)
            place(i) == PlaceIn(S, R, i)
<1>1. c \in Nat
  BY FS_CardinalityType
<1>2. /\ \A i \in S : place(i) \in 0 .. c - 1
      /\ \A i, j \in S : <<i, j>> \in R => place(i) < place(j)
  BY PlacesAre
<1>3. ASSUME NEW n \in 1 .. c PROVE \E i \in S : place(i) = n - 1
  <2>1. HasNth(S, R, n)
    BY NthOf
  <2>. QED
    BY <2>1 DEF HasNth
<1>4. f = [n \in 1 .. c |-> CHOOSE i \in S : place(i) = n - 1]
  BY DEF ByPlace
<1>. HIDE DEF place, c, f
<1>5. ASSUME NEW n \in 1 .. c PROVE f[n] \in S /\ place(f[n]) = n - 1
  BY <1>3, <1>4
<1>6. f \in [1 .. c -> S]
  BY <1>4, <1>5
<1>7. ASSUME NEW i \in S, NEW j \in S, place(i) <= place(j), i # j PROVE <<i, j>> \in R
  <2>1. <<i, j>> \in R \/ <<j, i>> \in R
    BY <1>7 DEF Strict
  <2>2. place(i) \in Int /\ place(j) \in Int
    BY <1>1, <1>2
  <2>3. <<j, i>> \notin R
    BY <1>2, <1>7, <2>2
  <2>. QED
    BY <2>1, <2>3
<1>8. ASSUME NEW m \in 1 .. c, NEW n \in 1 .. c, m < n PROVE <<f[m], f[n]>> \in R
  <2>1. f[m] \in S /\ f[n] \in S /\ place(f[m]) = m - 1 /\ place(f[n]) = n - 1
    BY <1>5
  <2>2. f[m] # f[n] /\ place(f[m]) <= place(f[n])
    BY <1>8, <2>1
  <2>. QED
    BY <1>7, <2>1, <2>2
<1>9. ASSUME NEW i \in S PROVE \E n \in 1 .. c : f[n] = i
  <2>1. place(i) + 1 \in 1 .. c
    BY <1>1, <1>2
  <2>2. f[place(i) + 1] \in S /\ place(f[place(i) + 1]) = place(i)
    BY <1>1, <1>2, <1>5, <2>1
  <2>3. f[place(i) + 1] = i
    <3>. SUFFICES ASSUME f[place(i) + 1] # i PROVE FALSE
      OBVIOUS
    <3>1. place(i) \in Int
      BY <1>1, <1>2
    <3>2. <<i, f[place(i) + 1]>> \in R
      BY <1>7, <2>2, <3>1
    <3>3. place(i) < place(f[place(i) + 1])
      BY <1>2, <2>2, <3>2
    <3>. QED
      BY <2>2, <3>1, <3>3
  <2>. QED
    BY <2>1, <2>3
<1>. QED
  BY <1>6, <1>8, <1>9 DEF Lists, c, f

(* One after the other: what each step keeps, all steps keep. *)
LEMMA Onwards ==
  ASSUME NEW N \in Nat, NEW T, NEW g \in [0 .. N -> T], NEW R,
         \A t \in T : <<t, t>> \in R,
         \A t, u, w \in T : <<t, u>> \in R /\ <<u, w>> \in R => <<t, w>> \in R,
         \A k \in 1 .. N : <<g[k - 1], g[k]>> \in R
  PROVE  \A m, n \in 0 .. N : m <= n => <<g[m], g[n]>> \in R
<1>. SUFFICES ASSUME NEW m \in 0 .. N PROVE \A n \in 0 .. N : m <= n => <<g[m], g[n]>> \in R
  OBVIOUS
<1>. DEFINE h == [k \in 0 .. N |-> k]
            Good == {n \in 0 .. N : m <= n => <<g[m], g[n]>> \in R}
<1>1. h[0] \in Good
  BY DEF Good
<1>2. ASSUME NEW k \in 1 .. N, h[k - 1] \in Good PROVE h[k] \in Good
  <2>1. k - 1 \in 0 .. N /\ k \in 0 .. N /\ h[k - 1] = k - 1 /\ h[k] = k
    OBVIOUS
  <2>2. <<g[k - 1], g[k]>> \in R /\ g[m] \in T /\ g[k - 1] \in T /\ g[k] \in T
    BY <2>1
  <2>3. CASE m <= k - 1
    <3>1. <<g[m], g[k - 1]>> \in R
      BY <1>2, <2>1, <2>3
    <3>. QED
      BY <2>1, <2>2, <3>1
  <2>4. CASE ~(m <= k - 1)
    <3>1. m <= k => m = k
      BY <2>4
    <3>. QED
      BY <2>1, <2>2, <3>1
  <2>. QED
    BY <2>3, <2>4
<1>3. \A k \in 0 .. N : h[k] \in Good
  <2>. HIDE DEF h, Good
  <2>. QED
    BY <1>1, <1>2, Climb
<1>. QED
  BY <1>3

-----------------------------------------------------------------------------
(* The sum of what the ratings gained.                                      *)
LEMMA PointsAre ==
  ASSUME NEW r, \A i \in Ideas : r[i].elo \in Int
  PROVE  \E g \in [0 .. MaxIdeas -> Int] :
           /\ g[0] = 0 /\ \A n \in 1 .. MaxIdeas : g[n] = g[n - 1] + r[n].elo - InitialElo
           /\ Points(r) = g[MaxIdeas]
<1>. DEFINE upto[n \in 0 .. MaxIdeas] == IF n = 0 THEN 0 ELSE upto[n - 1] + r[n].elo - InitialElo
            Z == Int
            by == [n \in 1 .. MaxIdeas |-> [t \in Z |-> t + r[n].elo - InitialElo]]
<1>0. MaxIdeas \in Nat /\ InitialElo \in Int
  BY RankingAssumption
<1>1. by \in [1 .. MaxIdeas -> [Z -> Z]] /\ 0 \in Z
  BY <1>0 DEF Ideas
<1>2. PICK g \in [0 .. MaxIdeas -> Z] : g[0] = 0 /\ \A n \in 1 .. MaxIdeas : g[n] = by[n][g[n - 1]]
  <2>1. Iterable(MaxIdeas, Z, 0, by)
    <3>. HIDE DEF by, Z
    <3>. QED
      BY <1>0, <1>1, Iterates
  <2>. HIDE DEF by, Z
  <2>. QED
    BY <2>1 DEF Iterable
<1>3. \A n \in 1 .. MaxIdeas : g[n] = g[n - 1] + r[n].elo - InitialElo
  <2>. SUFFICES ASSUME NEW n \in 1 .. MaxIdeas PROVE g[n] = g[n - 1] + r[n].elo - InitialElo
    OBVIOUS
  <2>1. g[n - 1] \in Int
    BY <1>0
  <2>. QED
    BY <1>2, <2>1
<1>4. g = [n \in 0 .. MaxIdeas |-> IF n = 0 THEN 0 ELSE g[n - 1] + r[n].elo - InitialElo]
  BY <1>0, <1>2, <1>3
<1>5. upto = [n \in 0 .. MaxIdeas |-> IF n = 0 THEN 0 ELSE upto[n - 1] + r[n].elo - InitialElo]
  BY <1>4
<1>6. Points(r) = upto[MaxIdeas]
  BY DEF Points
<1>. HIDE DEF upto
<1>7. upto[0] = 0 /\ \A n \in 1 .. MaxIdeas : upto[n] = upto[n - 1] + r[n].elo - InitialElo
  BY <1>0, <1>5
<1>8. \A n \in 0 .. MaxIdeas : upto[n] \in Int
  <2>1. \A n \in 1 .. MaxIdeas : upto[n - 1] \in Int => upto[n] \in Int
    <3>. SUFFICES ASSUME NEW n \in 1 .. MaxIdeas, upto[n - 1] \in Int PROVE upto[n] \in Int
      OBVIOUS
    <3>1. r[n].elo \in Int
      BY DEF Ideas
    <3>. QED
      BY <1>0, <1>7, <3>1
  <2>2. upto[0] \in Int
    BY <1>7
  <2>. QED
    BY <1>0, <2>1, <2>2, Climb
<1>9. upto \in [0 .. MaxIdeas -> Int]
  BY <1>5, <1>8
<1>. QED
  BY <1>6, <1>7, <1>9

LEMMA Difference ==
  ASSUME NEW x \in Int, NEW y \in Int, NEW u \in Int, NEW v \in Int, NEW k \in Int,
         NEW i, NEW j, i = x + u - k, j = y + v - k
  PROVE  i - j = x - y + u - v
OBVIOUS

\* From the rows r to the rows s, a takes d from b.
Moves(r, s, a, b, d) ==
  /\ a \in Ideas /\ b \in Ideas /\ a # b /\ d \in Int
  /\ \A i \in Ideas : r[i].elo \in Int /\ s[i].elo \in Int
  /\ s[a].elo = r[a].elo + d /\ s[b].elo = r[b].elo - d
  /\ \A i \in Ideas \ {a, b} : s[i].elo = r[i].elo

LEMMA PointsMove ==
  ASSUME NEW r, NEW s, NEW a, NEW b, NEW d, Moves(r, s, a, b, d)
  PROVE  Points(s) = Points(r)
<1>. USE DEF Moves
<1>0. MaxIdeas \in Nat /\ InitialElo \in Int /\ a \in 1 .. MaxIdeas /\ b \in 1 .. MaxIdeas
  BY RankingAssumption DEF Ideas
<1>1. PICK g \in [0 .. MaxIdeas -> Int] :
        /\ g[0] = 0 /\ \A n \in 1 .. MaxIdeas : g[n] = g[n - 1] + r[n].elo - InitialElo
        /\ Points(r) = g[MaxIdeas]
  BY PointsAre
<1>2. PICK h \in [0 .. MaxIdeas -> Int] :
        /\ h[0] = 0 /\ \A n \in 1 .. MaxIdeas : h[n] = h[n - 1] + s[n].elo - InitialElo
        /\ Points(s) = h[MaxIdeas]
  BY PointsAre
<1>. DEFINE moved(n) == (IF a <= n THEN d ELSE 0) - (IF b <= n THEN d ELSE 0)
            e == [n \in 0 .. MaxIdeas |-> h[n] - g[n] - moved(n)]
<1>3. e[0] \in {0}
  BY <1>0, <1>1, <1>2
<1>4. \A n \in 1 .. MaxIdeas : e[n - 1] \in {0} => e[n] \in {0}
  <2>. SUFFICES ASSUME NEW n \in 1 .. MaxIdeas, e[n - 1] = 0 PROVE e[n] = 0
    OBVIOUS
  <2>1. n - 1 \in 0 .. MaxIdeas /\ n \in 0 .. MaxIdeas /\ n \in Int
    BY <1>0
  <2>2. g[n] \in Int /\ h[n] \in Int /\ g[n - 1] \in Int /\ h[n - 1] \in Int
    BY <2>1
  <2>3. h[n - 1] - g[n - 1] = moved(n - 1)
    <3>1. e[n - 1] = h[n - 1] - g[n - 1] - moved(n - 1)
      BY <2>1
    <3>2. moved(n - 1) \in Int
      OBVIOUS
    <3>. HIDE DEF moved, e
    <3>3. e[n - 1] = 0
      OBVIOUS
    <3>. DEFINE x == h[n - 1]
                y == g[n - 1]
                z == moved(n - 1)
    <3>4. x \in Int /\ y \in Int /\ z \in Int /\ 0 = x - y - z
      BY <2>2, <3>1, <3>2, <3>3
    <3>5. x - y = z
      <4>. HIDE DEF x, y, z
      <4>. QED
        BY <3>4
    <3>. QED
      BY <3>5
  <2>4. r[n].elo \in Int /\ s[n].elo \in Int
    BY DEF Ideas
  <2>5. s[n].elo - r[n].elo = moved(n) - moved(n - 1)
    <3>1. a \in Int /\ b \in Int
      BY <1>0
    <3>2. moved(n) - moved(n - 1) = (IF n = a THEN d ELSE 0) - (IF n = b THEN d ELSE 0)
      <4>. HIDE DEF e
      <4>. QED
        BY <2>1, <3>1
    <3>. HIDE DEF moved, e
    <3>3. CASE n = a
      BY <2>4, <3>2, <3>3
    <3>4. CASE n = b
      BY <2>4, <3>2, <3>4
    <3>5. CASE n # a /\ n # b
      <4>1. s[n].elo = r[n].elo
        BY <3>5 DEF Ideas
      <4>. QED
        BY <2>4, <3>2, <3>5, <4>1
    <3>. QED
      BY <3>3, <3>4, <3>5
  <2>6. h[n] = h[n - 1] + s[n].elo - InitialElo /\ g[n] = g[n - 1] + r[n].elo - InitialElo
    BY <1>1, <1>2
  <2>7. moved(n) \in Int /\ moved(n - 1) \in Int
    OBVIOUS
  <2>8. e[n] = h[n] - g[n] - moved(n)
    BY <2>1
  <2>. HIDE DEF moved, e
  <2>9. h[n] - g[n] = h[n - 1] - g[n - 1] + s[n].elo - r[n].elo
    <3>. DEFINE x == h[n - 1]
                y == g[n - 1]
                u == s[n].elo
                v == r[n].elo
    <3>1. /\ x \in Int /\ y \in Int /\ u \in Int /\ v \in Int
          /\ h[n] = x + u - InitialElo /\ g[n] = y + v - InitialElo
      BY <2>2, <2>4, <2>6
    <3>2. h[n] - g[n] = x - y + u - v
      <4>1. InitialElo \in Int
        BY <1>0
      <4>. HIDE DEF x, y, u, v
      <4>. QED
        BY <3>1, <4>1, Difference
    <3>. QED
      BY <3>2
  <2>10. h[n] - g[n] = moved(n)
    BY <2>2, <2>3, <2>4, <2>5, <2>7, <2>9
  <2>. QED
    BY <2>2, <2>7, <2>8, <2>10
<1>5. e[MaxIdeas] = 0 /\ MaxIdeas \in 0 .. MaxIdeas
  <2>. DEFINE Z == {0}
  <2>1. e[0] \in Z /\ \A n \in 1 .. MaxIdeas : e[n - 1] \in Z => e[n] \in Z
    BY <1>3, <1>4
  <2>2. \A n \in 0 .. MaxIdeas : e[n] \in Z
    <3>. HIDE DEF e, Z
    <3>. QED
      BY <1>0, <2>1, Climb
  <2>. HIDE DEF e
  <2>. QED
    BY <1>0, <2>2
<1>6. moved(MaxIdeas) = 0
  BY <1>0
<1>7. h[MaxIdeas] - g[MaxIdeas] = 0 /\ h[MaxIdeas] \in Int /\ g[MaxIdeas] \in Int
  BY <1>5, <1>6
<1>. QED
  BY <1>1, <1>2, <1>7

LEMMA PointsSame ==
  ASSUME NEW r, NEW s, \A i \in Ideas : r[i].elo \in Int /\ s[i].elo = r[i].elo
  PROVE  Points(s) = Points(r)
<1>0. MaxIdeas \in Nat /\ InitialElo \in Int
  BY RankingAssumption
<1>1. PICK g \in [0 .. MaxIdeas -> Int] :
        /\ g[0] = 0 /\ \A n \in 1 .. MaxIdeas : g[n] = g[n - 1] + r[n].elo - InitialElo
        /\ Points(r) = g[MaxIdeas]
  BY PointsAre
<1>2. PICK h \in [0 .. MaxIdeas -> Int] :
        /\ h[0] = 0 /\ \A n \in 1 .. MaxIdeas : h[n] = h[n - 1] + s[n].elo - InitialElo
        /\ Points(s) = h[MaxIdeas]
  BY PointsAre
<1>. DEFINE e == [n \in 0 .. MaxIdeas |-> h[n] - g[n]]
<1>3. e[0] \in {0}
  BY <1>0, <1>1, <1>2
<1>4. \A n \in 1 .. MaxIdeas : e[n - 1] \in {0} => e[n] \in {0}
  <2>. SUFFICES ASSUME NEW n \in 1 .. MaxIdeas, e[n - 1] = 0 PROVE e[n] = 0
    OBVIOUS
  <2>1. n - 1 \in 0 .. MaxIdeas /\ n \in 0 .. MaxIdeas
    BY <1>0
  <2>2. g[n] \in Int /\ h[n] \in Int /\ g[n - 1] \in Int /\ h[n - 1] \in Int /\ h[n - 1] = g[n - 1]
    BY <2>1
  <2>3. r[n].elo \in Int /\ s[n].elo = r[n].elo
    BY DEF Ideas
  <2>4. h[n] = g[n]
    BY <1>0, <1>1, <1>2, <2>2, <2>3
  <2>. QED
    BY <2>1, <2>2, <2>4
<1>5. e[MaxIdeas] = 0 /\ MaxIdeas \in 0 .. MaxIdeas
  <2>. DEFINE Z == {0}
  <2>1. e[0] \in Z /\ \A n \in 1 .. MaxIdeas : e[n - 1] \in Z => e[n] \in Z
    BY <1>3, <1>4
  <2>2. \A n \in 0 .. MaxIdeas : e[n] \in Z
    <3>. HIDE DEF e, Z
    <3>. QED
      BY <1>0, <2>1, Climb
  <2>. HIDE DEF e
  <2>. QED
    BY <1>0, <2>2
<1>6. h[MaxIdeas] - g[MaxIdeas] = 0 /\ h[MaxIdeas] \in Int /\ g[MaxIdeas] \in Int
  BY <1>5
<1>. QED
  BY <1>1, <1>2, <1>6

LEMMA PointsNone ==
  ASSUME NEW r, \A i \in Ideas : r[i].elo = InitialElo
  PROVE  Points(r) = 0
<1>0. MaxIdeas \in Nat /\ InitialElo \in Int
  BY RankingAssumption
<1>1. PICK g \in [0 .. MaxIdeas -> Int] :
        /\ g[0] = 0 /\ \A n \in 1 .. MaxIdeas : g[n] = g[n - 1] + r[n].elo - InitialElo
        /\ Points(r) = g[MaxIdeas]
  BY <1>0, PointsAre
<1>. DEFINE Z == {0}
<1>2. ASSUME NEW n \in 1 .. MaxIdeas, g[n - 1] \in Z PROVE g[n] \in Z
  <2>1. r[n].elo = InitialElo
    BY DEF Ideas
  <2>2. g[n] = 0 + InitialElo - InitialElo
    BY <1>1, <1>2, <2>1
  <2>. QED
    BY <1>0, <2>2
<1>3. \A n \in 0 .. MaxIdeas : g[n] \in Z
  <2>1. g[0] \in Z
    BY <1>1
  <2>. HIDE DEF Z
  <2>. QED
    BY <1>0, <1>2, <2>1, Climb
<1>. QED
  BY <1>0, <1>1, <1>3

-----------------------------------------------------------------------------
(* What make_pairs draws from: pairs of two ideas of the pool, the one ahead *)
(* first, and a pair for every newcomer that has a legal opponent.          *)

Rated == \A i \in Ideas : idea[i].elo \in Int /\ idea[i].matches \in Nat
Pairs(S) == {p \in S \X S : Ahead(p[1], p[2])}

LEMMA PoolIsFinite ==
  ASSUME NEW S \in SUBSET Ideas
  PROVE  IsFiniteSet(S) /\ Cardinality(S) \in Nat /\ S \subseteq Int
<1>1. MaxIdeas \in Nat
  BY RankingAssumption
<1>2. IsFiniteSet(Ideas)
  BY <1>1, FS_Interval DEF Ideas
<1>3. IsFiniteSet(S)
  BY <1>2, FS_Subset
<1>. QED
  BY <1>1, <1>3, FS_CardinalityType DEF Ideas

LEMMA StandingsAreStrict ==
  ASSUME Rated, NEW S \in SUBSET Ideas
  PROVE  Strict(S, Pairs(S))
<1>1. \A i \in S : idea[i].elo \in Int /\ i \in Int
  BY PoolIsFinite DEF Rated
<1>2. \A i, j \in S : <<i, j>> \in Pairs(S) <=> Ahead(i, j)
  BY DEF Pairs
<1>3. \A i \in S : ~Ahead(i, i)
  BY <1>1 DEF Ahead
<1>4. \A i, j \in S : i # j => Ahead(i, j) \/ Ahead(j, i)
  BY <1>1 DEF Ahead
<1>5. \A i, j, k \in S : Ahead(i, j) /\ Ahead(j, k) => Ahead(i, k)
  BY <1>1 DEF Ahead
<1>. QED
  BY <1>2, <1>3, <1>4, <1>5 DEF Strict

(* A pair is of two ideas, and no two pairs are of the same two. *)
LEMMA PairsDiffer ==
  ASSUME Rated, NEW S \in SUBSET Ideas, NEW p \in Pairs(S)
  PROVE  /\ p[1] \in S /\ p[2] \in S /\ p[1] # p[2]
         /\ \A q \in Pairs(S) : {p[1], p[2]} = {q[1], q[2]} => p = q
<1>1. Strict(S, Pairs(S))
  BY StandingsAreStrict
<1>2. \A q \in Pairs(S) : q[1] \in S /\ q[2] \in S /\ q = <<q[1], q[2]>>
  BY DEF Pairs
<1>3. \A i \in S : <<i, i>> \notin Pairs(S)
  BY <1>1 DEF Strict
<1>4. \A i, j \in S : ~(<<i, j>> \in Pairs(S) /\ <<j, i>> \in Pairs(S))
  BY <1>1, <1>3 DEF Strict
<1>5. p[1] # p[2]
  BY <1>2, <1>3
<1>6. ASSUME NEW q \in Pairs(S), {p[1], p[2]} = {q[1], q[2]} PROVE p = q
  <2>. DEFINE x == p[1]   y == p[2]   u == q[1]   v == q[2]
  <2>1. p = <<x, y>> /\ q = <<u, v>> /\ p \in Pairs(S) /\ x \in S /\ y \in S
    BY <1>2
  <2>2. {x, y} = {u, v} /\ x # y
    BY <1>5, <1>6
  <2>. HIDE DEF x, y, u, v
  <2>3. (u = x /\ v = y) \/ (u = y /\ v = x)
    BY <2>2
  <2>. QED
    BY <1>4, <2>1, <2>3
<1>. QED
  BY <1>2, <1>5, <1>6

LEMMA RankedIs ==
  ASSUME Rated, NEW S \in SUBSET Ideas
  PROVE  Lists(Ranked(S), S, Pairs(S)) /\ Ranked(S) \in Seq(S) /\ Len(Ranked(S)) = Cardinality(S)
<1>1. IsFiniteSet(S) /\ Cardinality(S) \in Nat
  BY PoolIsFinite
<1>2. Lists(ByPlace(S, Pairs(S)), S, Pairs(S))
  BY <1>1, StandingsAreStrict, ListedInOrder
<1>3. Ranked(S) = ByPlace(S, Pairs(S))
  <2>. DEFINE place(i) == Cardinality({j \in S : Ahead(j, i)})
  <2>1. \A i \in S : {j \in S : Ahead(j, i)} = {j \in S : <<j, i>> \in Pairs(S)}
    BY DEF Pairs
  <2>2. \A i \in S : place(i) = PlaceIn(S, Pairs(S), i)
    BY <2>1 DEF PlaceIn
  <2>3. Ranked(S) = [n \in 1 .. Cardinality(S) |-> CHOOSE i \in S : place(i) = n - 1]
    BY DEF Ranked, Sorted
  <2>. HIDE DEF place
  <2>4. \A n : (CHOOSE i \in S : place(i) = n - 1) = (CHOOSE i \in S : PlaceIn(S, Pairs(S), i) = n - 1)
    BY <2>2
  <2>. QED
    BY <2>3, <2>4 DEF ByPlace
<1>. QED
  BY <1>1, <1>2, <1>3, FunctionIsSeq DEF Lists

\* The order of the pool, and the pairs it can be drawn to.
Order(S, c, ranked) ==
  /\ c \in Nat /\ ranked \in [1 .. c -> S]
  /\ \A m, n \in 1 .. c : m < n => <<ranked[m], ranked[n]>> \in Pairs(S)

LEMMA WithPartnerIs ==
  ASSUME NEW S, NEW c, NEW ranked, Order(S, c, ranked), NEW C \in SUBSET Pairs(S), NEW n \in 1 .. c
  PROVE  WithPartner(ranked, C, n) \in SUBSET Pairs(S) /\ C \subseteq WithPartner(ranked, C, n)
<1>1. NearestLegal(ranked, n) \subseteq (1 .. c) \ {n}
  BY DEF NearestLegal, Order
<1>. DEFINE reach(k) == IF n < k THEN <<ranked[n], ranked[k]>> ELSE <<ranked[k], ranked[n]>>
            added == {reach(k) : k \in NearestLegal(ranked, n)}
<1>2. ASSUME NEW k \in NearestLegal(ranked, n) PROVE reach(k) \in Pairs(S)
  <2>1. k \in 1 .. c /\ k # n /\ (n < k \/ k < n)
    BY <1>1 DEF Order
  <2>. QED
    BY <2>1 DEF Order
<1>3. added \subseteq Pairs(S)
  BY <1>2
<1>4. WithPartner(ranked, C, n) \in {C, C \cup added}
  BY DEF WithPartner
<1>. HIDE DEF added
<1>. QED
  BY <1>3, <1>4

(* Somebody within reach is nearest, so whoever looks for a partner has one. *)
LEMMA FindsPartner ==
  ASSUME NEW S, NEW c, NEW ranked, Order(S, c, ranked), NEW C \in SUBSET Pairs(S), NEW n \in 1 .. c,
         Newcomer(ranked[n]), NEW k \in 1 .. c, k # n, Legal(ranked[n], ranked[k])
  PROVE  Paired(ranked[n], WithPartner(ranked, C, n))
<1>. DEFINE open == {l \in DOMAIN ranked \ {n} : Legal(ranked[n], ranked[l])}
            Far(l) == IF l < n THEN n - l ELSE l - n
<1>1. c \in Nat /\ DOMAIN ranked = 1 .. c
  BY DEF Order
<1>2. k \in open /\ open \in SUBSET (1 .. c)
  BY <1>1
<1>3. \A l \in open : Far(l) \in Nat /\ l \in Nat
  BY <1>1
<1>. HIDE DEF open, Far
<1>4. PICK x \in open : \A j \in open : Far(x) <= Far(j)
  <2>. DEFINE F == {Far(l) : l \in open}
  <2>1. F \in SUBSET Nat /\ F # {}
    BY <1>2, <1>3
  <2>2. PICK v \in F : \A w \in F : v <= w
    <3>. HIDE DEF F
    <3>. QED
      BY <2>1, LeastOf
  <2>. QED
    BY <2>2
<1>5. PICK y \in open : Far(y) = Far(x) /\ \A j \in open : Far(j) = Far(x) => y <= j
  <2>. DEFINE F == {l \in open : Far(l) = Far(x)}
  <2>1. F \in SUBSET Nat /\ F # {}
    BY <1>3
  <2>2. PICK v \in F : \A w \in F : v <= w
    <3>. HIDE DEF F
    <3>. QED
      BY <2>1, LeastOf
  <2>. QED
    BY <2>2
<1>6. \A j \in open : Far(y) < Far(j) \/ (Far(y) = Far(j) /\ y <= j)
  <2>. SUFFICES ASSUME NEW j \in open PROVE Far(y) < Far(j) \/ (Far(y) = Far(j) /\ y <= j)
    OBVIOUS
  <2>1. Far(y) \in Int /\ Far(j) \in Int /\ Far(x) \in Int
    BY <1>3
  <2>. QED
    BY <1>4, <1>5, <2>1
<1>7. y \in NearestLegal(ranked, n)
  BY <1>6 DEF NearestLegal, open, Far
<1>. DEFINE reach(l) == IF n < l THEN <<ranked[n], ranked[l]>> ELSE <<ranked[l], ranked[n]>>
            added == {reach(l) : l \in NearestLegal(ranked, n)}
<1>8. reach(y) \in added /\ ranked[n] \in {reach(y)[1], reach(y)[2]}
  BY <1>7
<1>9. WithPartner(ranked, C, n) = IF ~Paired(ranked[n], C) THEN C \cup added ELSE C
  BY DEF WithPartner
<1>. HIDE DEF reach, added
<1>. QED
  BY <1>8, <1>9 DEF Paired

\* The candidates as they are collected, position by position.
Collected(S, c, ranked, g) ==
  /\ g \in [0 .. c -> SUBSET Pairs(S)] /\ g[c] = Candidates(ranked)
  /\ \A n \in 1 .. c : g[n] = WithPartner(ranked, g[n - 1], n)

LEMMA CandidatesGrow ==
  ASSUME NEW S, NEW c, NEW ranked, Order(S, c, ranked)
  PROVE  \E g : Collected(S, c, ranked, g)
<1>. DEFINE T == SUBSET Pairs(S)
            by == [n \in 1 .. c |-> [C \in T |-> WithPartner(ranked, C, n)]]
            upto[n \in 0 .. c] ==
              IF n = 0 THEN Adjacent(ranked) ELSE WithPartner(ranked, upto[n - 1], n)
<1>1. c \in Nat /\ ranked \in [1 .. c -> S]
  BY DEF Order
<1>2. Len(ranked) = c
  BY <1>1, FunctionIsSeq
<1>3. Adjacent(ranked) \in T
  <2>1. ASSUME NEW n \in 1 .. c - 1 PROVE <<ranked[n], ranked[n + 1]>> \in Pairs(S)
    <3>1. n \in 1 .. c /\ n + 1 \in 1 .. c /\ n < n + 1
      BY <1>1
    <3>. QED
      BY <3>1 DEF Order
  <2>. QED
    BY <1>2, <2>1 DEF Adjacent
<1>4. \A C \in T : \A n \in 1 .. c : WithPartner(ranked, C, n) \in T
  BY WithPartnerIs
<1>5. by \in [1 .. c -> [T -> T]]
  <2>. HIDE DEF T
  <2>. QED
    BY <1>4
<1>6. Iterable(c, T, Adjacent(ranked), by)
  <2>. HIDE DEF T, by
  <2>. QED
    BY <1>1, <1>3, <1>5, Iterates
<1>7. PICK g \in [0 .. c -> T] : g[0] = Adjacent(ranked) /\ \A k \in 1 .. c : g[k] = by[k][g[k - 1]]
  <2>. HIDE DEF T, by
  <2>. QED
    BY <1>6 DEF Iterable
<1>8. \A n \in 1 .. c : g[n] = WithPartner(ranked, g[n - 1], n)
  <2>. SUFFICES ASSUME NEW n \in 1 .. c PROVE g[n] = WithPartner(ranked, g[n - 1], n)
    OBVIOUS
  <2>1. n - 1 \in 0 .. c /\ g[n - 1] \in T
    BY <1>1
  <2>. QED
    BY <1>7, <2>1
<1>9. g = [n \in 0 .. c |-> IF n = 0 THEN Adjacent(ranked) ELSE WithPartner(ranked, g[n - 1], n)]
  BY <1>1, <1>7, <1>8
<1>10. upto = [n \in 0 .. c |-> IF n = 0 THEN Adjacent(ranked) ELSE WithPartner(ranked, upto[n - 1], n)]
  BY <1>9
<1>11. Candidates(ranked) = upto[c]
  BY <1>2 DEF Candidates
<1>. HIDE DEF upto, T
<1>12. \A n \in 0 .. c : upto[n] \in T
  <2>1. upto[0] \in T /\ \A n \in 1 .. c : upto[n - 1] \in T => upto[n] \in T
    BY <1>1, <1>3, <1>4, <1>10
  <2>. QED
    BY <1>1, <2>1, Climb
<1>13. Collected(S, c, ranked, upto)
  <2>1. upto \in [0 .. c -> T]
    BY <1>10, <1>12
  <2>2. \A n \in 1 .. c : upto[n] = WithPartner(ranked, upto[n - 1], n)
    BY <1>1, <1>10
  <2>. QED
    BY <1>11, <2>1, <2>2 DEF Collected, T
<1>. QED
  BY <1>13

LEMMA RankedInOrder ==
  ASSUME Rated, NEW S \in SUBSET Ideas
  PROVE  Order(S, Cardinality(S), Ranked(S))
BY RankedIs, PoolIsFinite DEF Order, Lists

LEMMA CandidatesAre ==
  ASSUME Rated, NEW S \in SUBSET Ideas
  PROVE  Candidates(Ranked(S)) \in SUBSET Pairs(S)
<1>1. Cardinality(S) \in Nat
  BY PoolIsFinite
<1>2. PICK g : Collected(S, Cardinality(S), Ranked(S), g)
  BY RankedInOrder, CandidatesGrow
<1>3. Cardinality(S) \in 0 .. Cardinality(S)
  BY <1>1
<1>. QED
  BY <1>2, <1>3 DEF Collected

(* A newcomer with a legal opponent is somebody's candidate. *)
LEMMA NewcomersHaveCandidates ==
  ASSUME Rated, NEW S \in SUBSET Ideas, NEW i \in S, Newcomer(i), NEW j \in S, j # i, Legal(i, j)
  PROVE  Paired(i, Candidates(Ranked(S)))
<1>. DEFINE c == Cardinality(S)
            ranked == Ranked(S)
            T == SUBSET Pairs(S)
            R == {p \in T \X T : p[1] \subseteq p[2]}
<1>1. c \in Nat /\ Order(S, c, ranked) /\ Lists(ranked, S, Pairs(S))
  BY RankedInOrder, RankedIs, PoolIsFinite
<1>. HIDE DEF ranked
<1>2. PICK g : Collected(S, c, ranked, g)
  BY <1>1, CandidatesGrow
<1>3. PICK n \in 1 .. c : ranked[n] = i
  BY <1>1 DEF Lists
<1>4. PICK k \in 1 .. c : ranked[k] = j
  BY <1>1 DEF Lists
<1>. HIDE DEF c
<1>5. g \in [0 .. c -> T] /\ g[c] = Candidates(ranked)
  BY <1>2 DEF Collected
<1>6. Paired(i, g[n])
  <2>1. n - 1 \in 0 .. c /\ k # n
    BY <1>1, <1>3, <1>4
  <2>2. g[n - 1] \in SUBSET Pairs(S) /\ g[n] = WithPartner(ranked, g[n - 1], n)
    BY <1>2, <1>5, <2>1 DEF Collected
  <2>. QED
    BY <1>1, <1>3, <1>4, <2>1, <2>2, FindsPartner
<1>7. ASSUME NEW l \in 1 .. c PROVE <<g[l - 1], g[l]>> \in R
  <2>1. l - 1 \in 0 .. c /\ l \in 0 .. c
    BY <1>1
  <2>2. g[l - 1] \in T /\ g[l] \in T /\ g[l] = WithPartner(ranked, g[l - 1], l)
    BY <1>2, <1>5, <2>1 DEF Collected
  <2>3. g[l - 1] \subseteq g[l]
    BY <1>1, <2>2, WithPartnerIs
  <2>. QED
    BY <2>2, <2>3
<1>8. <<g[n], g[c]>> \in R
  <2>1. (\A t \in T : <<t, t>> \in R) /\ (\A t, u, w \in T : <<t, u>> \in R /\ <<u, w>> \in R => <<t, w>> \in R)
    OBVIOUS
  <2>. HIDE DEF R, T
  <2>2. \A a, b \in 0 .. c : a <= b => <<g[a], g[b]>> \in R
    BY <1>1, <1>5, <1>7, <2>1, Onwards
  <2>. QED
    BY <1>1, <2>2
<1>9. g[n] \subseteq g[c]
  BY <1>8
<1>. HIDE DEF R, T
<1>. QED
  BY <1>5, <1>6, <1>9 DEF Paired, ranked

-----------------------------------------------------------------------------
(* A plan as it is drawn up: slot by slot, no pair twice, never too long.   *)

Distinct(t) == \A m, n \in DOMAIN t : t[m] = t[n] => m = n
Plans(S)    == {t \in Seq(Pairs(S)) : Len(t) <= PerRound /\ Distinct(t)}

\* u is t and one slot more, for a pair of `among` that t does not have
Gains(t, u, among) == Len(t) < PerRound /\ \E p \in among : p \notin ToSet(t) /\ u = Append(t, p)
Continues(t, u)    == Len(t) <= Len(u) /\ \A n \in 1 .. Len(t) : u[n] = t[n]

LEMMA PairsAreFinite ==
  ASSUME NEW S \in SUBSET Ideas, NEW C \in SUBSET Pairs(S)
  PROVE  IsFiniteSet(C) /\ Cardinality(C) \in Nat
<1>1. IsFiniteSet(S \X S)
  BY PoolIsFinite, FS_Product
<1>2. C \subseteq S \X S
  BY DEF Pairs
<1>3. IsFiniteSet(C)
  BY <1>1, <1>2, FS_Subset
<1>. QED
  BY <1>3, FS_CardinalityType

LEMMA PoolsAre ==
  ASSUME NEW S \in SUBSET Ideas, NEW C \in SUBSET Pairs(S), NEW pool \in OrderedPools(C)
  PROVE  pool \in Seq(Pairs(S)) /\ ToSet(pool) = C
<1>. DEFINE c == Cardinality(C)
<1>1. c \in Nat
  BY PairsAreFinite
<1>2. pool \in [1 .. c -> C] /\ \A m, n \in 1 .. c : m # n => pool[m] # pool[n]
  BY DEF OrderedPools, SetToSeqs
<1>3. pool \in [1 .. c -> Pairs(S)]
  BY <1>2
<1>4. ASSUME NEW p \in C PROVE \E n \in 1 .. c : pool[n] = p
  <2>. SUFFICES ASSUME \A n \in 1 .. c : pool[n] # p PROVE FALSE
    OBVIOUS
  <2>. DEFINE D == 1 .. c
              rest == C \ {p}
  <2>1. IsFiniteSet(rest) /\ Cardinality(rest) = c - 1
    BY PairsAreFinite, FS_RemoveElement
  <2>2. IsFiniteSet(D) /\ Cardinality(D) = c
    <3>. HIDE DEF c
    <3>. QED
      BY <1>1, FS_Interval
  <2>3. pool \in [D -> rest] /\ \A m, n \in D : m # n => pool[m] # pool[n]
    BY <1>2
  <2>4. Cardinality(rest) < Cardinality(D)
    BY <1>1, <2>1, <2>2
  <2>. HIDE DEF D, rest, c
  <2>. QED
    BY <2>1, <2>2, <2>3, <2>4, FS_PigeonHole
<1>. HIDE DEF c
<1>5. ToSet(pool) = C
  BY <1>2, <1>4 DEF ToSet
<1>. QED
  BY <1>1, <1>3, <1>5, FunctionIsSeq

LEMMA PlayedIs ==
  ASSUME Rated, NEW i \in Ideas, NEW taken, taken \in Seq(Pairs(Ideas))
  PROVE  Played(i, taken) \in Nat
<1>. DEFINE T == {n \in DOMAIN taken : i \in {taken[n][1], taken[n][2]}}
<1>1. DOMAIN taken = 1 .. Len(taken) /\ Len(taken) \in Nat
  OBVIOUS
<1>2. IsFiniteSet(DOMAIN taken)
  BY <1>1, FS_Interval
<1>3. T \subseteq DOMAIN taken
  OBVIOUS
<1>4. IsFiniteSet(T) /\ Cardinality(T) \in Nat
  <2>. HIDE DEF T
  <2>. QED
    BY <1>2, <1>3, FS_Subset, FS_CardinalityType
<1>5. idea[i].matches \in Nat
  BY DEF Rated
<1>6. Played(i, taken) = idea[i].matches + Cardinality(T)
  BY DEF Played
<1>. HIDE DEF T
<1>. QED
  BY <1>4, <1>5, <1>6

LEMMA LeastPlayedIs ==
  ASSUME Rated, NEW S \in SUBSET Ideas, NEW pool \in Seq(Pairs(S)), NEW taken \in Seq(Pairs(S)),
         NEW choices \in SUBSET DOMAIN pool, choices # {}
  PROVE  \E n \in choices : LeastPlayed(pool, choices, taken) = pool[n]
<1>. DEFINE a == [n \in choices |-> Played(pool[n][1], taken)]
            b == [n \in choices |-> Played(pool[n][2], taken)]
            low == [n \in choices |-> IF a[n] <= b[n] THEN a[n] ELSE b[n]]
            both == [n \in choices |-> a[n] + b[n]]
            Less(m, n) == LessPlayed(pool[m], pool[n], taken)
<1>1. \A n \in choices : pool[n] \in Pairs(S) /\ n \in Nat
  OBVIOUS
<1>2. taken \in Seq(Pairs(Ideas))
  BY DEF Pairs
<1>3. ASSUME NEW n \in choices PROVE a[n] \in Nat /\ b[n] \in Nat
  <2>1. pool[n][1] \in Ideas /\ pool[n][2] \in Ideas
    BY <1>1 DEF Pairs
  <2>2. Played(pool[n][1], taken) \in Nat /\ Played(pool[n][2], taken) \in Nat
    BY <1>2, <2>1, PlayedIs
  <2>. QED
    BY <2>2
<1>4. \A m, n \in choices : Less(m, n) <=> (low[m] < low[n] \/ (low[m] = low[n] /\ both[m] < both[n]))
  BY DEF LessPlayed
<1>5. \A n \in choices : low[n] \in Nat /\ both[n] \in Nat
  <2>. SUFFICES ASSUME NEW n \in choices PROVE low[n] \in Nat /\ both[n] \in Nat
    OBVIOUS
  <2>1. a[n] \in Nat /\ b[n] \in Nat
    BY <1>3
  <2>2. low[n] = (IF a[n] <= b[n] THEN a[n] ELSE b[n]) /\ both[n] = a[n] + b[n]
    OBVIOUS
  <2>. HIDE DEF a, b, low, both
  <2>. QED
    BY <2>1, <2>2
<1>. HIDE DEF a, b, low, both, Less
<1>6. PICK x \in choices : \A m \in choices : low[x] <= low[m]
  <2>. DEFINE T == {low[n] : n \in choices}
  <2>1. T \in SUBSET Nat /\ T # {}
    BY <1>5
  <2>2. PICK v \in T : \A k \in T : v <= k
    <3>. HIDE DEF T
    <3>. QED
      BY <2>1, LeastOf
  <2>. QED
    BY <2>2
<1>7. PICK y \in choices : low[y] = low[x] /\ \A m \in choices : low[m] = low[x] => both[y] <= both[m]
  <2>. DEFINE lows == {n \in choices : low[n] = low[x]}
              T == {both[n] : n \in lows}
  <2>1. T \in SUBSET Nat /\ T # {}
    BY <1>5
  <2>2. PICK v \in T : \A k \in T : v <= k
    <3>. HIDE DEF T
    <3>. QED
      BY <2>1, LeastOf
  <2>. QED
    BY <2>2
<1>8. PICK z \in choices : /\ low[z] = low[x] /\ both[z] = both[y]
                           /\ \A m \in choices : (low[m] = low[x] /\ both[m] = both[y]) => z <= m
  <2>. DEFINE T == {n \in choices : low[n] = low[x] /\ both[n] = both[y]}
  <2>1. T \in SUBSET Nat /\ T # {}
    BY <1>1, <1>7
  <2>2. PICK v \in T : \A k \in T : v <= k
    <3>. HIDE DEF T
    <3>. QED
      BY <2>1, LeastOf
  <2>. QED
    BY <2>2
<1>9. \A m \in choices : Less(z, m) \/ (~Less(m, z) /\ z <= m)
  <2>. SUFFICES ASSUME NEW m \in choices PROVE Less(z, m) \/ (~Less(m, z) /\ z <= m)
    OBVIOUS
  <2>1. low[z] \in Nat /\ low[m] \in Nat /\ both[z] \in Nat /\ both[m] \in Nat
    BY <1>5
  <2>2. low[z] <= low[m] /\ (low[m] = low[z] => both[z] <= both[m])
        /\ (low[m] = low[z] /\ both[m] = both[z] => z <= m)
    BY <1>6, <1>7, <1>8
  <2>. QED
    BY <1>4, <2>1, <2>2
<1>. DEFINE least == CHOOSE n \in choices : \A m \in choices : Less(n, m) \/ (~Less(m, n) /\ n <= m)
<1>10. least \in choices
  BY <1>9
<1>11. LeastPlayed(pool, choices, taken) = pool[least]
  BY DEF LeastPlayed, Less
<1>. HIDE DEF least
<1>. QED
  BY <1>10, <1>11

LEMMA AppendIs ==
  ASSUME NEW P, NEW t \in Seq(P), NEW p \in P
  PROVE  /\ Append(t, p) \in Seq(P) /\ Len(Append(t, p)) = Len(t) + 1 /\ Len(t) \in Nat
         /\ \A n \in 1 .. Len(t) : Append(t, p)[n] = t[n]
         /\ Append(t, p)[Len(t) + 1] = p
OBVIOUS

LEMMA TakeIs ==
  ASSUME Rated, NEW S \in SUBSET Ideas, NEW pool \in Seq(Pairs(S)), NEW taken \in Plans(S), NEW among
  PROVE  /\ Take(pool, taken, among) \in Plans(S)
         /\ Take(pool, taken, among) = taken \/ Gains(taken, Take(pool, taken, among), among)
         /\ (Len(taken) < PerRound /\ \E p \in ToSet(pool) : p \in among /\ p \notin ToSet(taken))
              => Gains(taken, Take(pool, taken, among), among)
<1>. DEFINE choices == {n \in DOMAIN pool : pool[n] \in among /\ ~Contains(taken, pool[n])}
            best == LeastPlayed(pool, choices, taken)
<1>1. choices \in SUBSET DOMAIN pool
  OBVIOUS
<1>2. Take(pool, taken, among) = IF Len(taken) < PerRound /\ choices # {} THEN Append(taken, best) ELSE taken
  BY DEF Take
<1>3. taken \in Seq(Pairs(S)) /\ Len(taken) \in Nat /\ Len(taken) <= PerRound /\ PerRound \in Nat /\ Distinct(taken)
  BY RankingAssumption DEF Plans
<1>4. \A p : Contains(taken, p) <=> p \in ToSet(taken)
  BY <1>3 DEF Contains, ToSet
<1>5. ASSUME choices # {} PROVE best \in Pairs(S) /\ best \in among /\ best \notin ToSet(taken)
  <2>1. PICK n \in choices : best = pool[n]
    <3>. HIDE DEF choices
    <3>. QED
      BY <1>1, <1>3, <1>5, LeastPlayedIs
  <2>2. pool[n] \in Pairs(S)
    <3>1. n \in DOMAIN pool
      OBVIOUS
    <3>. QED
      BY <3>1
  <2>. QED
    BY <1>4, <2>1, <2>2
<1>6. (\E p \in ToSet(pool) : p \in among /\ p \notin ToSet(taken)) => choices # {}
  BY <1>4 DEF ToSet
<1>. HIDE DEF choices, best
<1>7. ASSUME Len(taken) < PerRound, choices # {}
      PROVE  Append(taken, best) \in Plans(S) /\ Gains(taken, Append(taken, best), among)
  <2>1. best \in Pairs(S) /\ best \in among /\ best \notin ToSet(taken)
    BY <1>5, <1>7
  <2>. DEFINE u == Append(taken, best)
              l == Len(taken)
  <2>2. /\ u \in Seq(Pairs(S)) /\ Len(u) = l + 1 /\ l \in Nat /\ DOMAIN u = 1 .. l + 1
        /\ \A n \in 1 .. l : u[n] = taken[n]
        /\ u[l + 1] = best
    BY <1>3, <2>1, AppendIs
  <2>3. DOMAIN taken = 1 .. l
    BY <1>3
  <2>4. \A n \in 1 .. l : taken[n] # best
    BY <2>1, <2>3 DEF ToSet
  <2>5. \A m, n \in 1 .. l : taken[m] = taken[n] => m = n
    BY <1>3, <2>3 DEF Distinct
  <2>. HIDE DEF u
  <2>6. Distinct(u)
    <3>. SUFFICES ASSUME NEW m \in 1 .. l + 1, NEW n \in 1 .. l + 1, u[m] = u[n] PROVE m = n
      BY <2>2 DEF Distinct
    <3>1. (m \in 1 .. l \/ m = l + 1) /\ (n \in 1 .. l \/ n = l + 1)
      BY <2>2
    <3>. QED
      BY <2>2, <2>4, <2>5, <3>1
  <2>7. u \in Plans(S)
    BY <1>3, <1>7, <2>2, <2>6 DEF Plans
  <2>. QED
    BY <1>7, <2>1, <2>7 DEF Gains, u
<1>. QED
  BY <1>2, <1>6, <1>7

LEMMA GainsContinue ==
  ASSUME NEW S, NEW t \in Plans(S), NEW u \in Plans(S), NEW among, u = t \/ Gains(t, u, among)
  PROVE  Continues(t, u)
<1>1. t \in Seq(Pairs(S)) /\ u \in Seq(Pairs(S))
  BY DEF Plans
<1>2. CASE u = t
  BY <1>1, <1>2 DEF Continues
<1>3. CASE Gains(t, u, among)
  <2>1. PICK p : u = Append(t, p)
    BY <1>3 DEF Gains
  <2>. QED
    BY <1>1, <2>1 DEF Continues
<1>. QED
  BY <1>2, <1>3

LEMMA FirstSlotIs ==
  ASSUME Rated, NEW S \in SUBSET Ideas, NEW pool \in Seq(Pairs(S)), NEW taken \in Plans(S), NEW i
  PROVE  /\ FirstSlot(pool, taken, i) \in Plans(S)
         /\ \/ FirstSlot(pool, taken, i) = taken
            \/ /\ ~Paired(i, ToSet(taken))
               /\ Gains(taken, FirstSlot(pool, taken, i), {p \in ToSet(pool) : i \in {p[1], p[2]}})
         /\ (Len(taken) < PerRound /\ Paired(i, ToSet(pool))) => Paired(i, ToSet(FirstSlot(pool, taken, i)))
<1>. DEFINE among == {p \in ToSet(pool) : i \in {p[1], p[2]}}
            u == Take(pool, taken, among)
<1>1. FirstSlot(pool, taken, i) = IF Paired(i, ToSet(taken)) THEN taken ELSE u
  BY DEF FirstSlot
<1>. HIDE DEF among, u
<1>2. /\ u \in Plans(S) /\ (u = taken \/ Gains(taken, u, among))
      /\ (Len(taken) < PerRound /\ \E p \in ToSet(pool) : p \in among /\ p \notin ToSet(taken)) => Gains(taken, u, among)
  BY TakeIs DEF u
<1>3. ASSUME ~Paired(i, ToSet(taken)), Paired(i, ToSet(pool)), Len(taken) < PerRound
      PROVE  Paired(i, ToSet(u))
  <2>1. PICK p \in ToSet(pool) : i \in {p[1], p[2]}
    BY <1>3 DEF Paired
  <2>2. p \in among /\ p \notin ToSet(taken)
    BY <1>3, <2>1 DEF Paired, among
  <2>3. PICK q \in among : u = Append(taken, q)
    BY <1>2, <1>3, <2>1, <2>2 DEF Gains
  <2>4. i \in {q[1], q[2]} /\ q \in ToSet(pool)
    BY <2>3 DEF among
  <2>5. q \in Pairs(S) /\ taken \in Seq(Pairs(S))
    BY <2>4 DEF ToSet, Plans
  <2>6. q \in ToSet(u)
    <3>1. Len(taken) + 1 \in DOMAIN u /\ u[Len(taken) + 1] = q
      BY <2>3, <2>5
    <3>. QED
      BY <3>1 DEF ToSet
  <2>. QED
    BY <2>4, <2>6 DEF Paired
<1>. QED
  BY <1>1, <1>2, <1>3 DEF among

\* The newcomers of a ranking in the order they are served.
NewcomersOf(ranked) == {i \in ToSet(ranked) : Newcomer(i)}
RankOf(ranked, i)   == CHOOSE n \in DOMAIN ranked : ranked[n] = i
Sooner(ranked) ==
  {p \in NewcomersOf(ranked) \X NewcomersOf(ranked) :
     \/ idea[p[1]].matches < idea[p[2]].matches
     \/ idea[p[1]].matches = idea[p[2]].matches /\ RankOf(ranked, p[1]) < RankOf(ranked, p[2])}
ServingOrder(ranked) == ByPlace(NewcomersOf(ranked), Sooner(ranked))

LEMMA ServedInOrder ==
  ASSUME Rated, NEW S \in SUBSET Ideas, NEW ranked \in Seq(S)
  PROVE  /\ Lists(ServingOrder(ranked), NewcomersOf(ranked), Sooner(ranked))
         /\ Cardinality(NewcomersOf(ranked)) \in Nat
<1>. DEFINE new == NewcomersOf(ranked)
            R == Sooner(ranked)
<1>1. new \in SUBSET Ideas /\ \A i \in new : \E n \in DOMAIN ranked : ranked[n] = i
  BY DEF NewcomersOf, ToSet
<1>2. IsFiniteSet(new) /\ Cardinality(new) \in Nat
  BY <1>1, PoolIsFinite
<1>3. \A i \in new : RankOf(ranked, i) \in Int /\ ranked[RankOf(ranked, i)] = i /\ idea[i].matches \in Int
  <2>. SUFFICES ASSUME NEW i \in new PROVE RankOf(ranked, i) \in Int /\ ranked[RankOf(ranked, i)] = i /\ idea[i].matches \in Int
    OBVIOUS
  <2>1. RankOf(ranked, i) \in DOMAIN ranked /\ ranked[RankOf(ranked, i)] = i
    BY <1>1 DEF RankOf
  <2>2. DOMAIN ranked \subseteq Int
    OBVIOUS
  <2>. QED
    BY <1>1, <2>1, <2>2 DEF Rated
<1>4. \A i, j \in new :
        <<i, j>> \in R <=> \/ idea[i].matches < idea[j].matches
                           \/ idea[i].matches = idea[j].matches /\ RankOf(ranked, i) < RankOf(ranked, j)
  BY DEF Sooner
<1>. HIDE DEF new, R
<1>5. \A i \in new : <<i, i>> \notin R
  BY <1>3, <1>4
<1>6. \A i, j \in new : i # j => <<i, j>> \in R \/ <<j, i>> \in R
  <2>. SUFFICES ASSUME NEW i \in new, NEW j \in new, i # j PROVE <<i, j>> \in R \/ <<j, i>> \in R
    OBVIOUS
  <2>1. RankOf(ranked, i) # RankOf(ranked, j)
    BY <1>3
  <2>. QED
    BY <1>3, <1>4, <2>1
<1>7. \A i, j, k \in new : <<i, j>> \in R /\ <<j, k>> \in R => <<i, k>> \in R
  <2>. SUFFICES ASSUME NEW i \in new, NEW j \in new, NEW k \in new, <<i, j>> \in R, <<j, k>> \in R
                PROVE  <<i, k>> \in R
    OBVIOUS
  <2>1. \A l \in {i, j, k} : RankOf(ranked, l) \in Int /\ idea[l].matches \in Int
    BY <1>3
  <2>2. /\ \/ idea[i].matches < idea[j].matches
           \/ idea[i].matches = idea[j].matches /\ RankOf(ranked, i) < RankOf(ranked, j)
        /\ \/ idea[j].matches < idea[k].matches
           \/ idea[j].matches = idea[k].matches /\ RankOf(ranked, j) < RankOf(ranked, k)
    BY <1>4
  <2>3. \/ idea[i].matches < idea[k].matches
        \/ idea[i].matches = idea[k].matches /\ RankOf(ranked, i) < RankOf(ranked, k)
    BY <2>1, <2>2
  <2>. QED
    BY <1>4, <2>3
<1>8. Strict(new, R)
  BY <1>5, <1>6, <1>7 DEF Strict
<1>. QED
  BY <1>2, <1>8, ListedInOrder DEF ServingOrder, new, R

\* The plans phase 1 goes through, newcomer by newcomer.
Phase1(S, ranked, pool, c, g) ==
  /\ g \in [0 .. c -> Plans(S)] /\ g[0] = <<>> /\ g[c] = FirstSlots(ranked, pool)
  /\ \A n \in 1 .. c : g[n] = FirstSlot(pool, g[n - 1], ServingOrder(ranked)[n])

LEMMA SlotsAreGiven ==
  ASSUME Rated, NEW S \in SUBSET Ideas, NEW ranked \in Seq(S), NEW pool \in Seq(Pairs(S))
  PROVE  \E g : Phase1(S, ranked, pool, Cardinality(NewcomersOf(ranked)), g)
<1>. DEFINE position(i) == CHOOSE n \in DOMAIN ranked : ranked[n] = i
            newcomers == {i \in ToSet(ranked) : Newcomer(i)}
            order == Sorted(newcomers,
              LAMBDA i, j : \/ idea[i].matches < idea[j].matches
                            \/ idea[i].matches = idea[j].matches /\ position(i) < position(j))
            c == Cardinality(newcomers)
            T == Plans(S)
            by == [n \in 1 .. c |-> [t \in T |-> FirstSlot(pool, t, order[n])]]
            after[n \in 0 .. c] == IF n = 0 THEN <<>> ELSE FirstSlot(pool, after[n - 1], order[n])
<1>1. c \in Nat
  BY ServedInOrder DEF NewcomersOf
<1>2. FirstSlots(ranked, pool) = after[c]
  BY DEF FirstSlots
<1>3. order = ServingOrder(ranked)
  <2>. DEFINE place(i) == Cardinality({j \in newcomers :
                             \/ idea[j].matches < idea[i].matches
                             \/ idea[j].matches = idea[i].matches /\ position(j) < position(i)})
  <2>1. ASSUME NEW i \in newcomers PROVE place(i) = PlaceIn(newcomers, Sooner(ranked), i)
    <3>1. \A j \in newcomers :
            <<j, i>> \in Sooner(ranked) <=> \/ idea[j].matches < idea[i].matches
                                            \/ idea[j].matches = idea[i].matches /\ position(j) < position(i)
      BY <2>1 DEF Sooner, NewcomersOf, RankOf
    <3>. HIDE DEF newcomers, position
    <3>. QED
      BY <3>1 DEF PlaceIn
  <2>2. order = [n \in 1 .. c |-> CHOOSE i \in newcomers : place(i) = n - 1]
    BY DEF Sorted
  <2>3. newcomers = NewcomersOf(ranked)
    BY DEF NewcomersOf
  <2>. HIDE DEF place, newcomers, order
  <2>4. \A n : (CHOOSE i \in newcomers : place(i) = n - 1)
                 = (CHOOSE i \in newcomers : PlaceIn(newcomers, Sooner(ranked), i) = n - 1)
    BY <2>1
  <2>5. ServingOrder(ranked) = [n \in 1 .. c |-> CHOOSE i \in newcomers : PlaceIn(newcomers, Sooner(ranked), i) = n - 1]
    BY <2>3 DEF ServingOrder, ByPlace
  <2>. QED
    BY <2>2, <2>4, <2>5
<1>4. c = Cardinality(NewcomersOf(ranked))
  BY DEF NewcomersOf
<1>. HIDE DEF order, newcomers, c
<1>5. \A t \in T : \A n \in 1 .. c : FirstSlot(pool, t, order[n]) \in T
  BY FirstSlotIs
<1>6. <<>> \in T
  <2>1. PerRound \in Nat
    BY RankingAssumption
  <2>. QED
    BY <2>1 DEF Plans, Distinct
<1>7. by \in [1 .. c -> [T -> T]]
  <2>. HIDE DEF T
  <2>. QED
    BY <1>5
<1>8. Iterable(c, T, <<>>, by)
  <2>. HIDE DEF T, by
  <2>. QED
    BY <1>1, <1>6, <1>7, Iterates
<1>9. PICK g \in [0 .. c -> T] : g[0] = <<>> /\ \A k \in 1 .. c : g[k] = by[k][g[k - 1]]
  <2>. HIDE DEF T, by
  <2>. QED
    BY <1>8 DEF Iterable
<1>. HIDE DEF T
<1>10. g = [n \in 0 .. c |-> IF n = 0 THEN <<>> ELSE FirstSlot(pool, g[n - 1], order[n])]
  <2>1. ASSUME NEW n \in 1 .. c PROVE g[n] = FirstSlot(pool, g[n - 1], order[n])
    <3>1. n - 1 \in 0 .. c /\ g[n - 1] \in T
      BY <1>1
    <3>. QED
      BY <1>9, <3>1
  <2>. QED
    BY <1>1, <1>9, <2>1
<1>11. after = [n \in 0 .. c |-> IF n = 0 THEN <<>> ELSE FirstSlot(pool, after[n - 1], order[n])]
  BY <1>10
<1>. HIDE DEF after
<1>12. \A n \in 0 .. c : after[n] \in T
  <2>1. after[0] \in T /\ \A n \in 1 .. c : after[n - 1] \in T => after[n] \in T
    BY <1>1, <1>5, <1>6, <1>11
  <2>. QED
    BY <1>1, <2>1, Climb
<1>13. Phase1(S, ranked, pool, c, after)
  <2>1. after \in [0 .. c -> T] /\ after[0] = <<>>
    BY <1>1, <1>11, <1>12
  <2>2. \A n \in 1 .. c : after[n] = FirstSlot(pool, after[n - 1], order[n])
    BY <1>1, <1>11
  <2>. QED
    BY <1>2, <1>3, <2>1, <2>2 DEF Phase1, T
<1>. QED
  BY <1>4, <1>13

\* The plans phase 2 goes through, slot by slot.
Phase2(S, ranked, pool, g) ==
  /\ g \in [0 .. PerRound -> Plans(S)]
  /\ g[0] = FirstSlots(ranked, pool) /\ g[PerRound] = Pairing(ranked, pool)
  /\ \A n \in 1 .. PerRound : g[n] = Take(pool, g[n - 1], ToSet(pool))

LEMMA SlotsAreFilled ==
  ASSUME Rated, NEW S \in SUBSET Ideas, NEW ranked \in Seq(S), NEW pool \in Seq(Pairs(S))
  PROVE  \E g : Phase2(S, ranked, pool, g)
<1>. DEFINE T == Plans(S)
            first == FirstSlots(ranked, pool)
            by == [n \in 1 .. PerRound |-> [t \in T |-> Take(pool, t, ToSet(pool))]]
            after[n \in 0 .. PerRound] == IF n = 0 THEN first ELSE Take(pool, after[n - 1], ToSet(pool))
<1>1. PerRound \in Nat
  BY RankingAssumption
<1>2. Pairing(ranked, pool) = after[PerRound]
  BY DEF Pairing
<1>3. first \in T
  <2>1. Cardinality(NewcomersOf(ranked)) \in Nat
    BY ServedInOrder
  <2>2. PICK g : Phase1(S, ranked, pool, Cardinality(NewcomersOf(ranked)), g)
    BY SlotsAreGiven
  <2>3. Cardinality(NewcomersOf(ranked)) \in 0 .. Cardinality(NewcomersOf(ranked))
    BY <2>1
  <2>. QED
    BY <2>2, <2>3 DEF Phase1
<1>. HIDE DEF first
<1>4. \A t \in T : Take(pool, t, ToSet(pool)) \in T
  BY TakeIs
<1>5. by \in [1 .. PerRound -> [T -> T]]
  <2>. HIDE DEF T
  <2>. QED
    BY <1>4
<1>6. Iterable(PerRound, T, first, by)
  <2>. HIDE DEF T, by
  <2>. QED
    BY <1>1, <1>3, <1>5, Iterates
<1>7. PICK g \in [0 .. PerRound -> T] : g[0] = first /\ \A k \in 1 .. PerRound : g[k] = by[k][g[k - 1]]
  <2>. HIDE DEF T, by
  <2>. QED
    BY <1>6 DEF Iterable
<1>. HIDE DEF T
<1>8. g = [n \in 0 .. PerRound |-> IF n = 0 THEN first ELSE Take(pool, g[n - 1], ToSet(pool))]
  <2>1. ASSUME NEW n \in 1 .. PerRound PROVE g[n] = Take(pool, g[n - 1], ToSet(pool))
    <3>1. n - 1 \in 0 .. PerRound /\ g[n - 1] \in T
      BY <1>1
    <3>. QED
      BY <1>7, <3>1
  <2>. QED
    BY <1>1, <1>7, <2>1
<1>9. after = [n \in 0 .. PerRound |-> IF n = 0 THEN first ELSE Take(pool, after[n - 1], ToSet(pool))]
  BY <1>8
<1>. HIDE DEF after
<1>10. \A n \in 0 .. PerRound : after[n] \in T
  <2>1. after[0] \in T /\ \A n \in 1 .. PerRound : after[n - 1] \in T => after[n] \in T
    BY <1>1, <1>3, <1>4, <1>9
  <2>. QED
    BY <1>1, <2>1, Climb
<1>11. after \in [0 .. PerRound -> T] /\ after[0] = first
  BY <1>1, <1>9, <1>10
<1>12. \A n \in 1 .. PerRound : after[n] = Take(pool, after[n - 1], ToSet(pool))
  BY <1>1, <1>9
<1>. QED
  BY <1>2, <1>11, <1>12 DEF Phase2, T, first

(* A slot that is given stands. *)
LEMMA PlansContinue ==
  ASSUME NEW S, NEW N \in Nat, NEW g \in [0 .. N -> Plans(S)],
         \A n \in 1 .. N : Continues(g[n - 1], g[n])
  PROVE  \A m, n \in 0 .. N : m <= n => Continues(g[m], g[n])
<1>. DEFINE T == Plans(S)
            R == {p \in T \X T : Continues(p[1], p[2])}
<1>1. \A t \in T : Len(t) \in Nat
  BY DEF Plans
<1>2. \A t \in T : <<t, t>> \in R
  BY <1>1 DEF Continues
<1>3. ASSUME NEW t \in T, NEW u \in T, NEW w \in T, Continues(t, u), Continues(u, w) PROVE Continues(t, w)
  <2>1. Len(t) \in Nat /\ Len(u) \in Nat /\ Len(w) \in Nat
    BY <1>1
  <2>. HIDE DEF T
  <2>. QED
    BY <1>3, <2>1 DEF Continues
<1>4. \A t, u, w \in T : <<t, u>> \in R /\ <<u, w>> \in R => <<t, w>> \in R
  BY <1>3
<1>5. \A n \in 1 .. N : <<g[n - 1], g[n]>> \in R
  <2>. SUFFICES ASSUME NEW n \in 1 .. N PROVE <<g[n - 1], g[n]>> \in R
    OBVIOUS
  <2>1. n - 1 \in 0 .. N /\ n \in 0 .. N
    OBVIOUS
  <2>. QED
    BY <2>1
<1>6. \A m, n \in 0 .. N : m <= n => <<g[m], g[n]>> \in R
  <2>. HIDE DEF T, R
  <2>1. g \in [0 .. N -> T]
    BY DEF T
  <2>. QED
    BY <1>2, <1>4, <1>5, <2>1, Onwards
<1>. QED
  BY <1>6

\* Slot n of the plan is the first that j has.
FirstIn(t, j, n) == j \in {t[n][1], t[n][2]} /\ \A k \in 1 .. n - 1 : j \notin {t[k][1], t[k][2]}

\* The first k newcomers account for every slot.
Accounted(t, k, ranked) == \A n \in DOMAIN t : \E l \in 1 .. k : FirstIn(t, ServingOrder(ranked)[l], n)

LEMMA SlotIsAccounted ==
  ASSUME Rated, NEW S \in SUBSET Ideas, NEW ranked, NEW pool \in Seq(Pairs(S)), NEW t \in Plans(S), NEW k \in Nat \ {0},
         Accounted(t, k - 1, ranked)
  PROVE  Accounted(FirstSlot(pool, t, ServingOrder(ranked)[k]), k, ranked)
<1>. DEFINE i == ServingOrder(ranked)[k]
            u == FirstSlot(pool, t, i)
            among == {p \in ToSet(pool) : i \in {p[1], p[2]}}
<1>1. u \in Plans(S) /\ (u = t \/ (~Paired(i, ToSet(t)) /\ Gains(t, u, among)))
  BY FirstSlotIs
<1>2. t \in Seq(Pairs(S)) /\ u \in Seq(Pairs(S))
  BY <1>1 DEF Plans
<1>3. \A l \in 1 .. k - 1 : l \in 1 .. k
  OBVIOUS
<1>4. CASE u = t
  BY <1>3, <1>4 DEF Accounted
<1>5. CASE u # t
  <2>1. ~Paired(i, ToSet(t))
    BY <1>1, <1>5
  <2>2. PICK p \in among : u = Append(t, p)
    BY <1>1, <1>5 DEF Gains
  <2>3. p \in Pairs(S) /\ i \in {p[1], p[2]}
    BY <2>2 DEF ToSet
  <2>. HIDE DEF u, among
  <2>. DEFINE m == Len(t)
  <2>4. /\ m \in Nat /\ DOMAIN t = 1 .. m /\ DOMAIN u = 1 .. m + 1
        /\ \A n \in 1 .. m : u[n] = t[n]
        /\ u[m + 1] = p
    BY <1>2, <2>2, <2>3, AppendIs
  <2>. HIDE DEF m
  <2>5. ASSUME NEW n \in 1 .. m PROVE \E l \in 1 .. k : FirstIn(u, ServingOrder(ranked)[l], n)
    <3>1. PICK l \in 1 .. k - 1 : FirstIn(t, ServingOrder(ranked)[l], n)
      BY <2>4 DEF Accounted
    <3>2. \A j \in 1 .. n : u[j] = t[j]
      BY <2>4
    <3>3. FirstIn(u, ServingOrder(ranked)[l], n)
      BY <3>1, <3>2 DEF FirstIn
    <3>. QED
      BY <1>3, <3>3
  <2>6. FirstIn(u, i, m + 1) /\ k \in 1 .. k
    <3>1. \A j \in 1 .. m : i \notin {t[j][1], t[j][2]}
      BY <2>1, <2>4 DEF Paired, ToSet
    <3>. HIDE DEF i
    <3>. QED
      BY <2>3, <2>4, <3>1 DEF FirstIn
  <2>. QED
    BY <2>4, <2>5, <2>6 DEF Accounted, u
<1>. QED
  BY <1>4, <1>5

(* A newcomer somebody could meet sits a plan out only when the plan is full *)
(* and each of its slots was the first of one who had played no more.       *)
LEMMA NewcomersAreServed ==
  ASSUME Rated, NEW S \in SUBSET Ideas, NEW pairs \in MakePairs(S),
         NEW i \in S, Newcomer(i), NEW j \in S, j # i, Legal(i, j), ~Paired(i, ToSet(pairs))
  PROVE  /\ Len(pairs) = PerRound
         /\ \A n \in 1 .. PerRound :
              \E e \in S : FirstIn(pairs, e, n) /\ idea[e].matches <= idea[i].matches
<1>. DEFINE ranked == Ranked(S)
            C == Candidates(ranked)
            c == Cardinality(NewcomersOf(ranked))
            order == ServingOrder(ranked)
<1>1. ranked \in Seq(S) /\ Lists(ranked, S, Pairs(S)) /\ C \in SUBSET Pairs(S) /\ Paired(i, C)
  BY RankedIs, CandidatesAre, NewcomersHaveCandidates
<1>2. PICK pool \in OrderedPools(C) : pairs = Pairing(ranked, pool)
  BY DEF MakePairs
<1>3. i \in NewcomersOf(ranked)
  <2>1. i \in ToSet(ranked)
    BY <1>1 DEF Lists, ToSet
  <2>. QED
    BY <2>1 DEF NewcomersOf
<1>. HIDE DEF ranked, C
<1>4. pool \in Seq(Pairs(S)) /\ ToSet(pool) = C
  BY <1>1, PoolsAre
<1>5. c \in Nat /\ Lists(order, NewcomersOf(ranked), Sooner(ranked)) /\ PerRound \in Nat
  BY <1>1, ServedInOrder, RankingAssumption
<1>6. PICK g : Phase1(S, ranked, pool, c, g)
  BY <1>1, <1>4, SlotsAreGiven
<1>7. PICK h : Phase2(S, ranked, pool, h)
  BY <1>1, <1>4, SlotsAreFilled
<1>. HIDE DEF c, order
<1>8. PICK n \in 1 .. c : order[n] = i
  BY <1>3, <1>5 DEF Lists, c
<1>9. /\ g \in [0 .. c -> Plans(S)] /\ g[0] = <<>> /\ g[c] = FirstSlots(ranked, pool)
      /\ \A k \in 1 .. c : g[k] = FirstSlot(pool, g[k - 1], order[k])
  BY <1>6 DEF Phase1, order
<1>10. /\ h \in [0 .. PerRound -> Plans(S)] /\ h[0] = g[c] /\ h[PerRound] = pairs
       /\ \A k \in 1 .. PerRound : h[k] = Take(pool, h[k - 1], ToSet(pool))
  BY <1>2, <1>7, <1>9 DEF Phase2
<1>11. \A a, b \in 0 .. c : a <= b => Continues(g[a], g[b])
  <2>1. ASSUME NEW k \in 1 .. c PROVE Continues(g[k - 1], g[k])
    <3>1. k - 1 \in 0 .. c /\ k \in 0 .. c /\ g[k - 1] \in Plans(S) /\ g[k] \in Plans(S)
      BY <1>5, <1>9
    <3>. DEFINE among == {p \in ToSet(pool) : order[k] \in {p[1], p[2]}}
    <3>2. g[k] = g[k - 1] \/ Gains(g[k - 1], g[k], among)
      BY <1>4, <1>9, <3>1, FirstSlotIs
    <3>. HIDE DEF among
    <3>. QED
      BY <3>1, <3>2, GainsContinue
  <2>. QED
    BY <1>5, <1>9, <2>1, PlansContinue
<1>12. \A a, b \in 0 .. PerRound : a <= b => Continues(h[a], h[b])
  <2>1. ASSUME NEW k \in 1 .. PerRound PROVE Continues(h[k - 1], h[k])
    <3>1. k - 1 \in 0 .. PerRound /\ k \in 0 .. PerRound /\ h[k - 1] \in Plans(S) /\ h[k] \in Plans(S)
      BY <1>5, <1>10
    <3>2. h[k] = h[k - 1] \/ Gains(h[k - 1], h[k], ToSet(pool))
      BY <1>4, <1>10, <3>1, TakeIs
    <3>. QED
      BY <3>1, <3>2, GainsContinue
  <2>. QED
    BY <1>5, <1>10, <2>1, PlansContinue
<1>13. n - 1 \in 0 .. c /\ n \in 0 .. c /\ c \in 0 .. c /\ 0 \in 0 .. PerRound /\ PerRound \in 0 .. PerRound
  BY <1>5
<1>. DEFINE t == g[n - 1]
<1>14. t \in Plans(S) /\ g[n] \in Plans(S) /\ g[c] \in Plans(S) /\ pairs \in Plans(S)
  BY <1>9, <1>10, <1>13
<1>15. /\ Continues(t, g[n]) /\ Continues(g[n], g[c]) /\ Continues(g[c], pairs)
       /\ Continues(t, g[c])
  <2>1. n - 1 <= n /\ n <= c /\ n - 1 <= c /\ 0 <= PerRound
    BY <1>5
  <2>. QED
    BY <1>10, <1>11, <1>12, <1>13, <2>1
<1>16. \A s \in Plans(S) : Continues(s, pairs) => ~Paired(i, ToSet(s))
  <2>. SUFFICES ASSUME NEW s \in Plans(S), Continues(s, pairs), Paired(i, ToSet(s)) PROVE FALSE
    OBVIOUS
  <2>1. PICK p \in ToSet(s) : i \in {p[1], p[2]}
    BY DEF Paired
  <2>2. s \in Seq(Pairs(S)) /\ pairs \in Seq(Pairs(S))
    BY <1>14 DEF Plans
  <2>3. PICK m \in 1 .. Len(s) : s[m] = p
    BY <2>1, <2>2 DEF ToSet
  <2>4. m \in DOMAIN pairs /\ pairs[m] = p
    BY <2>2, <2>3 DEF Continues
  <2>. QED
    BY <2>1, <2>4 DEF Paired, ToSet
<1>17. \A s, u, w \in Plans(S) : Continues(s, u) /\ Continues(u, w) => Continues(s, w)
  <2>. SUFFICES ASSUME NEW s \in Plans(S), NEW u \in Plans(S), NEW w \in Plans(S), Continues(s, u), Continues(u, w)
                PROVE  Continues(s, w)
    OBVIOUS
  <2>1. Len(s) \in Nat /\ Len(u) \in Nat /\ Len(w) \in Nat
    BY DEF Plans
  <2>. QED
    BY <2>1 DEF Continues
<1>18. Len(t) = PerRound
  <2>1. ~Paired(i, ToSet(g[n]))
    <3>1. Continues(g[n], pairs)
      BY <1>14, <1>15, <1>17
    <3>. QED
      BY <1>14, <1>16, <3>1
  <2>2. g[n] = FirstSlot(pool, t, i)
    BY <1>8, <1>9
  <2>3. ~(Len(t) < PerRound)
    <3>1. Paired(i, ToSet(pool))
      BY <1>1, <1>4
    <3>. HIDE DEF t
    <3>2. (Len(t) < PerRound /\ Paired(i, ToSet(pool))) => Paired(i, ToSet(FirstSlot(pool, t, i)))
      BY <1>4, <1>14, FirstSlotIs
    <3>. QED
      BY <2>1, <2>2, <3>1, <3>2
  <2>4. Len(t) \in Nat /\ Len(t) <= PerRound
    BY <1>14 DEF Plans
  <2>. QED
    BY <1>5, <2>3, <2>4
<1>19. pairs = t
  <2>1. Continues(t, pairs)
    BY <1>14, <1>15, <1>17
  <2>2. pairs \in Seq(Pairs(S)) /\ t \in Seq(Pairs(S)) /\ Len(pairs) <= PerRound
    BY <1>14 DEF Plans
  <2>3. Len(pairs) = Len(t) /\ \A k \in 1 .. Len(t) : pairs[k] = t[k]
    BY <1>5, <1>18, <2>1, <2>2 DEF Continues
  <2>. HIDE DEF t
  <2>. QED
    BY <2>2, <2>3, SeqEqual
<1>20. Accounted(t, n - 1, ranked)
  <2>. DEFINE N == n - 1
              k0 == [k \in 0 .. N |-> k]
              Good == {k \in 0 .. N : Accounted(g[k], k, ranked)}
  <2>1. k0[0] \in Good
    <3>1. DOMAIN g[0] = {}
      BY <1>9
    <3>. QED
      BY <1>8, <3>1 DEF Accounted
  <2>2. ASSUME NEW k \in 1 .. N, k0[k - 1] \in Good PROVE k0[k] \in Good
    <3>1. k \in 1 .. c /\ k - 1 \in 0 .. c /\ k \in Nat \ {0} /\ k \in 0 .. N /\ k0[k - 1] = k - 1 /\ k0[k] = k
      BY <1>5
    <3>2. g[k] = FirstSlot(pool, g[k - 1], ServingOrder(ranked)[k]) /\ g[k - 1] \in Plans(S)
      BY <1>9, <3>1 DEF order
    <3>3. Accounted(g[k - 1], k - 1, ranked)
      BY <2>2, <3>1
    <3>4. Accounted(g[k], k, ranked)
      BY <1>4, <3>1, <3>2, <3>3, SlotIsAccounted
    <3>. QED
      BY <3>1, <3>4
  <2>3. N \in Nat
    OBVIOUS
  <2>4. \A k \in 0 .. N : k0[k] \in Good
    <3>. HIDE DEF N, k0, Good
    <3>. QED
      BY <2>1, <2>2, <2>3, Climb
  <2>. QED
    BY <2>4
<1>21. ASSUME NEW m \in 1 .. PerRound
       PROVE  \E e \in S : FirstIn(pairs, e, m) /\ idea[e].matches <= idea[i].matches
  <2>1. m \in DOMAIN t
    <3>1. t \in Seq(Pairs(S))
      BY <1>14 DEF Plans
    <3>. QED
      BY <1>18, <3>1
  <2>2. PICK l \in 1 .. n - 1 : FirstIn(t, order[l], m)
    BY <1>20, <2>1 DEF Accounted, order
  <2>3. l \in 1 .. c /\ l < n
    BY <1>5
  <2>4. <<order[l], i>> \in Sooner(ranked) /\ order[l] \in NewcomersOf(ranked)
    BY <1>5, <1>8, <2>3 DEF Lists, c
  <2>5. order[l] \in S
    BY <1>1, <2>4 DEF NewcomersOf, ToSet
  <2>6. idea[order[l]].matches <= idea[i].matches
    <3>1. idea[order[l]].matches \in Int /\ idea[i].matches \in Int
      BY <2>5 DEF Rated
    <3>2. idea[order[l]].matches < idea[i].matches \/ idea[order[l]].matches = idea[i].matches
      BY <2>4 DEF Sooner
    <3>. QED
      BY <3>1, <3>2
  <2>. QED
    BY <1>19, <2>2, <2>5, <2>6
<1>. QED
  BY <1>18, <1>19, <1>21

(* A plan names pairs of two different ideas of the pool it is drawn from.  *)
LEMMA PlansAre ==
  ASSUME Rated, NEW S \in SUBSET Ideas, NEW pairs \in MakePairs(S)
  PROVE  pairs \in Plans(S)
<1>. DEFINE ranked == Ranked(S)
            C == Candidates(ranked)
<1>1. ranked \in Seq(S) /\ C \in SUBSET Pairs(S) /\ PerRound \in Nat
  BY RankedIs, CandidatesAre, RankingAssumption
<1>2. PICK pool \in OrderedPools(C) : pairs = Pairing(ranked, pool)
  BY DEF MakePairs
<1>. HIDE DEF ranked, C
<1>3. pool \in Seq(Pairs(S))
  BY <1>1, PoolsAre
<1>4. PICK g : Phase2(S, ranked, pool, g)
  BY <1>1, <1>3, SlotsAreFilled
<1>5. PerRound \in 0 .. PerRound
  BY <1>1
<1>. QED
  BY <1>2, <1>4, <1>5 DEF Phase2

(* What a plan grows by meets nobody the round has scheduled. *)
LEMMA UnscheduledIs ==
  ASSUME NEW S, NEW pairs \in Plans(S)
  PROVE  /\ Unscheduled(pairs) \in Seq(Pairs(S)) /\ Distinct(Unscheduled(pairs))
         /\ \A k \in DOMAIN Unscheduled(pairs) : \A n \in Planned :
              {Unscheduled(pairs)[k][1], Unscheduled(pairs)[k][2]} \cap Of(match[n]) = {}
<1>. DEFINE free == {k \in DOMAIN pairs : \A n \in Planned : {pairs[k][1], pairs[k][2]} \cap Of(match[n]) = {}}
            c == Cardinality(free)
            place(i) == Cardinality({j \in free : j < i})
            order == [n \in 1 .. c |-> CHOOSE i \in free : place(i) = n - 1]
            R == {p \in free \X free : p[1] < p[2]}
<1>0. pairs \in Seq(Pairs(S)) /\ Distinct(pairs)
  BY DEF Plans
<1>1. Unscheduled(pairs) = [n \in DOMAIN order |-> pairs[order[n]]]
  BY DEF Unscheduled, Sorted
<1>2. /\ free \in SUBSET DOMAIN pairs
      /\ \A k \in free : \A n \in Planned : {pairs[k][1], pairs[k][2]} \cap Of(match[n]) = {}
  OBVIOUS
<1>3. IsFiniteSet(free) /\ free \subseteq Int
  <2>1. DOMAIN pairs = 1 .. Len(pairs) /\ Len(pairs) \in Nat
    BY <1>0
  <2>2. IsFiniteSet(DOMAIN pairs)
    BY <2>1, FS_Interval
  <2>. HIDE DEF free
  <2>. QED
    BY <1>2, <2>1, <2>2, FS_Subset
<1>. HIDE DEF free
<1>4. c \in Nat
  BY <1>3, FS_CardinalityType
<1>5. \A i, j \in free : <<i, j>> \in R <=> i < j
  OBVIOUS
<1>6. Lists(ByPlace(free, R), free, R)
  <2>1. Strict(free, R)
    <3>. HIDE DEF R
    <3>. QED
      BY <1>3, <1>5 DEF Strict
  <2>. HIDE DEF R
  <2>. QED
    BY <1>3, <2>1, ListedInOrder
<1>7. order = ByPlace(free, R)
  <2>1. \A i \in free : {j \in free : j < i} = {j \in free : <<j, i>> \in R}
    BY <1>5
  <2>2. \A i \in free : place(i) = PlaceIn(free, R, i)
    BY <2>1 DEF PlaceIn
  <2>3. ByPlace(free, R) = [n \in 1 .. c |-> CHOOSE i \in free : PlaceIn(free, R, i) = n - 1]
    BY DEF ByPlace
  <2>. HIDE DEF place, R, c
  <2>4. \A n : (CHOOSE i \in free : place(i) = n - 1) = (CHOOSE i \in free : PlaceIn(free, R, i) = n - 1)
    BY <2>2
  <2>. QED
    BY <2>3, <2>4
<1>8. order \in [1 .. c -> free] /\ \A m, n \in 1 .. c : m < n => order[m] < order[n]
  <2>1. order \in [1 .. c -> free]
    BY <1>6, <1>7 DEF Lists
  <2>2. \A m, n \in 1 .. c : m < n => <<order[m], order[n]>> \in R
    BY <1>6, <1>7 DEF Lists
  <2>. HIDE DEF order, c
  <2>. QED
    BY <2>1, <2>2
<1>. HIDE DEF order, c, R
<1>9. Unscheduled(pairs) = [n \in 1 .. c |-> pairs[order[n]]]
  BY <1>1, <1>8
<1>10. \A n \in 1 .. c : order[n] \in DOMAIN pairs /\ pairs[order[n]] \in Pairs(S)
  BY <1>0, <1>2, <1>8
<1>11. Unscheduled(pairs) \in [1 .. c -> Pairs(S)]
  BY <1>9, <1>10
<1>12. Unscheduled(pairs) \in Seq(Pairs(S))
  BY <1>4, <1>11, FunctionIsSeq
<1>13. Distinct(Unscheduled(pairs))
  <2>. SUFFICES ASSUME NEW m \in 1 .. c, NEW n \in 1 .. c, pairs[order[m]] = pairs[order[n]] PROVE m = n
    BY <1>9 DEF Distinct
  <2>1. order[m] = order[n] /\ order[m] \in Int
    BY <1>0, <1>3, <1>8, <1>10 DEF Distinct
  <2>2. m < n \/ n < m \/ m = n
    BY <1>4
  <2>. QED
    BY <1>8, <2>1, <2>2
<1>14. \A k \in DOMAIN Unscheduled(pairs) : \A n \in Planned :
         {Unscheduled(pairs)[k][1], Unscheduled(pairs)[k][2]} \cap Of(match[n]) = {}
  BY <1>2, <1>8, <1>9
<1>. QED
  BY <1>12, <1>13, <1>14

-----------------------------------------------------------------------------
(* Champions and parents. *)

LEMMA RankKeyIsStrict ==
  ASSUME Rated, NEW S \in SUBSET Ideas
  PROVE  Strict(S, {p \in S \X S : RankKeyBefore(p[1], p[2])})
<1>. DEFINE R == {p \in S \X S : RankKeyBefore(p[1], p[2])}
<1>1. \A i \in S : idea[i].elo \in Int /\ idea[i].matches \in Nat /\ i \in Int
  BY PoolIsFinite DEF Rated
<1>2. \A i, j \in S : <<i, j>> \in R <=> RankKeyBefore(i, j)
  OBVIOUS
<1>3. \A i, j \in S : RankKeyBefore(i, j) <=>
        \/ idea[i].matches > 0 /\ ~(idea[j].matches > 0)
        \/ /\ idea[i].matches > 0 <=> idea[j].matches > 0
           /\ idea[i].elo > idea[j].elo \/ (idea[i].elo = idea[j].elo /\ i < j)
  BY DEF RankKeyBefore
<1>. HIDE DEF R
<1>4. \A i \in S : <<i, i>> \notin R
  BY <1>1, <1>2, <1>3
<1>5. \A i, j \in S : i # j => <<i, j>> \in R \/ <<j, i>> \in R
  BY <1>1, <1>2, <1>3
<1>6. \A i, j, k \in S : <<i, j>> \in R /\ <<j, k>> \in R => <<i, k>> \in R
  BY <1>1, <1>2, <1>3
<1>. QED
  BY <1>4, <1>5, <1>6 DEF Strict, R

(* The idea that leads the judged ones is the champion of any group it is in. *)
LEMMA LeaderIsChampion ==
  ASSUME Rated, NEW group \in SUBSET Ideas, NEW i \in group, idea[i].matches > 0,
         \A j \in group : idea[j].matches > 0 => idea[j].elo <= idea[i].elo,
         \A j \in group : (idea[j].matches > 0 /\ idea[j].elo = idea[i].elo) => i <= j
  PROVE  Champion(group) = i
<1>1. \A j \in group : idea[j].elo \in Int /\ idea[j].matches \in Nat /\ j \in Int
  BY PoolIsFinite DEF Rated
<1>2. \A j \in group \ {i} : RankKeyBefore(i, j)
  BY <1>1 DEF RankKeyBefore
<1>3. \A j \in group \ {i} : ~RankKeyBefore(j, i)
  BY <1>1 DEF RankKeyBefore
<1>4. \A j \in group : (\A k \in group \ {j} : RankKeyBefore(j, k)) => j = i
  BY <1>3
<1>. DEFINE Leads(j) == \A k \in group \ {j} : RankKeyBefore(j, k)
<1>5. Champion(group) = CHOOSE j \in group : Leads(j)
  BY DEF Champion
<1>6. Leads(i) /\ \A j \in group : Leads(j) => j = i
  BY <1>2, <1>4
<1>. HIDE DEF Leads
<1>. QED
  BY <1>5, <1>6

LEMMA ImageIsFinite ==
  ASSUME NEW S, IsFiniteSet(S), NEW f, DOMAIN f = S, f = [x \in S |-> f[x]]
  PROVE  IsFiniteSet({f[x] : x \in S})
<1>. DEFINE T == {f[x] : x \in S}
<1>1. f \in Surjection(S, T)
  BY DEF Surjection
<1>. HIDE DEF T
<1>2. IsFiniteSet(T)
  BY <1>1, FS_Surjection
<1>. QED
  BY <1>2 DEF T

LEMMA TwoOf ==
  ASSUME NEW X, IsFiniteSet(X)
  PROVE  Cardinality(X) >= 2 <=> \E x, y \in X : x # y
<1>1. Cardinality(X) \in Nat
  BY FS_CardinalityType
<1>2. ASSUME NEW x \in X, NEW y \in X, x # y PROVE Cardinality(X) >= 2
  <2>1. {x, y} \subseteq X
    OBVIOUS
  <2>2. Cardinality({x, y}) = 2
    <3>1. IsFiniteSet({x}) /\ Cardinality({x}) = 1 /\ y \notin {x}
      BY <1>2, FS_Singleton
    <3>2. Cardinality({x} \cup {y}) = 2
      BY <3>1, OneMore
    <3>3. {x} \cup {y} = {x, y}
      OBVIOUS
    <3>. QED
      BY <3>2, <3>3
  <2>3. Cardinality({x, y}) <= Cardinality(X)
    BY <2>1, FS_Subset
  <2>. QED
    BY <1>1, <2>2, <2>3
<1>3. ASSUME Cardinality(X) >= 2, \A x, y \in X : x = y PROVE FALSE
  <2>1. CASE X = {}
    BY <1>3, <2>1, FS_EmptySet
  <2>2. CASE X # {}
    <3>1. PICK x \in X : X = {x}
      BY <1>3, <2>2
    <3>2. Cardinality(X) = 1
      BY <3>1, FS_Singleton
    <3>. QED
      BY <1>3, <3>2
  <2>. QED
    BY <2>1, <2>2
<1>. QED
  BY <1>2, <1>3

LEMMA ParentsAreSpread ==
  ASSUME Rated, TopK >= 2, Cardinality({Group(i) : i \in Active}) >= 2
  PROVE  LET parents == Parents(EvolutionRanked)
         IN Cardinality({Group(parents[n]) : n \in DOMAIN parents}) >= 2
<1>. DEFINE ranked == EvolutionRanked
            R == {p \in Active \X Active : RankKeyBefore(p[1], p[2])}
            c == Cardinality(Active)
            parents == Parents(ranked)
<1>. SUFFICES Cardinality({Group(parents[n]) : n \in DOMAIN parents}) >= 2
  OBVIOUS
<1>1. Active \in SUBSET Ideas
  BY DEF Active
<1>2. IsFiniteSet(Active) /\ c \in Nat
  BY <1>1, PoolIsFinite
<1>3. Lists(ByPlace(Active, R), Active, R)
  <2>1. Strict(Active, R)
    BY <1>1, RankKeyIsStrict
  <2>. HIDE DEF R
  <2>. QED
    BY <1>2, <2>1, ListedInOrder
<1>4. ranked = ByPlace(Active, R)
  <2>. DEFINE place(i) == Cardinality({j \in Active : RankKeyBefore(j, i)})
  <2>1. \A i \in Active : {j \in Active : RankKeyBefore(j, i)} = {j \in Active : <<j, i>> \in R}
    OBVIOUS
  <2>2. \A i \in Active : place(i) = PlaceIn(Active, R, i)
    BY <2>1 DEF PlaceIn
  <2>3. ranked = [n \in 1 .. c |-> CHOOSE i \in Active : place(i) = n - 1]
    BY DEF EvolutionRanked, Sorted
  <2>5. ByPlace(Active, R) = [n \in 1 .. c |-> CHOOSE i \in Active : PlaceIn(Active, R, i) = n - 1]
    BY DEF ByPlace
  <2>. HIDE DEF place, R, ranked, c
  <2>4. \A n : (CHOOSE i \in Active : place(i) = n - 1) = (CHOOSE i \in Active : PlaceIn(Active, R, i) = n - 1)
    BY <2>2
  <2>. QED
    BY <2>3, <2>4, <2>5
<1>. HIDE DEF R, ranked
<1>5. ranked \in [1 .. c -> Active] /\ \A i \in Active : \E n \in 1 .. c : ranked[n] = i
  BY <1>3, <1>4 DEF Lists
<1>. HIDE DEF c
<1>6. ranked \in Seq(Active) /\ Len(ranked) = c /\ DOMAIN ranked = 1 .. c
  BY <1>2, <1>5, FunctionIsSeq
<1>7. PICK i \in Active, j \in Active : Group(i) # Group(j)
  <2>. DEFINE of == [i \in Active |-> Group(i)]
              X == {of[i] : i \in Active}
  <2>1. IsFiniteSet(X) /\ Cardinality(X) >= 2
    <3>1. X = {Group(i) : i \in Active}
      OBVIOUS
    <3>2. IsFiniteSet(X)
      <4>1. DOMAIN of = Active /\ of = [i \in Active |-> of[i]]
        OBVIOUS
      <4>. HIDE DEF of
      <4>. QED
        BY <1>2, <4>1, ImageIsFinite
    <3>. QED
      BY <3>1, <3>2
  <2>2. \E x, y \in X : x # y
    <3>. HIDE DEF X
    <3>. QED
      BY <2>1, TwoOf
  <2>. QED
    BY <2>2
<1>8. PICK a \in 1 .. c, b \in 1 .. c : ranked[a] = i /\ ranked[b] = j
  BY <1>5
<1>9. TopK \in Nat
  BY RankingAssumption
<1>10. ASSUME NEW k \in DOMAIN parents, NEW l \in DOMAIN parents, Group(parents[k]) # Group(parents[l]),
              IsFiniteSet(DOMAIN parents)
       PROVE  Cardinality({Group(parents[n]) : n \in DOMAIN parents}) >= 2
  <2>. HIDE DEF parents
  <2>. DEFINE of == [n \in DOMAIN parents |-> Group(parents[n])]
              Y == {of[n] : n \in DOMAIN parents}
  <2>0. Y = {Group(parents[n]) : n \in DOMAIN parents}
    OBVIOUS
  <2>1. IsFiniteSet(Y)
    <3>1. DOMAIN of = DOMAIN parents /\ of = [n \in DOMAIN parents |-> of[n]]
      OBVIOUS
    <3>. HIDE DEF of
    <3>. QED
      BY <1>10, <3>1, ImageIsFinite
  <2>2. \E x, y \in Y : x # y
    BY <1>10
  <2>. HIDE DEF Y, of
  <2>3. Cardinality(Y) >= 2
    BY <2>1, <2>2, TwoOf
  <2>. QED
    BY <2>0, <2>3
<1>11. CASE c <= TopK
  <2>1. parents = SubSeq(ranked, 1, c)
    BY <1>2, <1>6, <1>9, <1>11 DEF Parents
  <2>2. SubSeq(ranked, 1, c) = ranked
    BY <1>2, <1>6
  <2>3. IsFiniteSet(1 .. c)
    BY <1>2, FS_Interval
  <2>4. DOMAIN parents = 1 .. c /\ parents[a] = i /\ parents[b] = j
    BY <1>6, <1>8, <2>1, <2>2
  <2>. HIDE DEF parents
  <2>. QED
    BY <1>7, <1>10, <2>3, <2>4
<1>12. CASE ~(c <= TopK)
  <2>. DEFINE head == SubSeq(ranked, 1, TopK - 1)
              outsiders == {n \in TopK .. Len(ranked) :
                              \A m \in 1 .. TopK - 1 : Group(ranked[m]) # Group(ranked[n])}
              last == IF outsiders = {} THEN TopK ELSE CHOOSE n \in outsiders : \A k \in outsiders : n <= k
  <2>1. parents = Append(head, ranked[last])
    BY <1>6, <1>9, <1>12 DEF Parents
  <2>2. outsiders \in SUBSET Nat /\ outsiders \in SUBSET (TopK .. c)
    BY <1>6, <1>9
  <2>3. last \in TopK .. c /\ (outsiders # {} => last \in outsiders)
    <3>1. CASE outsiders = {}
      BY <1>2, <1>9, <1>12, <3>1
    <3>2. CASE outsiders # {}
      <4>1. \E n \in outsiders : \A k \in outsiders : n <= k
        <5>. HIDE DEF outsiders
        <5>. QED
          BY <2>2, <3>2, LeastOf
      <4>2. last \in outsiders
        BY <3>2, <4>1
      <4>. QED
        BY <2>2, <4>2
    <3>. QED
      BY <3>1, <3>2
  <2>4. head \in Seq(Active) /\ Len(head) = TopK - 1 /\ \A n \in 1 .. TopK - 1 : head[n] = ranked[n]
    <3>1. TopK - 1 \in Nat /\ TopK - 1 \in 0 .. c /\ TopK - 1 <= c
      BY <1>2, <1>9, <1>12
    <3>. QED
      BY <1>2, <1>6, <3>1
  <2>5. ranked[last] \in Active
    <3>1. last \in 1 .. c
      BY <1>9, <2>3
    <3>. QED
      BY <1>5, <3>1
  <2>6. /\ DOMAIN parents = 1 .. TopK
        /\ \A n \in 1 .. TopK - 1 : parents[n] = ranked[n]
        /\ parents[TopK] = ranked[last]
    <3>. HIDE DEF head, last
    <3>1. /\ Append(head, ranked[last]) \in Seq(Active) /\ Len(Append(head, ranked[last])) = Len(head) + 1
          /\ \A n \in 1 .. Len(head) : Append(head, ranked[last])[n] = head[n]
          /\ Append(head, ranked[last])[Len(head) + 1] = ranked[last]
      BY <2>4, <2>5, AppendIs
    <3>2. Len(head) + 1 = TopK
      BY <1>9, <2>4
    <3>. QED
      BY <2>1, <2>4, <3>1, <3>2
  <2>7. IsFiniteSet(1 .. TopK) /\ 1 \in 1 .. TopK /\ TopK \in 1 .. TopK /\ 1 \in 1 .. TopK - 1
        /\ 1 .. TopK - 1 \subseteq 1 .. TopK
    <3>1. IsFiniteSet(1 .. TopK)
      BY <1>9, FS_Interval
    <3>. QED
      BY <1>9, <3>1
  <2>. HIDE DEF parents, last, head
  <2>8. CASE outsiders # {}
    <3>1. Group(ranked[1]) # Group(ranked[last])
      BY <2>3, <2>7, <2>8
    <3>. QED
      BY <1>10, <2>6, <2>7, <3>1
  <2>9. CASE outsiders = {}
    <3>1. ASSUME NEW n \in 1 .. c PROVE \E m \in 1 .. TopK - 1 : Group(ranked[m]) = Group(ranked[n])
      <4>1. n \in 1 .. TopK - 1 \/ n \in TopK .. Len(ranked)
        BY <1>2, <1>6, <1>9
      <4>. QED
        BY <2>9, <4>1
    <3>2. PICK k \in 1 .. TopK - 1 : Group(ranked[k]) = Group(i)
      BY <1>8, <3>1
    <3>3. PICK l \in 1 .. TopK - 1 : Group(ranked[l]) = Group(j)
      BY <1>8, <3>1
    <3>. QED
      BY <1>7, <1>10, <2>6, <2>7, <3>2, <3>3
  <2>. QED
    BY <2>8, <2>9
<1>. QED
  BY <1>11, <1>12

-----------------------------------------------------------------------------
(* The ratings and the record of the matches.                               *)

\* elo_update rounds to a number, whatever the difference.
GainIsInt == \A k \in {KInitial, KSettled}, d \in Int : Gain(k, d) \in Int

TwoSides == \A n \in DOMAIN match : match[n].a # match[n].b
Judgements ==
  \A t \in DOMAIN verdicts : /\ match[verdicts[t].match].status = "completed"
                             /\ verdicts[t].better \in Of(match[verdicts[t].match])

RecordInv == RankingTypeOK /\ RatingsConserved /\ RecordReplays /\ TwoSides /\ Judgements

Slots == [round : 1 .. MaxRounds, a : Ideas, b : Ideas,
          status : {"planned", "completed", "skipped"}, first : Ideas \cup {0},
          before : Int \X Int, after : Int \X Int]

LEMMA TurnsAre ==
  ASSUME NEW s, NEW v, DOMAIN v = 1 .. Len(v), Len(v) \in Nat, NEW i, NEW t
  PROVE  /\ Turns(s, v, i) \subseteq 1 .. Len(v)
         /\ IsFiniteSet(Turns(s, v, i))
         /\ Latest(Turns(s, v, i), t) \in {0} \cup Turns(s, v, i)
<1>1. Turns(s, v, i) \subseteq 1 .. Len(v)
  BY DEF Turns
<1>2. IsFiniteSet(Turns(s, v, i))
  <2>1. IsFiniteSet(1 .. Len(v))
    BY FS_Interval
  <2>. QED
    BY <1>1, <2>1, FS_Subset
<1>. DEFINE S == {0} \cup {u \in Turns(s, v, i) : u < t}
<1>3. S \in SUBSET (0 .. Len(v)) /\ S # {}
  BY <1>1
<1>4. Max(S) \in S
  <2>. HIDE DEF S
  <2>. QED
    BY <1>3, MaxOf
<1>5. Latest(Turns(s, v, i), t) = Max(S)
  BY DEF Latest
<1>6. S \subseteq {0} \cup Turns(s, v, i)
  OBVIOUS
<1>. HIDE DEF S
<1>. QED
  BY <1>1, <1>2, <1>4, <1>5, <1>6

(* Nothing in the record of a settled match is looked at but that match.    *)
LEMMA ReplayStands ==
  ASSUME NEW r, NEW s, NEW v, NEW q, NEW w,
         DOMAIN v = 1 .. Len(v), Len(v) \in Nat,
         \A t \in DOMAIN v : w[v[t].match] = s[v[t].match],
         \A i \in Ideas : q[i].elo = r[i].elo /\ q[i].matches = r[i].matches /\ q[i].wins = r[i].wins,
         Replays(r, s, v)
  PROVE  Replays(q, w, v)
<1>. SUFFICES ASSUME NEW i \in Ideas
              PROVE  /\ \A t \in Turns(w, v, i) : Started(w, v, t, i) = EndedAt(w, v, Latest(Turns(w, v, i), t), i)
                     /\ q[i].elo = EndedAt(w, v, Latest(Turns(w, v, i), Len(v) + 1), i)
                     /\ q[i].matches = Cardinality(Turns(w, v, i))
                     /\ q[i].wins = Cardinality({t \in Turns(w, v, i) : v[t].better = i})
  BY DEF Replays
<1>1. Turns(w, v, i) = Turns(s, v, i)
  BY DEF Turns
<1>2. \A t \in Turns(s, v, i) : Started(w, v, t, i) = Started(s, v, t, i)
  BY DEF Turns, Started
<1>3. \A t : Latest(Turns(w, v, i), t) = Latest(Turns(s, v, i), t)
  BY <1>1 DEF Latest
<1>4. \A t \in {0} \cup Turns(s, v, i) : EndedAt(w, v, t, i) = EndedAt(s, v, t, i)
  BY DEF Turns, EndedAt
<1>5. \A t : Latest(Turns(s, v, i), t) \in {0} \cup Turns(s, v, i)
  BY TurnsAre
<1>6. /\ \A t \in Turns(s, v, i) : Started(s, v, t, i) = EndedAt(s, v, Latest(Turns(s, v, i), t), i)
      /\ r[i].elo = EndedAt(s, v, Latest(Turns(s, v, i), Len(v) + 1), i)
      /\ r[i].matches = Cardinality(Turns(s, v, i))
      /\ r[i].wins = Cardinality({t \in Turns(s, v, i) : v[t].better = i})
  BY DEF Replays
<1>7. \A t : EndedAt(w, v, Latest(Turns(w, v, i), t), i) = EndedAt(s, v, Latest(Turns(s, v, i), t), i)
  BY <1>3, <1>4, <1>5
<1>. QED
  BY <1>1, <1>2, <1>6, <1>7

(* A step that settles nothing leaves the record and the ratings alone.     *)
LEMMA NothingSettled ==
  ASSUME RecordInv, RankingTypeOK', verdicts' = verdicts,
         \A t \in DOMAIN verdicts : match'[verdicts[t].match] = match[verdicts[t].match],
         \A i \in Ideas : /\ idea'[i].elo = idea[i].elo
                          /\ idea'[i].matches = idea[i].matches
                          /\ idea'[i].wins = idea[i].wins,
         TwoSides'
  PROVE  RecordInv'
<1>1. RatingsConserved'
  <2>1. Points(idea') = Points(idea)
    <3>1. \A i \in Ideas : idea[i].elo \in Int /\ idea'[i].elo = idea[i].elo
      BY DEF RecordInv, RankingTypeOK
    <3>. QED
      BY <3>1, PointsSame
  <2>2. Points(idea) = 0
    BY DEF RecordInv, RatingsConserved
  <2>. QED
    BY <2>1, <2>2 DEF RatingsConserved
<1>2. Judgements'
  BY DEF RecordInv, Judgements, Of
<1>3. RecordReplays'
  <2>1. DOMAIN verdicts = 1 .. Len(verdicts) /\ Len(verdicts) \in Nat /\ Replays(idea, match, verdicts)
    BY DEF RecordInv, RankingTypeOK, RecordReplays
  <2>2. Replays(idea', match', verdicts)
    BY <2>1, ReplayStands
  <2>. QED
    BY <2>2 DEF RecordReplays
<1>. QED
  BY <1>1, <1>2, <1>3 DEF RecordInv

LEMMA RecordInit == RankingInit => RecordInv
<1>. SUFFICES ASSUME RankingInit PROVE RecordInv
  OBVIOUS
<1>0. MaxIdeas \in Nat /\ InitialElo \in Nat /\ 1 \in 1 .. MaxRounds /\ 0 \in 0 .. MaxResumes
  BY RankingAssumption
<1>1. RankingTypeOK
  BY <1>0 DEF RankingInit, RankingTypeOK, Unborn
<1>2. RatingsConserved
  <2>1. \A i \in Ideas : idea[i].elo = InitialElo
    BY DEF RankingInit, Unborn
  <2>. QED
    BY <2>1, PointsNone DEF RatingsConserved
<1>3. RecordReplays
  <2>1. verdicts = <<>> /\ \A i \in Ideas : idea[i].elo = InitialElo /\ idea[i].matches = 0 /\ idea[i].wins = 0
    BY DEF RankingInit, Unborn
  <2>2. \A i : Turns(match, verdicts, i) = {}
    BY <2>1 DEF Turns
  <2>3. \A i, t : Latest(Turns(match, verdicts, i), t) = 0
    <3>1. Max({0}) = 0
      <4>1. {0} \in SUBSET (0 .. 0) /\ {0} # {}
        OBVIOUS
      <4>2. Max({0}) \in {0}
        BY <4>1, MaxOf
      <4>. QED
        BY <4>2
    <3>2. \A i, t : {0} \cup {u \in Turns(match, verdicts, i) : u < t} = {0}
      BY <2>2
    <3>. QED
      BY <3>1, <3>2 DEF Latest
  <2>4. \A i : {t \in Turns(match, verdicts, i) : verdicts[t].better = i} = {}
    BY <2>2
  <2>. QED
    BY <2>1, <2>2, <2>3, <2>4, FS_EmptySet DEF RecordReplays, Replays, EndedAt
<1>4. TwoSides /\ Judgements
  BY DEF RankingInit, TwoSides, Judgements
<1>. QED
  BY <1>1, <1>2, <1>3, <1>4 DEF RecordInv

(* One more verdict, on a match that had none, from the rows as they stand. *)
\* Of the rows: a ends at x, b at y.
RowsMove(r, q, a, b, better, x, y) ==
  /\ a \in Ideas /\ b \in Ideas /\ a # b /\ better \in {a, b}
  /\ q[a].elo = x /\ q[b].elo = y
  /\ \A i \in Ideas \ {a, b} : q[i].elo = r[i].elo /\ q[i].matches = r[i].matches /\ q[i].wins = r[i].wins
  /\ \A i \in {a, b} : /\ q[i].matches = r[i].matches + 1
                       /\ q[i].wins = IF better = i THEN r[i].wins + 1 ELSE r[i].wins

\* Of the matches: the n-th is settled, of the history: its verdict is the last.
RecordGrows(r, s, v, w, u, T, n, a, b, better, x, y) ==
  /\ T \in Nat /\ Len(v) = T /\ DOMAIN v = 1 .. T /\ Len(u) = T + 1 /\ DOMAIN u = 1 .. T + 1
  /\ \A t \in 1 .. T : u[t] = v[t] /\ w[v[t].match] = s[v[t].match]
  /\ u[T + 1].match = n /\ u[T + 1].better = better
  /\ w[n].a = a /\ w[n].b = b /\ w[n].before = <<r[a].elo, r[b].elo>> /\ w[n].after = <<x, y>>

LEMMA ReplayGrows ==
  ASSUME NEW r, NEW s, NEW v, NEW q, NEW w, NEW u, NEW T, NEW n, NEW a, NEW b, NEW better, NEW x, NEW y,
         RowsMove(r, q, a, b, better, x, y), RecordGrows(r, s, v, w, u, T, n, a, b, better, x, y),
         Replays(r, s, v)
  PROVE  Replays(q, w, u)
<1>. USE DEF RowsMove, RecordGrows
<1>. SUFFICES ASSUME NEW i \in Ideas
              PROVE  /\ \A t \in Turns(w, u, i) : Started(w, u, t, i) = EndedAt(w, u, Latest(Turns(w, u, i), t), i)
                     /\ q[i].elo = EndedAt(w, u, Latest(Turns(w, u, i), Len(u) + 1), i)
                     /\ q[i].matches = Cardinality(Turns(w, u, i))
                     /\ q[i].wins = Cardinality({t \in Turns(w, u, i) : u[t].better = i})
  BY DEF Replays
<1>1. /\ \A t \in Turns(s, v, i) : Started(s, v, t, i) = EndedAt(s, v, Latest(Turns(s, v, i), t), i)
      /\ r[i].elo = EndedAt(s, v, Latest(Turns(s, v, i), T + 1), i)
      /\ r[i].matches = Cardinality(Turns(s, v, i))
      /\ r[i].wins = Cardinality({t \in Turns(s, v, i) : v[t].better = i})
  BY DEF Replays
<1>. DEFINE old == Turns(s, v, i)
            won == {t \in old : v[t].better = i}
<1>2. old \subseteq 1 .. T /\ IsFiniteSet(old)
  BY TurnsAre
<1>3. \A t : Latest(Turns(s, v, i), t) \in {0} \cup old
  BY TurnsAre
<1>4. Turns(w, u, i) = IF i \in {a, b} THEN old \cup {T + 1} ELSE old
  <2>1. \A t \in 1 .. T : i \in Of(w[u[t].match]) <=> i \in Of(s[v[t].match])
    OBVIOUS
  <2>2. Of(w[u[T + 1].match]) = {a, b}
    BY DEF Of
  <2>3. DOMAIN u = (1 .. T) \cup {T + 1}
    OBVIOUS
  <2>. QED
    BY <2>1, <2>2, <2>3 DEF Turns
<1>5. \A t \in 1 .. T + 1 : Latest(Turns(w, u, i), t) = Latest(Turns(s, v, i), t)
  <2>. SUFFICES ASSUME NEW t \in 1 .. T + 1 PROVE Latest(Turns(w, u, i), t) = Latest(Turns(s, v, i), t)
    OBVIOUS
  <2>1. ~(T + 1 < t)
    OBVIOUS
  <2>2. {k \in Turns(w, u, i) : k < t} = {k \in old : k < t}
    BY <1>4, <2>1
  <2>. QED
    BY <2>2 DEF Latest
<1>6. \A t \in old : Started(w, u, t, i) = Started(s, v, t, i)
  BY <1>2 DEF Started
<1>7. \A t \in {0} \cup old : EndedAt(w, u, t, i) = EndedAt(s, v, t, i)
  BY <1>2 DEF EndedAt
<1>8. \A t \in 1 .. T + 1 : EndedAt(w, u, Latest(Turns(w, u, i), t), i) = EndedAt(s, v, Latest(Turns(s, v, i), t), i)
  BY <1>3, <1>5, <1>7
<1>9. \A t \in old : Started(w, u, t, i) = EndedAt(w, u, Latest(Turns(w, u, i), t), i)
  <2>1. \A t \in old : t \in 1 .. T + 1
    BY <1>2
  <2>. QED
    BY <1>1, <1>6, <1>8, <2>1
<1>10. CASE i \notin {a, b}
  <2>1. Turns(w, u, i) = old
    BY <1>4, <1>10
  <2>2. Latest(Turns(w, u, i), T + 2) = Latest(Turns(w, u, i), T + 1)
    <3>1. {k \in old : k < T + 2} = {k \in old : k < T + 1}
      BY <1>2
    <3>. QED
      BY <2>1, <3>1 DEF Latest
  <2>3. q[i].elo = EndedAt(w, u, Latest(Turns(w, u, i), T + 2), i)
    <3>1. T + 1 \in 1 .. T + 1
      OBVIOUS
    <3>. QED
      BY <1>1, <1>8, <1>10, <2>2, <3>1
  <2>4. {t \in old : u[t].better = i} = won
    BY <1>2
  <2>5. Len(u) + 1 = T + 2
    OBVIOUS
  <2>6. q[i].matches = r[i].matches /\ q[i].wins = r[i].wins
    BY <1>10
  <2>7. /\ \A t \in Turns(w, u, i) : Started(w, u, t, i) = EndedAt(w, u, Latest(Turns(w, u, i), t), i)
        /\ q[i].elo = EndedAt(w, u, Latest(Turns(w, u, i), Len(u) + 1), i)
    BY <1>9, <2>1, <2>3, <2>5
  <2>8. q[i].matches = Cardinality(Turns(w, u, i))
    BY <1>1, <2>1, <2>6
  <2>9. q[i].wins = Cardinality({t \in Turns(w, u, i) : u[t].better = i})
    <3>1. {t \in Turns(w, u, i) : u[t].better = i} = won
      BY <2>1, <2>4
    <3>. QED
      BY <1>1, <2>6, <3>1
  <2>. QED
    BY <2>7, <2>8, <2>9
<1>11. CASE i \in {a, b}
  <2>1. Turns(w, u, i) = old \cup {T + 1}
    BY <1>4, <1>11
  <2>2. Latest(Turns(w, u, i), T + 2) = T + 1
    <3>. DEFINE S == {0} \cup {k \in Turns(w, u, i) : k < T + 2}
    <3>1. S \in SUBSET (0 .. T + 1) /\ S # {} /\ T + 1 \in S /\ T + 1 \in Nat
      BY <1>2, <2>1
    <3>2. Latest(Turns(w, u, i), T + 2) = Max(S)
      BY DEF Latest
    <3>. HIDE DEF S
    <3>3. Max(S) \in S /\ \A k \in S : k <= Max(S)
      BY <3>1, MaxOf
    <3>4. Max(S) \in 0 .. T + 1 /\ T + 1 <= Max(S)
      BY <3>1, <3>3
    <3>. QED
      BY <3>2, <3>4
  <2>3. EndedAt(w, u, T + 1, i) = q[i].elo
    <3>1. T + 1 # 0
      OBVIOUS
    <3>2. EndedAt(w, u, T + 1, i) = <<x, y>>[IF a = i THEN 1 ELSE 2]
      BY <3>1 DEF EndedAt, SideOf
    <3>. QED
      BY <1>11, <3>2
  <2>4. Started(w, u, T + 1, i) = r[i].elo
    <3>1. Started(w, u, T + 1, i) = <<r[a].elo, r[b].elo>>[IF a = i THEN 1 ELSE 2]
      BY DEF Started, SideOf
    <3>. QED
      BY <1>11, <3>1
  <2>5. r[i].elo = EndedAt(w, u, Latest(Turns(w, u, i), T + 1), i)
    <3>1. T + 1 \in 1 .. T + 1
      OBVIOUS
    <3>. QED
      BY <1>1, <1>8, <3>1
  <2>6. T + 1 \notin old
    BY <1>2
  <2>7. Cardinality(Turns(w, u, i)) = Cardinality(old) + 1
    <3>. DEFINE z == T + 1
    <3>1. Turns(w, u, i) = old \cup {z} /\ z \notin old
      BY <2>1, <2>6
    <3>. HIDE DEF old, z
    <3>2. Cardinality(old \cup {z}) = Cardinality(old) + 1
      BY <1>2, <3>1, OneMore
    <3>. QED
      BY <3>1, <3>2
  <2>8. q[i].wins = Cardinality({t \in Turns(w, u, i) : u[t].better = i})
    <3>1. {t \in old : u[t].better = i} = won
      BY <1>2
    <3>2. {t \in Turns(w, u, i) : u[t].better = i} = IF better = i THEN won \cup {T + 1} ELSE won
      BY <2>1, <3>1
    <3>3. IsFiniteSet(won) /\ T + 1 \notin won
      <4>1. won \subseteq old
        OBVIOUS
      <4>2. IsFiniteSet(won)
        <5>. HIDE DEF won, old
        <5>. QED
          BY <1>2, <4>1, FS_Subset
      <4>. QED
        BY <2>6, <4>2
    <3>. DEFINE z == T + 1
    <3>. HIDE DEF won, old
    <3>4. Cardinality(won \cup {z}) = Cardinality(won) + 1
      <4>1. z \notin won /\ IsFiniteSet(won)
        BY <3>3
      <4>. HIDE DEF z
      <4>. QED
        BY <4>1, OneMore
    <3>5. r[i].wins = Cardinality(won)
      BY <1>1 DEF won, old
    <3>. QED
      BY <1>11, <3>2, <3>4, <3>5
  <2>9. Len(u) + 1 = T + 2
    OBVIOUS
  <2>10. q[i].matches = Cardinality(Turns(w, u, i))
    BY <1>1, <1>11, <2>7
  <2>11. \A t \in Turns(w, u, i) : Started(w, u, t, i) = EndedAt(w, u, Latest(Turns(w, u, i), t), i)
    BY <1>9, <2>1, <2>4, <2>5
  <2>. QED
    BY <2>2, <2>3, <2>8, <2>9, <2>10, <2>11
<1>. QED
  BY <1>10, <1>11

(* A plan, or what is added to one, are new matches and nothing else.       *)
LEMMA PlanGrows ==
  ASSUME RecordInv, NEW pairs \in Seq(Pairs(Active)), match' = match \o Entries(pairs),
         idea' = idea, round' = round, verdicts' = verdicts, resumes' = resumes,
         drawn' \in {drawn, Active}, step' = "judge"
  PROVE  RecordInv'
<1>. DEFINE added == Entries(pairs)
            p == Len(pairs)
            c == Len(match)
<1>1. Active \subseteq Ideas /\ Rated
  BY DEF Active, RecordInv, RankingTypeOK, Rated
<1>2. RankingTypeOK /\ TwoSides
  BY DEF RecordInv
<1>3. p \in Nat /\ DOMAIN pairs = 1 .. p /\ \A n \in 1 .. p : pairs[n] \in Pairs(Active)
  OBVIOUS
<1>4. ASSUME NEW n \in 1 .. p PROVE added[n] \in Slots /\ added[n].a # added[n].b
  <2>1. pairs[n][1] \in Ideas /\ pairs[n][2] \in Ideas /\ pairs[n][1] # pairs[n][2]
    BY <1>1, <1>3, PairsDiffer
  <2>2. added[n] = [round |-> round, a |-> pairs[n][1], b |-> pairs[n][2],
                    status |-> "planned", first |-> 0, before |-> <<0, 0>>, after |-> <<0, 0>>]
    BY <1>3 DEF Entries
  <2>3. round \in 1 .. MaxRounds
    BY <1>2 DEF RankingTypeOK
  <2>. HIDE DEF added
  <2>. QED
    BY <2>1, <2>2, <2>3 DEF Slots
<1>5. added \in [1 .. p -> Slots]
  <2>1. DOMAIN added = 1 .. p /\ added = [n \in 1 .. p |-> added[n]]
    BY <1>3 DEF Entries
  <2>. HIDE DEF added
  <2>. QED
    BY <1>4, <2>1
<1>. HIDE DEF added
<1>6. added \in Seq(Slots) /\ Len(added) = p
  <2>. HIDE DEF p
  <2>. QED
    BY <1>3, <1>5, FunctionIsSeq
<1>7. match \in Seq(Slots) /\ c \in Nat /\ DOMAIN match = 1 .. c
  BY <1>2 DEF RankingTypeOK, Slots
<1>. DEFINE new == match \o added
<1>8. /\ new \in Seq(Slots) /\ Len(new) = c + p
      /\ \A n \in 1 .. c + p : new[n] = IF n <= c THEN match[n] ELSE added[n - c]
  <2>1. /\ new \in Seq(Slots) /\ Len(new) = Len(match) + Len(added)
        /\ \A n \in 1 .. Len(match) + Len(added) :
             new[n] = IF n <= Len(match) THEN match[n] ELSE added[n - Len(match)]
    BY <1>6, <1>7, ConcatProperties
  <2>. QED
    BY <1>6, <2>1
<1>. HIDE DEF new
<1>17. match' = new
  BY DEF added, new
<1>18. match' \in Seq(Slots) /\ DOMAIN match' = 1 .. c + p
  BY <1>8, <1>17
<1>9. \A n \in 1 .. c : match'[n] = match[n]
  BY <1>3, <1>7, <1>8, <1>17
<1>10. \A n \in c + 1 .. c + p : match'[n] = added[n - c]
  BY <1>3, <1>7, <1>8, <1>17
<1>11. TwoSides'
  <2>. SUFFICES ASSUME NEW n \in 1 .. c + p PROVE match'[n].a # match'[n].b
    BY <1>18 DEF TwoSides
  <2>1. CASE n \in 1 .. c
    BY <1>2, <1>7, <1>9, <2>1 DEF TwoSides
  <2>2. CASE n \notin 1 .. c
    <3>1. n \in c + 1 .. c + p /\ n - c \in 1 .. p
      BY <1>3, <1>7, <2>2
    <3>. QED
      BY <1>4, <1>10, <3>1
  <2>. QED
    BY <2>1, <2>2
<1>12. verdicts \in Seq([match : DOMAIN match, better : Ideas])
  BY <1>2 DEF RankingTypeOK
<1>13. verdicts \in Seq([match : DOMAIN match', better : Ideas])
  <2>1. Len(verdicts) \in Nat /\ DOMAIN verdicts = 1 .. Len(verdicts)
    BY <1>12
  <2>2. DOMAIN match \subseteq DOMAIN match'
    BY <1>3, <1>7, <1>18
  <2>3. ASSUME NEW t \in 1 .. Len(verdicts)
        PROVE  verdicts[t] \in [match : DOMAIN match', better : Ideas]
    <3>1. verdicts[t] \in [match : DOMAIN match, better : Ideas]
      BY <1>12, <2>1, ElementOfSeq
    <3>. QED
      BY <2>2, <3>1
  <2>4. verdicts \in [1 .. Len(verdicts) -> [match : DOMAIN match', better : Ideas]]
    <3>1. verdicts = [t \in 1 .. Len(verdicts) |-> verdicts[t]]
      BY <1>12
    <3>. QED
      BY <2>3, <3>1
  <2>. DEFINE l == Len(verdicts)
              V == [match : DOMAIN match', better : Ideas]
  <2>5. l \in Nat /\ verdicts \in [1 .. l -> V]
    BY <2>1, <2>4
  <2>6. verdicts \in Seq(V)
    <3>. HIDE DEF l, V
    <3>. QED
      BY <2>5, FunctionIsSeq
  <2>. QED
    BY <2>6
<1>14. RankingTypeOK'
  BY <1>1, <1>2, <1>18, <1>13 DEF RankingTypeOK, Slots
<1>15. \A t \in DOMAIN verdicts : match'[verdicts[t].match] = match[verdicts[t].match]
  <2>. SUFFICES ASSUME NEW t \in DOMAIN verdicts PROVE match'[verdicts[t].match] = match[verdicts[t].match]
    OBVIOUS
  <2>1. verdicts[t] \in [match : DOMAIN match, better : Ideas]
    BY <1>12, LenProperties, ElementOfSeq
  <2>2. verdicts[t].match \in 1 .. c
    BY <1>7, <2>1
  <2>. QED
    BY <1>9, <2>2
<1>. QED
  BY <1>11, <1>14, <1>15, NothingSettled

LEMMA PlanKeeps ==
  ASSUME RecordInv, Plan \/ ExtendPlan
  PROVE  RecordInv'
<1>1. Rated /\ Active \subseteq Ideas /\ Newcomers \subseteq Active
  BY DEF RecordInv, RankingTypeOK, Rated, Active, Newcomers
<1>2. \A S : S \subseteq Active => Seq(Pairs(S)) \subseteq Seq(Pairs(Active))
  <2>. SUFFICES ASSUME NEW S, S \subseteq Active PROVE Seq(Pairs(S)) \subseteq Seq(Pairs(Active))
    OBVIOUS
  <2>1. Pairs(S) \subseteq Pairs(Active)
    BY DEF Pairs
  <2>. QED
    BY <2>1
<1>3. CASE Plan
  <2>1. PICK pairs \in MakePairs(Active) :
          /\ match' = match \o Entries(pairs)
          /\ drawn' = IF pairs = <<>> THEN drawn ELSE Active
    BY <1>3 DEF Plan
  <2>2. pairs \in Seq(Pairs(Active))
    BY <1>1, PlansAre DEF Plans
  <2>3. /\ idea' = idea /\ round' = round /\ verdicts' = verdicts /\ resumes' = resumes
        /\ step' = "judge" /\ drawn' \in {drawn, Active}
    BY <1>3, <2>1 DEF Plan
  <2>. QED
    BY <2>1, <2>2, <2>3, PlanGrows
<1>4. CASE ExtendPlan
  <2>1. PICK pairs \in MakePairs(Newcomers) :
          /\ match' = match \o Entries(Unscheduled(pairs))
          /\ drawn' = IF Unscheduled(pairs) = <<>> THEN drawn ELSE Active
    BY <1>4 DEF ExtendPlan
  <2>2. Newcomers \in SUBSET Ideas
    BY <1>1
  <2>3. pairs \in Plans(Newcomers)
    BY <1>1, <2>2, PlansAre
  <2>. DEFINE additions == Unscheduled(pairs)
  <2>4. additions \in Seq(Pairs(Newcomers))
    BY <2>3, UnscheduledIs
  <2>5. additions \in Seq(Pairs(Active))
    BY <1>1, <1>2, <2>4
  <2>6. /\ idea' = idea /\ round' = round /\ verdicts' = verdicts /\ resumes' = resumes
        /\ step' = "judge" /\ drawn' \in {drawn, Active} /\ match' = match \o Entries(additions)
    BY <1>4, <2>1 DEF ExtendPlan
  <2>. HIDE DEF additions
  <2>. QED
    BY <2>5, <2>6, PlanGrows
<1>. QED
  BY <1>3, <1>4

IdeaRows == [elo : Int, matches : Nat, wins : Nat, cluster : Clusters \cup {0},
             status : {"none", "active", "archived"}]

\* A row after a match: its rating, matches played and matches won.
RowAfter(r, x, k, w) == [r EXCEPT !.elo = x, !.matches = k, !.wins = w]

LEMMA RowAfterIs ==
  ASSUME NEW r \in IdeaRows, NEW x \in Int, NEW k \in Nat, NEW w \in Nat
  PROVE  RowAfter(r, x, k, w) \in IdeaRows
<1>. DEFINE q1 == [r EXCEPT !.elo = x]
            q2 == [q1 EXCEPT !.matches = k]
            q3 == [q2 EXCEPT !.wins = w]
<1>1. q1 \in IdeaRows
  BY DEF IdeaRows
<1>2. RowAfter(r, x, k, w) = q3
  BY DEF RowAfter
<1>. HIDE DEF q1
<1>3. q2 \in IdeaRows
  BY <1>1 DEF IdeaRows
<1>. HIDE DEF q2
<1>4. q3 \in IdeaRows
  BY <1>3 DEF IdeaRows
<1>. QED
  BY <1>2, <1>4

LEMMA SettleKeeps ==
  ASSUME GainIsInt, RecordInv, NEW n \in DOMAIN match, Settle(n)
  PROVE  RecordInv'
<1>. DEFINE m == match[n]
            Side(p) == WinnerSide(m, p)
            elo(p) == EloUpdate(idea[m.a].elo, idea[m.b].elo, Side(p), KFor(idea[m.a].matches, idea[m.b].matches))
            Won(p, i, s) == [idea[i] EXCEPT !.elo = elo(p)[IF s = "a" THEN 1 ELSE 2], !.matches = @ + 1,
                                            !.wins = IF Side(p) = s THEN @ + 1 ELSE @]
            T == Len(verdicts)
            V == [match : DOMAIN match, better : Ideas]
<1>1. RankingTypeOK /\ TwoSides /\ Judgements
  BY DEF RecordInv
<1>2. match \in Seq(Slots) /\ verdicts \in Seq(V)
  BY <1>1 DEF RankingTypeOK, Slots
<1>3. m \in Slots /\ m.status = "planned" /\ m.a # m.b
  BY <1>1, <1>2 DEF Settle, Waiting, TwoSides
<1>4. m.a \in Ideas /\ m.b \in Ideas /\ m.round \in 1 .. MaxRounds
  BY <1>3 DEF Slots
<1>5. PICK position \in 1 .. 2 :
        /\ idea' = [idea EXCEPT ![m.a] = Won(position, m.a, "a"), ![m.b] = Won(position, m.b, "b")]
        /\ match' = [match EXCEPT ![n] = [@ EXCEPT !.status = "completed", !.first = PresentationOrder(m)[1],
              !.before = <<idea[m.a].elo, idea[m.b].elo>>, !.after = elo(position)]]
        /\ verdicts' = Append(verdicts, [match |-> n, better |-> PresentationOrder(m)[position]])
  BY Zenon DEF Settle
<1>. DEFINE side == Side(position)
            k == KFor(idea[m.a].matches, idea[m.b].matches)
            d == IF side = "a" THEN Gain(k, idea[m.a].elo - idea[m.b].elo)
                 ELSE -Gain(k, idea[m.b].elo - idea[m.a].elo)
            x == idea[m.a].elo + d
            y == idea[m.b].elo - d
            better == PresentationOrder(m)[position]
<1>6. \A i \in Ideas : idea[i] \in [elo : Int, matches : Nat, wins : Nat, cluster : Clusters \cup {0},
                                    status : {"none", "active", "archived"}]
  BY <1>1 DEF RankingTypeOK
<1>7. d \in Int
  <2>1. k \in {KInitial, KSettled}
    BY DEF KFor
  <2>2. idea[m.a].elo - idea[m.b].elo \in Int /\ idea[m.b].elo - idea[m.a].elo \in Int
    BY <1>4, <1>6
  <2>3. \A e \in Int : Gain(k, e) \in Int
    <3>. HIDE DEF k
    <3>. QED
      BY <2>1 DEF GainIsInt
  <2>. HIDE DEF k, m, side
  <2>. QED
    BY <2>2, <2>3
<1>8. elo(position) = <<x, y>>
  BY DEF EloUpdate
<1>9. better \in {m.a, m.b} /\ PresentationOrder(m)[1] \in {m.a, m.b}
  <2>1. PresentationOrder(m) \in {<<m.b, m.a>>, <<m.a, m.b>>}
    BY DEF PresentationOrder
  <2>. HIDE DEF m
  <2>. QED
    BY <2>1
<1>10. side = IF better = m.a THEN "a" ELSE "b"
  BY DEF WinnerSide
<1>. HIDE DEF d, side, better, Side, k
<1>11. x \in Int /\ y \in Int
  BY <1>4, <1>6, <1>7
<1>. DEFINE q == idea'
            w == match'
            u == verdicts'
<1>12. /\ \A i \in Ideas \ {m.a, m.b} : idea'[i] = idea[i]
       /\ idea'[m.a] = Won(position, m.a, "a") /\ idea'[m.b] = Won(position, m.b, "b")
       /\ DOMAIN idea' = Ideas /\ idea' = [i \in Ideas |-> idea'[i]]
  <2>1. idea = [i \in Ideas |-> idea[i]]
    BY <1>1 DEF RankingTypeOK
  <2>. HIDE DEF Won, m
  <2>. QED
    BY <1>3, <1>4, <1>5, <2>1
<1>13. idea'[m.a] = [idea[m.a] EXCEPT !.elo = x, !.matches = idea[m.a].matches + 1,
                                      !.wins = IF side = "a" THEN idea[m.a].wins + 1 ELSE idea[m.a].wins]
  <2>1. Won(position, m.a, "a") = [idea[m.a] EXCEPT !.elo = elo(position)[1], !.matches = @ + 1,
                                      !.wins = IF side = "a" THEN @ + 1 ELSE @]
    BY DEF side
  <2>2. elo(position)[1] = x
    BY <1>8
  <2>. HIDE DEF elo, Won, x
  <2>. QED
    BY <1>4, <1>6, <1>12, <2>1, <2>2
<1>14. idea'[m.b] = [idea[m.b] EXCEPT !.elo = y, !.matches = idea[m.b].matches + 1,
                                      !.wins = IF side = "b" THEN idea[m.b].wins + 1 ELSE idea[m.b].wins]
  <2>1. Won(position, m.b, "b") = [idea[m.b] EXCEPT !.elo = elo(position)[2], !.matches = @ + 1,
                                      !.wins = IF side = "b" THEN @ + 1 ELSE @]
    BY DEF side
  <2>2. elo(position)[2] = y
    BY <1>8
  <2>. HIDE DEF elo, Won, y
  <2>. QED
    BY <1>4, <1>6, <1>12, <2>1, <2>2
<1>15. /\ idea'[m.a].elo = x /\ idea'[m.a].matches = idea[m.a].matches + 1
       /\ idea'[m.a].wins = IF side = "a" THEN idea[m.a].wins + 1 ELSE idea[m.a].wins
       /\ idea'[m.b].elo = y /\ idea'[m.b].matches = idea[m.b].matches + 1
       /\ idea'[m.b].wins = IF side = "b" THEN idea[m.b].wins + 1 ELSE idea[m.b].wins
  <2>. HIDE DEF x, y
  <2>. QED
    BY <1>4, <1>6, <1>13, <1>14
<1>16. idea' \in [Ideas -> [elo : Int, matches : Nat, wins : Nat, cluster : Clusters \cup {0},
                           status : {"none", "active", "archived"}]]
  <2>1. idea[m.a] \in IdeaRows /\ idea[m.b] \in IdeaRows
    BY <1>4, <1>6 DEF IdeaRows
  <2>2. idea'[m.a] \in IdeaRows
    <3>. DEFINE won == IF side = "a" THEN idea[m.a].wins + 1 ELSE idea[m.a].wins
    <3>1. won \in Nat
      BY <2>1 DEF IdeaRows
    <3>2. idea'[m.a] = RowAfter(idea[m.a], x, idea[m.a].matches + 1, won)
      BY <1>13 DEF RowAfter
    <3>3. idea[m.a].matches + 1 \in Nat
      BY <2>1 DEF IdeaRows
    <3>. HIDE DEF won, x, m
    <3>. QED
      BY <1>11, <2>1, <3>1, <3>2, <3>3, RowAfterIs
  <2>3. idea'[m.b] \in IdeaRows
    <3>. DEFINE won == IF side = "b" THEN idea[m.b].wins + 1 ELSE idea[m.b].wins
    <3>1. won \in Nat
      BY <2>1 DEF IdeaRows
    <3>2. idea'[m.b] = RowAfter(idea[m.b], y, idea[m.b].matches + 1, won)
      BY <1>14 DEF RowAfter
    <3>3. idea[m.b].matches + 1 \in Nat
      BY <2>1 DEF IdeaRows
    <3>. HIDE DEF won, y, m
    <3>. QED
      BY <1>11, <2>1, <3>1, <3>2, <3>3, RowAfterIs
  <2>4. \A i \in Ideas \ {m.a, m.b} : idea'[i] \in IdeaRows
    BY <1>6, <1>12 DEF IdeaRows
  <2>5. idea' \in [Ideas -> IdeaRows]
    BY <1>12, <2>2, <2>3, <2>4
  <2>. QED
    BY <2>5 DEF IdeaRows
<1>. DEFINE settled == [m EXCEPT !.status = "completed", !.first = PresentationOrder(m)[1],
                                 !.before = <<idea[m.a].elo, idea[m.b].elo>>, !.after = <<x, y>>]
<1>17. settled \in Slots
  <2>1. <<idea[m.a].elo, idea[m.b].elo>> \in Int \X Int /\ <<x, y>> \in Int \X Int
    BY <1>4, <1>6, <1>11
  <2>2. PresentationOrder(m)[1] \in Ideas
    BY <1>4, <1>9
  <2>. HIDE DEF m, x, y
  <2>. QED
    BY <1>3, <2>1, <2>2 DEF Slots
<1>18. settled.a = m.a /\ settled.b = m.b /\ settled.status = "completed"
       /\ settled.before = <<idea[m.a].elo, idea[m.b].elo>> /\ settled.after = <<x, y>>
  <2>. HIDE DEF m, x, y
  <2>. QED
    BY <1>3 DEF Slots
<1>19. match' = [match EXCEPT ![n] = settled]
  <2>. HIDE DEF x, y
  <2>. QED
    BY <1>5, <1>8
<1>. HIDE DEF settled
<1>20. /\ match' \in Seq(Slots) /\ DOMAIN match' = DOMAIN match /\ match'[n] = settled
       /\ \A j \in DOMAIN match \ {n} : match'[j] = match[j]
  BY <1>2, <1>17, <1>19
<1>21. T \in Nat /\ DOMAIN verdicts = 1 .. T /\ [match |-> n, better |-> better] \in V
  BY <1>2, <1>4, <1>9
<1>22. /\ verdicts' \in Seq(V) /\ Len(verdicts') = T + 1 /\ DOMAIN verdicts' = 1 .. T + 1
       /\ \A t \in 1 .. T : verdicts'[t] = verdicts[t]
       /\ verdicts'[T + 1] = [match |-> n, better |-> better]
  <2>1. verdicts' = Append(verdicts, [match |-> n, better |-> better])
    BY <1>5 DEF better
  <2>. HIDE DEF V
  <2>2. /\ verdicts' \in Seq(V) /\ Len(verdicts') = T + 1
        /\ \A t \in 1 .. T : verdicts'[t] = verdicts[t]
        /\ verdicts'[T + 1] = [match |-> n, better |-> better]
    BY <1>2, <1>21, <2>1, AppendProperties
  <2>. QED
    BY <2>2, LenProperties
<1>23. \A t \in 1 .. T : verdicts[t] \in V /\ verdicts[t].match \in DOMAIN match \ {n}
  <2>. SUFFICES ASSUME NEW t \in 1 .. T PROVE verdicts[t] \in V /\ verdicts[t].match \in DOMAIN match \ {n}
    OBVIOUS
  <2>1. verdicts[t] \in V
    BY <1>2, ElementOfSeq
  <2>2. verdicts[t].match \in DOMAIN match
    BY <2>1
  <2>3. match[verdicts[t].match].status = "completed"
    BY <1>1, <1>21 DEF Judgements
  <2>. QED
    BY <1>3, <2>1, <2>2, <2>3
<1>24. \A t \in 1 .. T : match'[verdicts[t].match] = match[verdicts[t].match]
  BY <1>20, <1>23
<1>25. RankingTypeOK'
  <2>1. verdicts' \in Seq([match : DOMAIN match', better : Ideas])
    BY <1>20, <1>22
  <2>2. drawn' = drawn /\ round' = round /\ step' = step /\ resumes' = resumes
    BY DEF Settle
  <2>. QED
    BY <1>1, <1>16, <1>20, <2>1, <2>2 DEF RankingTypeOK, Slots
<1>26. TwoSides'
  BY <1>1, <1>3, <1>18, <1>20 DEF TwoSides
<1>27. Judgements'
  <2>. SUFFICES ASSUME NEW t \in 1 .. T + 1
                PROVE  /\ match'[verdicts'[t].match].status = "completed"
                       /\ verdicts'[t].better \in Of(match'[verdicts'[t].match])
    BY <1>22 DEF Judgements
  <2>1. CASE t \in 1 .. T
    BY <1>1, <1>21, <1>22, <1>24, <2>1 DEF Judgements
  <2>2. CASE t = T + 1
    BY <1>9, <1>18, <1>20, <1>22, <2>2 DEF Of
  <2>. QED
    BY <1>21, <2>1, <2>2
<1>28. RatingsConserved'
  <2>1. \A i \in Ideas : idea[i].elo \in Int /\ idea'[i].elo \in Int
    BY <1>6, <1>16
  <2>2. \A i \in Ideas \ {m.a, m.b} : idea'[i].elo = idea[i].elo
    BY <1>12
  <2>3. Points(idea') = Points(idea)
    <3>1. Moves(idea, idea', m.a, m.b, d)
      BY <1>3, <1>4, <1>7, <1>15, <2>1, <2>2 DEF Moves
    <3>. HIDE DEF m
    <3>. QED
      BY <3>1, PointsMove
  <2>. QED
    BY <2>3 DEF RecordInv, RatingsConserved
<1>29. RecordReplays'
  <2>1. Replays(idea, match, verdicts)
    BY DEF RecordInv, RecordReplays
  <2>2. /\ \A t \in 1 .. T : verdicts'[t] = verdicts[t] /\ match'[verdicts[t].match] = match[verdicts[t].match]
        /\ verdicts'[T + 1].match = n /\ verdicts'[T + 1].better = better
    BY <1>22, <1>24
  <2>3. /\ match'[n].a = m.a /\ match'[n].b = m.b
        /\ match'[n].before = <<idea[m.a].elo, idea[m.b].elo>> /\ match'[n].after = <<x, y>>
    BY <1>18, <1>20
  <2>4. \A i \in Ideas \ {m.a, m.b} :
          idea'[i].elo = idea[i].elo /\ idea'[i].matches = idea[i].matches /\ idea'[i].wins = idea[i].wins
    BY <1>12
  <2>5. \A i \in {m.a, m.b} : /\ idea'[i].matches = idea[i].matches + 1
                              /\ idea'[i].wins = IF better = i THEN idea[i].wins + 1 ELSE idea[i].wins
    <3>1. (side = "a" <=> better = m.a) /\ (side = "b" <=> better = m.b)
      BY <1>3, <1>9, <1>10
    <3>. QED
      BY <1>15, <3>1
  <2>6. Replays(idea', match', verdicts')
    <3>1. RowsMove(idea, idea', m.a, m.b, better, x, y)
      <4>. HIDE DEF m, x, y
      <4>. QED
        BY <1>3, <1>4, <1>9, <1>15, <2>4, <2>5 DEF RowsMove
    <3>2. RecordGrows(idea, match, verdicts, match', verdicts', T, n, m.a, m.b, better, x, y)
      <4>. HIDE DEF m, x, y
      <4>. QED
        BY <1>21, <1>22, <2>2, <2>3 DEF RecordGrows
    <3>. HIDE DEF m, x, y, T
    <3>. QED
      BY <2>1, <3>1, <3>2, ReplayGrows
  <2>. QED
    BY <2>6 DEF RecordReplays
<1>. QED
  BY <1>25, <1>26, <1>27, <1>28, <1>29 DEF RecordInv

LEMMA RecordStep == ASSUME GainIsInt, RecordInv, [RankingNext]_rankingVars PROVE RecordInv'
<1>1. /\ idea \in [Ideas -> IdeaRows] /\ match \in Seq(Slots)
      /\ verdicts \in Seq([match : DOMAIN match, better : Ideas])
      /\ RankingTypeOK /\ TwoSides /\ Judgements
  BY DEF RecordInv, RankingTypeOK, Slots, IdeaRows
<1>2. \A t \in DOMAIN verdicts : verdicts[t].match \in DOMAIN match /\ match[verdicts[t].match].status = "completed"
  <2>. SUFFICES ASSUME NEW t \in DOMAIN verdicts PROVE verdicts[t].match \in DOMAIN match
    BY <1>1 DEF Judgements
  <2>1. verdicts[t] \in [match : DOMAIN match, better : Ideas]
    <3>. DEFINE V == [match : DOMAIN match, better : Ideas]
    <3>1. verdicts \in Seq(V)
      BY <1>1
    <3>. HIDE DEF V
    <3>2. verdicts[t] \in V
      BY <3>1, LenProperties, ElementOfSeq
    <3>. QED
      BY <3>2 DEF V
  <2>. QED
    BY <2>1
<1>3. \A i \in Ideas : idea[i] \in IdeaRows
  BY <1>1
<1>4. ASSUME match' = match, verdicts' = verdicts, RankingTypeOK',
             \A i \in Ideas : /\ idea'[i].elo = idea[i].elo /\ idea'[i].matches = idea[i].matches
                              /\ idea'[i].wins = idea[i].wins
      PROVE  RecordInv'
  <2>1. TwoSides'
    BY <1>1, <1>4 DEF TwoSides
  <2>. QED
    BY <1>4, <2>1, NothingSettled
<1>5. ASSUME NEW i \in Ideas, idea' = [idea EXCEPT ![i].status = "active"]
      PROVE  /\ idea' \in [Ideas -> IdeaRows]
             /\ \A j \in Ideas : /\ idea'[j].elo = idea[j].elo /\ idea'[j].matches = idea[j].matches
                                 /\ idea'[j].wins = idea[j].wins
  <2>. DEFINE entry == [idea[i] EXCEPT !.status = "active"]
  <2>1. entry \in IdeaRows /\ entry.elo = idea[i].elo /\ entry.matches = idea[i].matches /\ entry.wins = idea[i].wins
    BY <1>3 DEF IdeaRows
  <2>2. idea' = [idea EXCEPT ![i] = entry]
    BY <1>5
  <2>. HIDE DEF entry
  <2>. QED
    BY <1>1, <2>1, <2>2
<1>6. CASE Join
  <2>1. PICK i \in Ideas : idea' = [idea EXCEPT ![i].status = "active"]
    BY <1>6 DEF Join
  <2>2. idea' \in [Ideas -> IdeaRows]
    BY <1>5, <2>1
  <2>3. UNCHANGED <<match, drawn, round, step, verdicts, resumes>>
    BY <1>6 DEF Join
  <2>4. RankingTypeOK'
    BY <1>1, <2>2, <2>3 DEF RankingTypeOK, IdeaRows
  <2>. QED
    BY <1>4, <1>5, <2>1, <2>3, <2>4
<1>7. CASE Cluster
  <2>0. PICK known \in SUBSET Active : \E label \in [known -> Clusters] :
          idea' = [i \in Ideas |->
            IF i \notin known THEN idea[i]
            ELSE [idea[i] EXCEPT !.cluster = label[i],
                    !.status = IF i \in {Champion({j \in known : label[j] = label[k]}) : k \in known}
                               THEN @ ELSE "archived"]]
    BY <1>7, Zenon DEF Cluster
  <2>1. PICK label \in [known -> Clusters] :
          idea' = [i \in Ideas |->
            IF i \notin known THEN idea[i]
            ELSE [idea[i] EXCEPT !.cluster = label[i],
                    !.status = IF i \in {Champion({j \in known : label[j] = label[k]}) : k \in known}
                               THEN @ ELSE "archived"]]
    BY <2>0, Zenon
  <2>2. ASSUME NEW i \in Ideas
        PROVE  /\ idea'[i] \in IdeaRows
               /\ idea'[i].elo = idea[i].elo /\ idea'[i].matches = idea[i].matches
               /\ idea'[i].wins = idea[i].wins
    <3>1. CASE i \notin known
      BY <1>3, <2>1, <3>1
    <3>2. CASE i \in known
      <4>. DEFINE stands == i \in {Champion({j \in known : label[j] = label[k]}) : k \in known}
                  entry == [idea[i] EXCEPT !.cluster = label[i], !.status = IF stands THEN @ ELSE "archived"]
      <4>1. idea'[i] = entry
        BY <2>1, <3>2
      <4>2. label[i] \in Clusters /\ idea[i] \in IdeaRows
        BY <1>3, <3>2
      <4>. HIDE DEF stands
      <4>3. entry \in IdeaRows /\ entry.elo = idea[i].elo /\ entry.matches = idea[i].matches /\ entry.wins = idea[i].wins
        BY <4>2 DEF IdeaRows
      <4>. HIDE DEF entry
      <4>. QED
        BY <4>1, <4>3
    <3>. QED
      BY <3>1, <3>2
  <2>3. idea' \in [Ideas -> IdeaRows]
    <3>1. idea' = [i \in Ideas |-> idea'[i]]
      BY <2>1
    <3>. QED
      BY <2>2, <3>1
  <2>4. UNCHANGED <<match, drawn, round, verdicts, resumes>> /\ step' = "plan"
    BY <1>7 DEF Cluster
  <2>5. RankingTypeOK'
    BY <1>1, <2>3, <2>4 DEF RankingTypeOK, IdeaRows
  <2>. QED
    BY <1>4, <2>2, <2>4, <2>5
<1>8. CASE ClusterFailed
  <2>1. UNCHANGED <<idea, match, drawn, round, verdicts, resumes>> /\ step' = "plan"
    BY <1>8 DEF ClusterFailed
  <2>2. RankingTypeOK'
    BY <1>1, <2>1 DEF RankingTypeOK
  <2>. QED
    BY <1>4, <2>1, <2>2
<1>9. CASE Plan
  BY <1>9, PlanKeeps
<1>10. CASE ExtendPlan
  BY <1>10, PlanKeeps
<1>11. ASSUME NEW n \in DOMAIN match, Settle(n) PROVE RecordInv'
  BY <1>11, SettleKeeps
<1>12. ASSUME NEW n \in DOMAIN match, Skip(n) PROVE RecordInv'
  <2>1. /\ n \in Waiting /\ match' = [match EXCEPT ![n].status = "skipped"]
        /\ UNCHANGED <<idea, drawn, round, step, verdicts, resumes>>
    BY <1>12 DEF Skip
  <2>. DEFINE skipped == [match[n] EXCEPT !.status = "skipped"]
  <2>2. match[n] \in Slots /\ match[n].status = "planned"
    BY <1>1, <2>1, LenProperties, ElementOfSeq DEF Waiting
  <2>3. skipped \in Slots /\ skipped.a = match[n].a /\ skipped.b = match[n].b
    BY <2>2 DEF Slots
  <2>4. match' = [match EXCEPT ![n] = skipped]
    BY <2>1
  <2>. HIDE DEF skipped
  <2>5. /\ match' \in Seq(Slots) /\ DOMAIN match' = DOMAIN match /\ match'[n] = skipped
        /\ \A j \in DOMAIN match \ {n} : match'[j] = match[j]
    BY <1>1, <2>3, <2>4
  <2>6. RankingTypeOK'
    <3>1. verdicts' \in Seq([match : DOMAIN match', better : Ideas])
      BY <1>1, <2>1, <2>5
    <3>. QED
      BY <1>1, <2>1, <2>5, <3>1 DEF RankingTypeOK, Slots
  <2>7. TwoSides'
    BY <1>1, <2>3, <2>5 DEF TwoSides
  <2>8. \A t \in DOMAIN verdicts : match'[verdicts[t].match] = match[verdicts[t].match]
    BY <1>2, <2>2, <2>5
  <2>. QED
    BY <2>1, <2>6, <2>7, <2>8, NothingSettled
<1>13. CASE Judged
  <2>1. UNCHANGED <<idea, match, drawn, round, verdicts, resumes>> /\ step' = "breed"
    BY <1>13 DEF Judged
  <2>2. RankingTypeOK'
    BY <1>1, <2>1 DEF RankingTypeOK
  <2>. QED
    BY <1>4, <2>1, <2>2
<1>14. CASE Breed
  <2>1. /\ round < MaxRounds /\ round' = round + 1 /\ step' = "open" /\ drawn' = {}
        /\ UNCHANGED <<match, verdicts, resumes>>
        /\ idea' = idea \/ \E i \in Ideas : idea' = [idea EXCEPT ![i].status = "active"]
    BY <1>14, Zenon DEF Breed
  <2>2. /\ idea' \in [Ideas -> IdeaRows]
        /\ \A j \in Ideas : /\ idea'[j].elo = idea[j].elo /\ idea'[j].matches = idea[j].matches
                            /\ idea'[j].wins = idea[j].wins
    BY <1>1, <1>5, <2>1
  <2>3. round' \in 1 .. MaxRounds
    BY <1>1, <2>1, RankingAssumption DEF RankingTypeOK
  <2>4. RankingTypeOK'
    BY <1>1, <2>1, <2>2, <2>3 DEF RankingTypeOK, IdeaRows
  <2>. QED
    BY <1>4, <2>1, <2>2, <2>4
<1>15. CASE Resume
  <2>1. /\ resumes < MaxResumes /\ resumes' = resumes + 1 /\ step' = "open"
        /\ UNCHANGED <<idea, match, drawn, round, verdicts>>
    BY <1>15 DEF Resume
  <2>2. resumes' \in 0 .. MaxResumes
    BY <1>1, <2>1, RankingAssumption DEF RankingTypeOK
  <2>3. RankingTypeOK'
    BY <1>1, <2>1, <2>2 DEF RankingTypeOK
  <2>. QED
    BY <1>4, <2>1, <2>3
<1>16. CASE UNCHANGED rankingVars
  <2>1. UNCHANGED <<idea, match, drawn, round, step, verdicts, resumes>>
    BY <1>16 DEF rankingVars
  <2>2. RankingTypeOK'
    BY <1>1, <2>1 DEF RankingTypeOK
  <2>. QED
    BY <1>4, <2>1, <2>2
<1>. QED
  BY <1>6, <1>7, <1>8, <1>9, <1>10, <1>11, <1>12, <1>13, <1>14, <1>15, <1>16 DEF RankingNext

(* The ratings are what the judges said, each verdict counted once, however *)
(* many ideas, rounds and matches a run has and however often it is resumed: *)
(* no points appear or vanish (elo_update), and the rows replay from the    *)
(* record of the matches (record_match).                                    *)
THEOREM RatingsAreHeld ==
  ASSUME GainIsInt
  PROVE  RankingSpec => []RatingsHold
<1>1. RankingInit => RecordInv
  BY RecordInit
<1>2. RecordInv /\ [RankingNext]_rankingVars => RecordInv'
  BY RecordStep
<1>3. RecordInv => RatingsHold
  BY DEF RecordInv, RatingsHold
<1>. QED
  BY <1>1, <1>2, <1>3, PTL DEF RankingSpec

-----------------------------------------------------------------------------
(* Who meets whom, and from which side.                                     *)

\* Completed meetings, of an earlier round, of the ideas of match n.
Earlier(s, n) == {k \in DOMAIN s : s[k].round < s[n].round /\ s[k].status = "completed" /\ Of(s[k]) = Of(s[n])}
ReadFirst(s, n) == MeetingKey(s[n].a, s[n].b)[1 + (Cardinality(Earlier(s, n)) % 2)]

RoundsInOrder ==
  /\ \A m, n \in DOMAIN match : m < n => match[m].round <= match[n].round
  /\ \A n \in DOMAIN match : match[n].round <= round

\* The order a pair was read in goes by the meetings it had before.
ReadByMeetings == \A n \in DOMAIN match : match[n].status = "completed" => match[n].first = ReadFirst(match, n)

MeetInv == RoundsInOrder /\ OncePerRound /\ ReadByMeetings

LEMMA MatchesAre ==
  ASSUME RecordInv
  PROVE  /\ Len(match) \in Nat /\ DOMAIN match = 1 .. Len(match)
         /\ \A n \in DOMAIN match : /\ match[n].a \in Int /\ match[n].b \in Int /\ match[n].a # match[n].b
                                    /\ match[n].a \in Ideas /\ match[n].b \in Ideas
                                    /\ match[n].round \in Int
         /\ round \in Int
<1>1. match \in Seq(Slots) /\ round \in 1 .. MaxRounds /\ TwoSides
  BY DEF RecordInv, RankingTypeOK, Slots
<1>2. ASSUME NEW n \in DOMAIN match
      PROVE  match[n].a \in Ideas /\ match[n].b \in Ideas /\ match[n].round \in 1 .. MaxRounds /\ match[n].a # match[n].b
  <2>1. match[n] \in Slots
    BY <1>1, LenProperties, ElementOfSeq
  <2>. QED
    BY <1>1, <2>1 DEF Slots, TwoSides
<1>3. Ideas \subseteq Int /\ \A r \in 1 .. MaxRounds : r \in Int
  BY RankingAssumption DEF Ideas
<1>4. Len(match) \in Nat /\ DOMAIN match = 1 .. Len(match)
  BY <1>1, LenProperties
<1>5. \A n \in DOMAIN match : /\ match[n].a \in Int /\ match[n].b \in Int /\ match[n].a # match[n].b
                             /\ match[n].a \in Ideas /\ match[n].b \in Ideas
                             /\ match[n].round \in Int
  BY <1>2, <1>3
<1>. QED
  BY <1>1, <1>3, <1>4, <1>5

LEMMA KeyIs ==
  ASSUME NEW a \in Int, NEW b \in Int, a # b
  PROVE  MeetingKey(a, b) = MeetingKey(b, a) /\ MeetingKey(a, b)[1] # MeetingKey(a, b)[2]
         /\ MeetingKey(a, b)[1] \in {a, b} /\ MeetingKey(a, b)[2] \in {a, b}
BY DEF MeetingKey

LEMMA EarlierIsFinite ==
  ASSUME RecordInv, NEW n
  PROVE  IsFiniteSet(Earlier(match, n)) /\ Cardinality(Earlier(match, n)) \in Nat
<1>1. IsFiniteSet(DOMAIN match)
  BY MatchesAre, FS_Interval
<1>2. Earlier(match, n) \subseteq DOMAIN match
  BY DEF Earlier
<1>3. IsFiniteSet(Earlier(match, n))
  BY <1>1, <1>2, FS_Subset
<1>. QED
  BY <1>3, FS_CardinalityType

(* From one meeting to the next there is one meeting more. *)
LEMMA ReadInTurn ==
  ASSUME RecordInv, MeetInv
  PROVE  MeetingsAlternate
<1>. SUFFICES ASSUME NEW m \in DOMAIN match, NEW n \in DOMAIN match, m < n, Of(match[m]) = Of(match[n]),
                     match[m].status = "completed", match[n].status = "completed",
                     \A k \in m + 1 .. n - 1 : Of(match[k]) = Of(match[m]) => match[k].status # "completed"
              PROVE  match[m].first # match[n].first
  BY DEF MeetingsAlternate
<1>1. /\ DOMAIN match = 1 .. Len(match) /\ Len(match) \in Nat /\ round \in Int
      /\ \A k \in DOMAIN match : /\ match[k].a \in Int /\ match[k].b \in Int /\ match[k].a # match[k].b
                                 /\ match[k].round \in Int
  BY MatchesAre
<1>2. \A k, l \in DOMAIN match : k < l => match[k].round <= match[l].round
  BY DEF MeetInv, RoundsInOrder
<1>3. \A k, l \in DOMAIN match : (k < l /\ Of(match[k]) = Of(match[l])) => match[k].round < match[l].round
  BY <1>1, <1>2 DEF MeetInv, OncePerRound
<1>4. Earlier(match, n) = Earlier(match, m) \cup {m}
  <2>1. m \in Earlier(match, n)
    BY <1>3 DEF Earlier
  <2>2. ASSUME NEW k \in Earlier(match, m) PROVE k \in Earlier(match, n)
    <3>1. k \in DOMAIN match /\ match[k].round < match[m].round /\ match[m].round < match[n].round
      BY <1>3, <2>2 DEF Earlier
    <3>2. match[k].round < match[n].round
      BY <1>1, <3>1
    <3>. QED
      BY <2>2, <3>2 DEF Earlier
  <2>3. ASSUME NEW k \in Earlier(match, n), k # m PROVE k \in Earlier(match, m)
    <3>1. k \in DOMAIN match /\ match[k].round < match[n].round /\ match[k].status = "completed" /\ Of(match[k]) = Of(match[m])
      BY <2>3 DEF Earlier
    <3>2. ~(n < k) /\ k # n
      BY <1>1, <1>2, <3>1
    <3>3. k \notin m + 1 .. n - 1
      BY <3>1
    <3>4. k < m
      BY <1>1, <2>3, <3>1, <3>2, <3>3
    <3>. QED
      BY <1>3, <3>1, <3>4 DEF Earlier
  <2>. QED
    BY <2>1, <2>2, <2>3
<1>. DEFINE x == Cardinality(Earlier(match, m))
<1>5. Cardinality(Earlier(match, n)) = x + 1 /\ x \in Nat
  <2>1. m \notin Earlier(match, m)
    BY <1>1 DEF Earlier
  <2>2. IsFiniteSet(Earlier(match, m)) /\ x \in Nat
    BY EarlierIsFinite
  <2>. QED
    BY <1>4, <2>1, <2>2, OneMore
<1>. HIDE DEF x
<1>6. match[m].first = MeetingKey(match[m].a, match[m].b)[1 + (x % 2)]
  BY DEF MeetInv, ReadByMeetings, ReadFirst, x
<1>7. match[n].first = MeetingKey(match[n].a, match[n].b)[1 + ((x + 1) % 2)]
  BY <1>5 DEF MeetInv, ReadByMeetings, ReadFirst
<1>8. MeetingKey(match[n].a, match[n].b) = MeetingKey(match[m].a, match[m].b)
  <2>. DEFINE a == match[m].a   b == match[m].b   c == match[n].a   d == match[n].b
  <2>1. {a, b} = {c, d} /\ a \in Int /\ b \in Int /\ c \in Int /\ d \in Int /\ a # b /\ c # d
    BY <1>1 DEF Of
  <2>. HIDE DEF a, b, c, d
  <2>2. (c = a /\ d = b) \/ (c = b /\ d = a)
    BY <2>1
  <2>3. MeetingKey(c, d) = MeetingKey(a, b)
    BY <2>1, <2>2, KeyIs
  <2>. QED
    BY <2>3 DEF a, b, c, d
<1>9. MeetingKey(match[m].a, match[m].b)[1] # MeetingKey(match[m].a, match[m].b)[2]
  BY <1>1, KeyIs
<1>10. (x % 2 = 0 /\ (x + 1) % 2 = 1) \/ (x % 2 = 1 /\ (x + 1) % 2 = 0)
  BY <1>5
<1>. DEFINE key == MeetingKey(match[m].a, match[m].b)
<1>11. /\ match[m].first = key[1 + (x % 2)] /\ match[n].first = key[1 + ((x + 1) % 2)]
       /\ key[1] # key[2]
  BY <1>6, <1>7, <1>8, <1>9
<1>. HIDE DEF key
<1>12. CASE x % 2 = 0 /\ (x + 1) % 2 = 1
  <2>1. match[m].first = key[1] /\ match[n].first = key[2]
    BY <1>11, <1>12
  <2>. QED
    BY <1>11, <2>1
<1>13. CASE x % 2 = 1 /\ (x + 1) % 2 = 0
  <2>1. match[m].first = key[2] /\ match[n].first = key[1]
    BY <1>11, <1>13
  <2>. QED
    BY <1>11, <2>1
<1>. QED
  BY <1>10, <1>12, <1>13

LEMMA MeetStands ==
  ASSUME RecordInv, MeetInv, match' = match, round' \in {round, round + 1}
  PROVE  MeetInv'
<1>1. RoundsInOrder'
  BY MatchesAre DEF MeetInv, RoundsInOrder
<1>2. OncePerRound'
  BY DEF MeetInv, OncePerRound
<1>3. ReadByMeetings'
  BY DEF MeetInv, ReadByMeetings
<1>. QED
  BY <1>1, <1>2, <1>3 DEF MeetInv

\* Match n of s is settled or skipped, in w; the others stand.
Closes(s, w, n, r) ==
  /\ DOMAIN w = DOMAIN s /\ n \in DOMAIN s
  /\ \A k \in DOMAIN s \ {n} : w[k] = s[k]
  /\ w[n].a = s[n].a /\ w[n].b = s[n].b /\ w[n].round = s[n].round
  /\ s[n].round = r /\ s[n].status # "completed"
  /\ w[n].status = "completed" => w[n].first = ReadFirst(s, n)

LEMMA MeetCloses ==
  ASSUME RecordInv, MeetInv, NEW n, Closes(match, match', n, round), round' = round
  PROVE  MeetInv'
<1>1. /\ DOMAIN match = 1 .. Len(match) /\ Len(match) \in Nat /\ round \in Int
      /\ \A k \in DOMAIN match : match[k].round \in Int
  BY MatchesAre
<1>2. /\ DOMAIN match' = DOMAIN match /\ n \in DOMAIN match
      /\ \A k \in DOMAIN match : /\ match'[k].a = match[k].a /\ match'[k].b = match[k].b
                                 /\ match'[k].round = match[k].round /\ Of(match'[k]) = Of(match[k])
      /\ \A k \in DOMAIN match \ {n} : match'[k] = match[k]
      /\ match[n].round = round /\ match[n].status # "completed"
  BY DEF Closes, Of
<1>3. RoundsInOrder'
  BY <1>2 DEF MeetInv, RoundsInOrder
<1>4. OncePerRound'
  BY <1>2 DEF MeetInv, OncePerRound
<1>5. ASSUME NEW k \in DOMAIN match PROVE Earlier(match', k) = Earlier(match, k)
  <2>1. match[k].round <= round
    BY DEF MeetInv, RoundsInOrder
  <2>2. ~(match[n].round < match[k].round)
    BY <1>1, <1>2, <2>1
  <2>. QED
    BY <1>2, <2>2 DEF Earlier
<1>6. \A k \in DOMAIN match : ReadFirst(match', k) = ReadFirst(match, k)
  BY <1>2, <1>5 DEF ReadFirst
<1>7. ReadByMeetings'
  <2>. SUFFICES ASSUME NEW k \in DOMAIN match, match'[k].status = "completed"
                PROVE  match'[k].first = ReadFirst(match', k)
    BY <1>2 DEF ReadByMeetings
  <2>1. CASE k = n
    BY <1>6, <2>1 DEF Closes
  <2>2. CASE k # n
    BY <1>2, <1>6, <2>2 DEF MeetInv, ReadByMeetings
  <2>. QED
    BY <2>1, <2>2
<1>. QED
  BY <1>3, <1>4, <1>7 DEF MeetInv

LEMMA SettleMeets ==
  ASSUME RecordInv, MeetInv, NEW n \in DOMAIN match, Settle(n)
  PROVE  MeetInv'
<1>. DEFINE m == match[n]
            p == PriorMeetings(m.a, m.b)
<1>1. /\ match[n].a \in Int /\ match[n].b \in Int /\ match[n].a # match[n].b /\ match[n].round = round
      /\ match[n].status # "completed" /\ round' = round
      /\ match \in Seq(Slots) /\ match[n] \in Slots
  <2>1. match \in Seq(Slots)
    BY DEF RecordInv, RankingTypeOK, Slots
  <2>2. match[n] \in Slots
    BY <2>1, LenProperties, ElementOfSeq
  <2>. QED
    BY <2>1, <2>2, MatchesAre DEF Settle, Waiting, Planned
<1>2. p = Cardinality(Earlier(match, n)) /\ p \in Nat
  <2>1. Earlier(match, n) = {k \in DOMAIN match :
          match[k].round < round /\ match[k].status = "completed" /\ Of(match[k]) = {m.a, m.b}}
    BY <1>1 DEF Earlier, Of
  <2>. QED
    BY <2>1, EarlierIsFinite DEF PriorMeetings
<1>3. PresentationOrder(m)[1] = ReadFirst(match, n)
  <2>. DEFINE key == MeetingKey(m.a, m.b)
  <2>1. ReadFirst(match, n) = key[1 + (p % 2)]
    BY <1>2 DEF ReadFirst
  <2>2. PresentationOrder(m) = IF key[1 + (p % 2)] # m.a THEN <<m.b, m.a>> ELSE <<m.a, m.b>>
    BY DEF PresentationOrder, PresentationSwap
  <2>3. key[1] \in {m.a, m.b} /\ key[2] \in {m.a, m.b}
    BY <1>1, KeyIs
  <2>. HIDE DEF key, p
  <2>4. key[1 + (p % 2)] \in {m.a, m.b}
    <3>1. 1 + (p % 2) = 1 \/ 1 + (p % 2) = 2
      BY <1>2
    <3>. QED
      BY <2>3, <3>1
  <2>. HIDE DEF m
  <2>5. CASE key[1 + (p % 2)] = m.a
    BY <2>1, <2>2, <2>5
  <2>6. CASE key[1 + (p % 2)] # m.a
    BY <2>1, <2>2, <2>4, <2>6
  <2>. QED
    BY <2>5, <2>6
<1>4. PICK before, after : match' = [match EXCEPT ![n] = [@ EXCEPT !.status = "completed",
        !.first = PresentationOrder(m)[1], !.before = before, !.after = after]]
  BY Zenon DEF Settle
<1>. DEFINE settled == [m EXCEPT !.status = "completed", !.first = PresentationOrder(m)[1],
                                 !.before = before, !.after = after]
<1>5. match' = [match EXCEPT ![n] = settled]
  BY <1>4
<1>6. settled.a = m.a /\ settled.b = m.b /\ settled.round = m.round /\ settled.first = PresentationOrder(m)[1]
  BY <1>1 DEF Slots
<1>. HIDE DEF settled, m
<1>7. /\ DOMAIN match' = DOMAIN match /\ match'[n] = settled
      /\ \A k \in DOMAIN match \ {n} : match'[k] = match[k]
  BY <1>1, <1>5
<1>8. Closes(match, match', n, round)
  BY <1>1, <1>3, <1>6, <1>7 DEF Closes, m
<1>. QED
  BY <1>1, <1>8, MeetCloses

LEMMA SkipMeets ==
  ASSUME RecordInv, MeetInv, NEW n \in DOMAIN match, Skip(n)
  PROVE  MeetInv'
<1>1. match \in Seq(Slots)
  BY DEF RecordInv, RankingTypeOK, Slots
<1>2. match[n] \in Slots
  BY <1>1, LenProperties, ElementOfSeq
<1>. DEFINE skipped == [match[n] EXCEPT !.status = "skipped"]
<1>3. match' = [match EXCEPT ![n] = skipped] /\ round' = round /\ match[n].round = round /\ match[n].status = "planned"
  BY DEF Skip, Waiting, Planned
<1>4. /\ skipped.a = match[n].a /\ skipped.b = match[n].b /\ skipped.round = match[n].round
      /\ skipped.status = "skipped"
  BY <1>2 DEF Slots
<1>. HIDE DEF skipped
<1>5. /\ DOMAIN match' = DOMAIN match /\ match'[n] = skipped
      /\ \A k \in DOMAIN match \ {n} : match'[k] = match[k]
  BY <1>1, <1>3
<1>6. Closes(match, match', n, round)
  BY <1>3, <1>4, <1>5 DEF Closes
<1>. QED
  BY <1>3, <1>6, MeetCloses

LEMMA EntriesAdd ==
  ASSUME RecordInv, NEW S \in SUBSET Ideas, NEW pairs \in Seq(Pairs(S)), match' = match \o Entries(pairs)
  PROVE  /\ Len(pairs) \in Nat /\ Len(match) \in Nat /\ DOMAIN match = 1 .. Len(match)
         /\ Len(match') = Len(match) + Len(pairs)
         /\ DOMAIN match' = 1 .. Len(match) + Len(pairs)
         /\ \A n \in 1 .. Len(match) : match'[n] = match[n]
         /\ \A n \in 1 .. Len(pairs) : /\ pairs[n] \in Pairs(S)
                                       /\ match'[Len(match) + n].round = round
                                       /\ match'[Len(match) + n].status = "planned"
                                       /\ Of(match'[Len(match) + n]) = {pairs[n][1], pairs[n][2]}
<1>. DEFINE added == Entries(pairs)
            Row(n) == [round |-> round, a |-> pairs[n][1], b |-> pairs[n][2],
                       status |-> "planned", first |-> 0, before |-> <<0, 0>>, after |-> <<0, 0>>]
            Rows == {Row(n) : n \in 1 .. Len(pairs)}
            c == Len(match)
            p == Len(pairs)
<1>1. match \in Seq(Slots) /\ c \in Nat /\ DOMAIN match = 1 .. c
  BY DEF RecordInv, RankingTypeOK, Slots
<1>2. p \in Nat /\ DOMAIN pairs = 1 .. p /\ \A n \in 1 .. p : pairs[n] \in Pairs(S)
  OBVIOUS
<1>3. added = [n \in 1 .. p |-> Row(n)]
  BY <1>2 DEF Entries
<1>4. added \in Seq(Rows) /\ Len(added) = p /\ \A n \in 1 .. p : added[n] = Row(n)
  BY <1>2, <1>3
<1>. HIDE DEF added, Rows
<1>5. \A n \in 1 .. p : /\ added[n].round = round /\ added[n].status = "planned"
                        /\ Of(added[n]) = {pairs[n][1], pairs[n][2]}
  <2>. SUFFICES ASSUME NEW n \in 1 .. p
                PROVE  /\ added[n].round = round /\ added[n].status = "planned"
                       /\ Of(added[n]) = {pairs[n][1], pairs[n][2]}
    OBVIOUS
  <2>1. added[n] = Row(n)
    BY <1>4
  <2>. HIDE DEF p
  <2>. QED
    BY <2>1 DEF Of
<1>. HIDE DEF c, p
<1>. DEFINE U == Slots \cup Rows
            w == match \o added
<1>6. match \in Seq(U) /\ added \in Seq(U)
  BY <1>1, <1>4
<1>7. /\ Len(w) = Len(match) + Len(added) /\ w \in Seq(U)
      /\ \A n \in 1 .. Len(match) + Len(added) :
           w[n] = IF n <= Len(match) THEN match[n] ELSE added[n - Len(match)]
  <2>. HIDE DEF U
  <2>. QED
    BY <1>6, ConcatProperties
<1>8. match' = w
  BY DEF added
<1>. HIDE DEF w, U
<1>9. Len(match') = c + p /\ DOMAIN match' = 1 .. c + p
  BY <1>4, <1>7, <1>8 DEF c
<1>10. \A n \in 1 .. c : match'[n] = match[n]
  BY <1>1, <1>2, <1>4, <1>7, <1>8 DEF c
<1>11. \A n \in 1 .. p : match'[c + n] = added[n]
  <2>. SUFFICES ASSUME NEW n \in 1 .. p PROVE match'[c + n] = added[n]
    OBVIOUS
  <2>1. c + n \in 1 .. c + p /\ ~(c + n <= c) /\ (c + n) - c = n
    BY <1>1, <1>2
  <2>. QED
    BY <1>4, <1>7, <1>8, <2>1 DEF c
<1>. QED
  BY <1>1, <1>2, <1>5, <1>9, <1>10, <1>11 DEF c, p

(* A plan brings no pair together again in its round. *)
LEMMA PlanMeets ==
  ASSUME RecordInv, MeetInv, NEW S \in SUBSET Ideas, NEW pairs \in Seq(Pairs(S)), Distinct(pairs),
         \A k \in DOMAIN pairs : \A n \in Planned : {pairs[k][1], pairs[k][2]} \cap Of(match[n]) = {},
         match' = match \o Entries(pairs), round' = round
  PROVE  MeetInv'
<1>. DEFINE c == Len(match)
            p == Len(pairs)
<1>1. Rated
  BY DEF RecordInv, RankingTypeOK, Rated
<1>2. /\ p \in Nat /\ c \in Nat /\ DOMAIN match = 1 .. c /\ DOMAIN match' = 1 .. c + p
      /\ \A n \in 1 .. c : match'[n] = match[n]
      /\ \A n \in 1 .. p : /\ pairs[n] \in Pairs(S)
                           /\ match'[c + n].round = round
                           /\ match'[c + n].status = "planned"
                           /\ Of(match'[c + n]) = {pairs[n][1], pairs[n][2]}
  BY EntriesAdd
<1>3. DOMAIN pairs = 1 .. p
  OBVIOUS
<1>4. round \in Int /\ \A n \in 1 .. c : match[n].round \in Int /\ match[n].round <= round
  BY <1>2, MatchesAre DEF MeetInv, RoundsInOrder
<1>. HIDE DEF c, p
<1>5. \A n \in 1 .. c + p : n \in 1 .. c \/ \E k \in 1 .. p : n = c + k
  <2>. SUFFICES ASSUME NEW n \in 1 .. c + p, n \notin 1 .. c PROVE \E k \in 1 .. p : n = c + k
    OBVIOUS
  <2>1. n - c \in 1 .. p /\ n = c + (n - c)
    BY <1>2
  <2>. QED
    BY <2>1
<1>6. \A k \in 1 .. p : pairs[k][1] # pairs[k][2]
  BY <1>1, <1>2, PairsDiffer
<1>7. RoundsInOrder'
  <2>1. ASSUME NEW m \in 1 .. c + p, NEW n \in 1 .. c + p, m < n PROVE match'[m].round <= match'[n].round
    <3>1. CASE n \in 1 .. c
      <4>1. m \in 1 .. c
        BY <1>2, <2>1, <3>1
      <4>. QED
        BY <1>2, <2>1, <3>1, <4>1 DEF MeetInv, RoundsInOrder
    <3>2. CASE n \notin 1 .. c
      <4>1. match'[n].round = round
        BY <1>2, <1>5, <3>2
      <4>2. match'[m].round \in Int /\ match'[m].round <= round
        <5>1. CASE m \in 1 .. c
          BY <1>2, <1>4, <5>1
        <5>2. CASE m \notin 1 .. c
          <6>1. match'[m].round = round
            BY <1>2, <1>5, <5>2
          <6>. QED
            BY <1>4, <6>1
        <5>. QED
          BY <5>1, <5>2
      <4>. QED
        BY <1>4, <4>1, <4>2
    <3>. QED
      BY <3>1, <3>2
  <2>2. \A n \in 1 .. c + p : match'[n].round <= round
    BY <1>2, <1>4, <1>5
  <2>. QED
    BY <1>2, <2>1, <2>2 DEF RoundsInOrder
<1>8. OncePerRound'
  <2>. SUFFICES ASSUME NEW m \in 1 .. c + p, NEW n \in 1 .. c + p, m < n, match'[m].round = match'[n].round
                PROVE  Of(match'[m]) # Of(match'[n])
    BY <1>2 DEF OncePerRound
  <2>1. CASE n \in 1 .. c
    <3>1. m \in 1 .. c
      BY <1>2, <2>1
    <3>2. match'[m] = match[m] /\ match'[n] = match[n]
      BY <1>2, <2>1, <3>1
    <3>3. Of(match[m]) # Of(match[n])
      BY <1>2, <2>1, <3>1, <3>2 DEF MeetInv, OncePerRound
    <3>. QED
      BY <3>2, <3>3
  <2>2. ASSUME m \in 1 .. c, NEW k \in 1 .. p, n = c + k PROVE Of(match'[m]) # Of(match'[n])
    <3>1. match[m].round = round /\ match'[m] = match[m]
      BY <1>2, <2>2
    <3>2. m \in Planned
      BY <1>2, <2>2, <3>1 DEF Planned
    <3>3. {pairs[k][1], pairs[k][2]} \cap Of(match[m]) = {}
      BY <1>3, <3>2
    <3>4. Of(match'[n]) = {pairs[k][1], pairs[k][2]}
      BY <1>2, <2>2
    <3>. QED
      BY <3>1, <3>3, <3>4
  <2>3. ASSUME NEW j \in 1 .. p, m = c + j, NEW k \in 1 .. p, n = c + k PROVE Of(match'[m]) # Of(match'[n])
    <3>1. j # k
      BY <1>2, <2>3
    <3>2. pairs[j] # pairs[k]
      BY <1>3, <3>1 DEF Distinct
    <3>3. pairs[j] \in Pairs(S) /\ pairs[k] \in Pairs(S)
      BY <1>2
    <3>4. {pairs[j][1], pairs[j][2]} # {pairs[k][1], pairs[k][2]}
      BY <1>1, <3>2, <3>3, PairsDiffer
    <3>. QED
      BY <1>2, <2>3, <3>4
  <2>4. m \in 1 .. c \/ \E j \in 1 .. p : m = c + j
    BY <1>5
  <2>5. n \in 1 .. c \/ \E k \in 1 .. p : n = c + k
    BY <1>5
  <2>. QED
    BY <2>1, <2>2, <2>3, <2>4, <2>5
<1>9. ReadByMeetings'
  <2>. SUFFICES ASSUME NEW n \in 1 .. c + p, match'[n].status = "completed"
                PROVE  match'[n].first = ReadFirst(match', n)
    BY <1>2 DEF ReadByMeetings
  <2>1. n \in 1 .. c
    BY <1>2, <1>5
  <2>2. \A k \in 1 .. c + p : match'[k].status = "completed" => k \in 1 .. c
    BY <1>2, <1>5
  <2>3. 1 .. c \subseteq 1 .. c + p
    BY <1>2
  <2>4. Earlier(match', n) = Earlier(match, n)
    BY <1>2, <2>1, <2>2, <2>3 DEF Earlier
  <2>5. match[n].first = ReadFirst(match, n)
    BY <1>2, <2>1 DEF MeetInv, ReadByMeetings
  <2>. QED
    BY <1>2, <2>1, <2>4, <2>5 DEF ReadFirst
<1>. QED
  BY <1>7, <1>8, <1>9 DEF MeetInv

LEMMA MeetStep ==
  ASSUME RecordInv, MeetInv, [RankingNext]_rankingVars
  PROVE  MeetInv'
<1>1. Rated /\ Active \in SUBSET Ideas /\ Newcomers \in SUBSET Ideas
  BY DEF RecordInv, RankingTypeOK, Rated, Active, Newcomers
<1>2. CASE Plan
  <2>1. PICK pairs \in MakePairs(Active) : match' = match \o Entries(pairs)
    BY <1>2 DEF Plan
  <2>2. pairs \in Seq(Pairs(Active)) /\ Distinct(pairs)
    BY <1>1, PlansAre DEF Plans
  <2>3. Planned = {} /\ round' = round
    BY <1>2 DEF Plan
  <2>. QED
    BY <1>1, <2>1, <2>2, <2>3, PlanMeets
<1>3. CASE ExtendPlan
  <2>1. PICK pairs \in MakePairs(Newcomers) : match' = match \o Entries(Unscheduled(pairs))
    BY <1>3 DEF ExtendPlan
  <2>2. pairs \in Plans(Newcomers)
    BY <1>1, PlansAre
  <2>. DEFINE additions == Unscheduled(pairs)
  <2>3. /\ additions \in Seq(Pairs(Newcomers)) /\ Distinct(additions)
        /\ \A k \in DOMAIN additions : \A n \in Planned :
             {additions[k][1], additions[k][2]} \cap Of(match[n]) = {}
    BY <2>2, UnscheduledIs
  <2>4. round' = round /\ match' = match \o Entries(additions)
    BY <1>3, <2>1 DEF ExtendPlan
  <2>. HIDE DEF additions
  <2>. QED
    BY <1>1, <2>3, <2>4, PlanMeets
<1>4. ASSUME NEW n \in DOMAIN match, Settle(n) PROVE MeetInv'
  BY <1>4, SettleMeets
<1>5. ASSUME NEW n \in DOMAIN match, Skip(n) PROVE MeetInv'
  BY <1>5, SkipMeets
<1>6. CASE Join \/ Cluster \/ ClusterFailed \/ Judged \/ Resume \/ UNCHANGED rankingVars
  <2>1. match' = match /\ round' = round
    BY <1>6 DEF Join, Cluster, ClusterFailed, Judged, Resume, rankingVars
  <2>. QED
    BY <2>1, MeetStands
<1>7. CASE Breed
  <2>1. match' = match /\ round' = round + 1
    BY <1>7 DEF Breed
  <2>. QED
    BY <2>1, MeetStands
<1>. QED
  BY <1>2, <1>3, <1>4, <1>5, <1>6, <1>7 DEF RankingNext

(* Who leads the judged ideas is not clustered away. *)
LEMMA LeaderKept ==
  ASSUME RecordInv, [RankingNext]_rankingVars, step = "open", step' = "plan",
         NEW i \in Active, idea[i].matches > 0,
         \A j \in Active : idea[j].matches > 0 => idea[j].elo <= idea[i].elo,
         \A j \in Active : (idea[j].matches > 0 /\ idea[j].elo = idea[i].elo) => i <= j
  PROVE  idea'[i].status = "active"
<1>1. Rated /\ Active \in SUBSET Ideas /\ i \in Ideas /\ idea[i].status = "active" /\ idea[i] \in IdeaRows
  BY DEF RecordInv, RankingTypeOK, Rated, Active, IdeaRows
<1>2. CASE ClusterFailed
  BY <1>1, <1>2 DEF ClusterFailed
<1>3. CASE Cluster
  <2>0. PICK known \in SUBSET Active : \E label \in [known -> Clusters] :
          idea' = [e \in Ideas |->
            IF e \notin known THEN idea[e]
            ELSE [idea[e] EXCEPT !.cluster = label[e],
                    !.status = IF e \in {Champion({j \in known : label[j] = label[k]}) : k \in known}
                               THEN @ ELSE "archived"]]
    BY <1>3, Zenon DEF Cluster
  <2>1. PICK label \in [known -> Clusters] :
          idea' = [e \in Ideas |->
            IF e \notin known THEN idea[e]
            ELSE [idea[e] EXCEPT !.cluster = label[e],
                    !.status = IF e \in {Champion({j \in known : label[j] = label[k]}) : k \in known}
                               THEN @ ELSE "archived"]]
    BY <2>0, Zenon
  <2>2. CASE i \notin known
    BY <1>1, <2>1, <2>2
  <2>3. CASE i \in known
    <3>. DEFINE group == {j \in known : label[j] = label[i]}
                champions == {Champion({j \in known : label[j] = label[k]}) : k \in known}
    <3>1. group \in SUBSET Ideas /\ group \subseteq Active /\ i \in group
      BY <1>1, <2>3
    <3>2. Champion(group) = i
      <4>. HIDE DEF group
      <4>. QED
        BY <1>1, <3>1, LeaderIsChampion
    <3>3. i \in champions
      BY <2>3, <3>2
    <3>4. idea'[i] = [idea[i] EXCEPT !.cluster = label[i], !.status = IF i \in champions THEN @ ELSE "archived"]
      BY <1>1, <2>1, <2>3
    <3>. HIDE DEF champions
    <3>. QED
      BY <1>1, <3>3, <3>4 DEF IdeaRows
  <2>. QED
    BY <2>2, <2>3
<1>4. ASSUME NEW n \in DOMAIN match, Settle(n) \/ Skip(n) PROVE FALSE
  BY <1>4 DEF Settle, Skip
<1>5. CASE Join \/ Plan \/ ExtendPlan \/ Judged \/ Breed \/ Resume \/ UNCHANGED rankingVars
  BY <1>5 DEF Join, Plan, ExtendPlan, Judged, Breed, Resume, rankingVars
<1>. QED
  BY <1>2, <1>3, <1>4, <1>5 DEF RankingNext

(* What a newcomer that sits out a plan may conclude from it. *)
LEMMA NewcomerKept ==
  ASSUME RecordInv, [RankingNext]_rankingVars, step = "plan", step' = "judge", Planned = {},
         NEW i \in Active, Newcomer(i), NEW j \in Active \ {i}, Legal(i, j),
         NEW added, added = Len(match) + 1 .. Len(match'), \A n \in added : i \notin Of(match'[n])
  PROVE  /\ Cardinality(added) = PerRound
         /\ \A n \in added : \E e \in Active :
              /\ e \in Of(match'[n]) /\ \A k \in added : k < n => e \notin Of(match'[k])
              /\ idea[e].matches <= idea[i].matches
<1>1. Plan
  <2>1. ASSUME NEW n \in DOMAIN match, Settle(n) \/ Skip(n) PROVE FALSE
    BY <2>1 DEF Settle, Skip
  <2>2. CASE Join \/ Cluster \/ ClusterFailed \/ ExtendPlan \/ Judged \/ Breed \/ Resume \/ UNCHANGED rankingVars
    BY <2>2 DEF Join, Cluster, ClusterFailed, ExtendPlan, Judged, Breed, Resume, rankingVars
  <2>. QED
    BY <2>1, <2>2 DEF RankingNext
<1>2. PICK pairs \in MakePairs(Active) : match' = match \o Entries(pairs)
  BY <1>1 DEF Plan
<1>3. Rated /\ Active \in SUBSET Ideas
  BY DEF RecordInv, RankingTypeOK, Rated, Active
<1>4. pairs \in Seq(Pairs(Active))
  BY <1>2, <1>3, PlansAre DEF Plans
<1>. DEFINE c == Len(match)
            p == Len(pairs)
<1>5. /\ p \in Nat /\ c \in Nat /\ Len(match') = c + p
      /\ \A n \in 1 .. p : Of(match'[c + n]) = {pairs[n][1], pairs[n][2]}
  <2>1. /\ Len(pairs) \in Nat /\ Len(match) \in Nat /\ DOMAIN match = 1 .. Len(match)
        /\ Len(match') = Len(match) + Len(pairs)
        /\ DOMAIN match' = 1 .. Len(match) + Len(pairs)
        /\ \A n \in 1 .. Len(match) : match'[n] = match[n]
        /\ \A n \in 1 .. Len(pairs) : /\ pairs[n] \in Pairs(Active)
                                      /\ match'[Len(match) + n].round = round
                                      /\ match'[Len(match) + n].status = "planned"
                                      /\ Of(match'[Len(match) + n]) = {pairs[n][1], pairs[n][2]}
    <3>. HIDE DEF c, p
    <3>. QED
      BY <1>2, <1>3, <1>4, EntriesAdd
  <2>. QED
    BY <2>1
<1>6. DOMAIN pairs = 1 .. p
  BY <1>4
<1>. HIDE DEF c, p
<1>7. added = c + 1 .. c + p
  BY <1>5 DEF c
<1>8. /\ \A n \in 1 .. p : c + n \in added
      /\ \A n \in added : n - c \in 1 .. p /\ n = c + (n - c)
  BY <1>5, <1>7
<1>9. ~Paired(i, ToSet(pairs))
  BY <1>5, <1>6, <1>8 DEF Paired, ToSet
<1>10. /\ p = PerRound
       /\ \A n \in 1 .. PerRound : \E e \in Active : FirstIn(pairs, e, n) /\ idea[e].matches <= idea[i].matches
  BY <1>2, <1>3, <1>9, NewcomersAreServed DEF p
<1>11. Cardinality(added) = PerRound
  <2>1. Cardinality(c + 1 .. c + p) = p
    <3>1. c + 1 \in Int /\ c + p \in Int /\ (c + 1 > c + p => p = 0) /\ (c + p) - (c + 1) + 1 = p
      BY <1>5
    <3>. QED
      BY <1>5, <3>1, FS_Interval
  <2>. QED
    BY <1>7, <1>10, <2>1
<1>12. ASSUME NEW n \in added
       PROVE  \E e \in Active : /\ e \in Of(match'[n]) /\ \A k \in added : k < n => e \notin Of(match'[k])
                                /\ idea[e].matches <= idea[i].matches
  <2>. DEFINE m == n - c
  <2>1. m \in 1 .. p /\ n = c + m
    BY <1>8
  <2>. HIDE DEF m
  <2>2. PICK e \in Active : FirstIn(pairs, e, m) /\ idea[e].matches <= idea[i].matches
    BY <1>10, <2>1
  <2>3. e \in Of(match'[n])
    BY <1>5, <2>1, <2>2 DEF FirstIn
  <2>4. ASSUME NEW k \in added, k < n PROVE e \notin Of(match'[k])
    <3>1. k - c \in 1 .. p /\ k = c + (k - c) /\ k - c \in 1 .. m - 1
      BY <1>5, <1>7, <2>1, <2>4
    <3>2. Of(match'[k]) = {pairs[k - c][1], pairs[k - c][2]}
      BY <1>5, <3>1
    <3>. QED
      BY <2>2, <3>1, <3>2 DEF FirstIn
  <2>. QED
    BY <2>2, <2>3, <2>4
<1>. QED
  BY <1>11, <1>12

(* The plans are fair, for any pool, plan size, rating table and number of  *)
(* resumes (core.make_pairs, presentation_swap and winner_side, the         *)
(* orchestrator's champions and parents): a newcomer with a legal opponent  *)
(* plays unless the slots went to newcomers that had played no more, nobody *)
(* meets the same idea twice in a round or from the same side twice         *)
(* running, the leader is not clustered away, and the parents are not all   *)
(* of one cluster.                                                          *)
THEOREM PlansAreFair ==
  ASSUME GainIsInt
  PROVE  RankingSpec => PlansHold
<1>1. RankingInit => RecordInv /\ MeetInv
  <2>1. RankingInit => MeetInv
    BY DEF RankingInit, MeetInv, RoundsInOrder, OncePerRound, ReadByMeetings
  <2>. QED
    BY <2>1, RecordInit
<1>2. RecordInv /\ MeetInv /\ [RankingNext]_rankingVars => (RecordInv /\ MeetInv)'
  <2>1. RecordInv /\ MeetInv /\ [RankingNext]_rankingVars => RecordInv'
    BY RecordStep
  <2>2. RecordInv /\ MeetInv /\ [RankingNext]_rankingVars => MeetInv'
    BY MeetStep
  <2>. QED
    BY <2>1, <2>2
<1>3. RecordInv /\ MeetInv => MeetingsAlternate /\ OncePerRound /\ ParentsSpread
  <2>1. RecordInv /\ MeetInv => MeetingsAlternate
    BY ReadInTurn
  <2>2. RecordInv => ParentsSpread
    <3>. SUFFICES ASSUME RecordInv, TopK >= 2, Cardinality({Group(i) : i \in Active}) >= 2
                  PROVE  LET parents == Parents(EvolutionRanked)
                         IN Cardinality({Group(parents[n]) : n \in DOMAIN parents}) >= 2
      BY DEF ParentsSpread
    <3>1. Rated
      BY DEF RecordInv, RankingTypeOK, Rated
    <3>. QED
      BY <3>1, ParentsAreSpread
  <2>. QED
    BY <2>1, <2>2 DEF MeetInv
<1>4. RecordInv /\ [RankingNext]_rankingVars =>
        [(step = "plan" /\ step' = "judge" /\ Planned = {}) =>
           LET added     == Len(match) + 1 .. Len(match')
               First(j, n) == j \in Of(match'[n]) /\ \A k \in added : k < n => j \notin Of(match'[k])
           IN \A i \in Active :
                (/\ Newcomer(i) /\ \E j \in Active \ {i} : Legal(i, j)
                 /\ \A n \in added : i \notin Of(match'[n]))
                => /\ Cardinality(added) = PerRound
                   /\ \A n \in added : \E j \in Active : First(j, n) /\ idea[j].matches <= idea[i].matches]_rankingVars
  <2>. SUFFICES ASSUME RecordInv, [RankingNext]_rankingVars, step = "plan", step' = "judge", Planned = {},
                       NEW i \in Active, Newcomer(i), NEW j \in Active \ {i}, Legal(i, j),
                       \A n \in Len(match) + 1 .. Len(match') : i \notin Of(match'[n])
                PROVE  /\ Cardinality(Len(match) + 1 .. Len(match')) = PerRound
                       /\ \A n \in Len(match) + 1 .. Len(match') : \E e \in Active :
                            /\ e \in Of(match'[n])
                            /\ \A k \in Len(match) + 1 .. Len(match') : k < n => e \notin Of(match'[k])
                            /\ idea[e].matches <= idea[i].matches
    BY Zenon
  <2>. QED
    BY NewcomerKept
<1>5. RecordInv /\ [RankingNext]_rankingVars =>
        [(step = "open" /\ step' = "plan") =>
           \A i \in Active :
             (/\ idea[i].matches > 0
              /\ \A j \in Active : idea[j].matches > 0 => idea[j].elo <= idea[i].elo
              /\ \A j \in Active : (idea[j].matches > 0 /\ idea[j].elo = idea[i].elo) => i <= j)
             => idea'[i].status = "active"]_rankingVars
  BY LeaderKept
<1>. QED
  BY <1>1, <1>2, <1>3, <1>4, <1>5, PTL DEF RankingSpec, PlansHold, NewcomerServed, LeaderStands

-----------------------------------------------------------------------------
(* What a run is billed for.                                                *)

\* The steps of a round in their order, and the one in which a role is asked.
Place(s) ==
  CASE s = "open" -> 0
    [] s \in {"make", "framed"} -> 1
    [] s = "review" -> 2
    [] s \in {"cluster", "verify"} -> 3
    [] s \in {"rank", "integrate"} -> 4
    [] s \in {"evolve", "challenge"} -> 5
    [] OTHER -> 6

Turn(role) ==
  CASE role = "framing" -> 0
    [] role = "generation" -> 1
    [] role = "reflection" -> 2
    [] role \in {"proximity", "verification"} -> 3
    [] role \in {"ranking", "synthesis"} -> 4
    [] role \in {"evolution", "challenge"} -> 5
    [] OTHER -> 6

Final == {"report", "over"}

\* The rounds whose t-th step has been taken; at the end, all there may be.
RoundsPast(t) ==
  IF stage.step \in Final THEN shape.rounds
  ELSE IF Place(stage.step) > t THEN stage.round ELSE stage.round - 1

\* The most calls of a role in one round, where they do not depend on the ideas.
Each(c, role) ==
  CASE role = "generation" -> Shards(c)
    [] role = "ranking" -> c.matches
    [] role = "verification" -> Larger(3, Smaller(c.matches, 6))
    [] OTHER -> 1

Only(workflow) == IF workflow = "tournament" THEN {"proximity", "ranking", "meta_review", "overview"}
                  ELSE {"framing", "verification", "synthesis", "challenge"}
Regular(workflow) == IF workflow = "tournament" THEN {"generation", "proximity", "ranking", "evolution", "meta_review"}
                     ELSE {"framing", "verification", "synthesis", "challenge"}
Other(workflow) == IF workflow = "tournament" THEN "adaptive" ELSE "tournament"

\* The most a round of research makes and reviews, in calls.
Search(c) == 4 + Larger(4, c.batch)
Breeding(c) == 1 + Larger(1, c.evolved)
Pool(c) == Larger(Search(c), Breeding(c))

Prior(n) == IF n = 0 THEN 0 ELSE n - 1

WorkflowKept ==
  /\ \A role \in Only(Other(shape.workflow)) : spentOn[role] = 0
  /\ shape.workflow = "tournament" => stage.step \notin {"framed", "verify", "integrate", "challenge"}
  /\ shape.workflow = "adaptive" => stage.step \notin {"make", "cluster", "rank", "evolve", "meta"}

RoundsKept == stage.step \notin Final \cup {"open"} => stage.round <= shape.rounds

RolesBilled ==
  \A role \in Regular(shape.workflow) :
    (stage.step = "over" /\ role \in {"synthesis", "challenge"})
    \/ spentOn[role] <= RoundsPast(Turn(role)) * Each(shape, role)

ReviewsBilled ==
  shape.workflow = "tournament" =>
    /\ spentOn["reflection"] + fresh <= RoundsPast(1) * shape.batch + RoundsPast(5) * shape.evolved
    /\ spentOn["reflection"] <= RoundsPast(2) * shape.batch + Prior(RoundsPast(2)) * shape.evolved

PoolBilled ==
  shape.workflow = "adaptive" =>
    spentOn["generation"] + spentOn["evolution"] + spentOn["reflection"] + fresh <= RoundsPast(1) * Pool(shape)

EndBilled ==
  /\ shape.workflow = "tournament" =>
       IF stage.step = "over" THEN spentOn["overview"] = 1 /\ asked.reserve = 0 ELSE spentOn["overview"] = 0
  /\ (shape.workflow = "adaptive" /\ stage.step = "over") =>
       spentOn["synthesis"] + spentOn["challenge"] + asked.reserve <= 2 * shape.rounds + 2

BillInv ==
  EstimatesTypeOK /\ WorkflowKept /\ RoundsKept /\ RolesBilled /\ ReviewsBilled /\ PoolBilled /\ EndBilled

LEMMA Times ==
  ASSUME NEW p \in Nat, NEW a \in Nat, NEW b \in Nat
  PROVE  a * p \in Nat /\ (a + 1) * p = a * p + p /\ 0 * p = 0 /\ (a <= b => a * p <= b * p)
<1>1. a * p \in Nat /\ (a + 1) * p = a * p + p /\ 0 * p = 0
  OBVIOUS
<1>2. ASSUME a <= b PROVE a * p <= b * p
  <2>. DEFINE d == b - a
  <2>1. d \in Nat /\ b = a + d
    BY <1>2
  <2>. HIDE DEF d
  <2>2. b * p = a * p + d * p
    BY <2>1
  <2>3. d * p \in Nat
    BY <2>1
  <2>. QED
    BY <1>1, <2>2, <2>3
<1>. QED
  BY <1>1, <1>2

LEMMA ShapeIs ==
  ASSUME shape \in RunShapes
  PROVE  /\ shape.workflow \in {"tournament", "adaptive"}
         /\ shape.rounds \in Nat /\ shape.batch \in Nat /\ shape.matches \in Nat /\ shape.evolved \in Nat
         /\ Shards(shape) \in Nat
         /\ \A role : Each(shape, role) \in Nat
         /\ Search(shape) \in Nat /\ Breeding(shape) \in Nat /\ Pool(shape) \in Nat
         /\ Search(shape) <= Pool(shape) /\ Breeding(shape) <= Pool(shape)
<1>1. /\ shape.workflow \in {"tournament", "adaptive"}
      /\ shape.rounds \in Nat /\ shape.batch \in Nat /\ shape.matches \in Nat /\ shape.evolved \in Nat
  BY EstimatesAssumption
<1>2. Shards(shape) \in Nat
  BY <1>1 DEF Shards, ShardSize
<1>3. \A role : Each(shape, role) \in Nat
  BY <1>1, <1>2 DEF Each, Larger, Smaller
<1>4. Search(shape) \in Nat /\ Breeding(shape) \in Nat
  BY <1>1 DEF Search, Breeding, Larger
<1>5. Pool(shape) \in Nat /\ Search(shape) <= Pool(shape) /\ Breeding(shape) <= Pool(shape)
  BY <1>4 DEF Pool, Larger
<1>. QED
  BY <1>1, <1>2, <1>3, <1>4, <1>5

Steps == {"open", "framed", "make", "review", "cluster", "rank", "evolve", "meta",
          "verify", "integrate", "challenge", "report", "over"}

LEMMA StageIs ==
  ASSUME BillInv
  PROVE  /\ shape \in RunShapes /\ shape.rounds \in Nat
         /\ stage \in [round : 1 .. shape.rounds + 1, answered : BOOLEAN, step : Steps]
         /\ stage.round \in 1 .. shape.rounds + 1 /\ stage.step \in Steps
         /\ (stage.step \notin Final \cup {"open"} => stage.round <= shape.rounds)
         /\ spentOn \in [AllRoles -> Nat] /\ ideas \in Nat /\ fresh \in Nat /\ fresh <= ideas
         /\ asked \in [calls : Nat, reserve : {0, 2}]
<1>1. shape \in RunShapes
  BY DEF BillInv, EstimatesTypeOK
<1>2. shape.rounds \in Nat
  BY <1>1, ShapeIs
<1>3. /\ stage \in [round : 1 .. shape.rounds + 1, answered : BOOLEAN, step : Steps]
      /\ spentOn \in [AllRoles -> Nat] /\ ideas \in Nat /\ fresh \in 0 .. ideas
      /\ asked \in [calls : Nat, reserve : {0, 2}]
  BY DEF BillInv, EstimatesTypeOK, Steps, OverviewReserve
<1>4. stage.step \notin Final \cup {"open"} => stage.round <= shape.rounds
  BY DEF BillInv, RoundsKept
<1>. QED
  BY <1>1, <1>2, <1>3, <1>4

LEMMA PlaceIs == \A s : Place(s) \in 0 .. 6
BY DEF Place

LEMMA PastIs ==
  ASSUME BillInv
  PROVE  \A t \in 0 .. 6 : RoundsPast(t) \in Nat /\ RoundsPast(t) <= shape.rounds
<1>. SUFFICES ASSUME NEW t \in 0 .. 6 PROVE RoundsPast(t) \in Nat /\ RoundsPast(t) <= shape.rounds
  OBVIOUS
<1>1. stage.step = "open" => Place(stage.step) = 0
  BY DEF Place
<1>2. CASE stage.step \in Final
  BY <1>2, StageIs DEF RoundsPast
<1>3. CASE stage.step = "open"
  <2>1. RoundsPast(t) \in {stage.round - 1, IF 0 > t THEN stage.round ELSE stage.round - 1}
    BY <1>1, <1>3 DEF RoundsPast, Final
  <2>. QED
    BY <2>1, StageIs
<1>4. CASE stage.step \notin Final \cup {"open"}
  <2>1. RoundsPast(t) \in {stage.round, stage.round - 1}
    BY <1>4 DEF RoundsPast
  <2>. QED
    BY <1>4, <2>1, StageIs
<1>. QED
  BY <1>2, <1>3, <1>4

\* What every step does to the rounds past.
Onward == \A t \in 0 .. 6 : RoundsPast(t)' \in Nat /\ RoundsPast(t) <= RoundsPast(t)'

LEMMA Forward ==
  ASSUME BillInv, shape' = shape, NEW s, NEW u, stage.step = s, stage'.step = u,
         stage'.round = stage.round, s \notin Final, u \notin Final, Place(u) = Place(s) + 1
  PROVE  /\ Onward /\ RoundsPast(Place(s))' = RoundsPast(Place(s)) + 1
         /\ \A t \in 0 .. 6 : t # Place(s) => RoundsPast(t)' = RoundsPast(t)
<1>. DEFINE r == stage.round
            p == Place(s)
<1>1. r \in Nat \ {0} /\ p \in 0 .. 6
  BY StageIs, PlaceIs
<1>2. \A t \in 0 .. 6 : /\ RoundsPast(t) = IF p > t THEN r ELSE r - 1
                        /\ RoundsPast(t)' = IF p + 1 > t THEN r ELSE r - 1
  BY DEF RoundsPast
<1>3. RoundsPast(p)' = RoundsPast(p) + 1
  BY <1>1, <1>2
<1>4. \A t \in 0 .. 6 : t # p => RoundsPast(t)' = RoundsPast(t)
  BY <1>1, <1>2
<1>5. Onward
  BY <1>1, <1>2 DEF Onward
<1>. QED
  BY <1>3, <1>4, <1>5

LEMMA Around ==
  ASSUME BillInv, shape' = shape, NEW s, stage.step = s, stage'.step = "open",
         stage'.round = stage.round + 1, s \notin Final
  PROVE  /\ Onward
         /\ \A t \in 0 .. 6 : RoundsPast(t)' = IF t >= Place(s) THEN RoundsPast(t) + 1 ELSE RoundsPast(t)
<1>. DEFINE r == stage.round
            p == Place(s)
<1>1. r \in Nat \ {0} /\ p \in 0 .. 6
  BY StageIs, PlaceIs
<1>2. Place("open") = 0 /\ "open" \notin Final
  BY DEF Place, Final
<1>3. \A t \in 0 .. 6 : RoundsPast(t) = (IF p > t THEN r ELSE r - 1) /\ RoundsPast(t)' = r
  <2>1. \A t \in 0 .. 6 : RoundsPast(t) = IF p > t THEN r ELSE r - 1
    BY DEF RoundsPast
  <2>2. \A t \in 0 .. 6 : ~(0 > t)
    OBVIOUS
  <2>3. \A t \in 0 .. 6 : RoundsPast(t)' = stage'.round - 1
    BY <1>2, <2>2 DEF RoundsPast
  <2>. QED
    BY <1>1, <2>1, <2>3
<1>4. Onward
  BY <1>1, <1>3 DEF Onward
<1>5. \A t \in 0 .. 6 : RoundsPast(t)' = IF t >= p THEN RoundsPast(t) + 1 ELSE RoundsPast(t)
  BY <1>1, <1>3
<1>. QED
  BY <1>4, <1>5

LEMMA AtLast ==
  ASSUME BillInv, shape' = shape, stage'.step \in Final
  PROVE  Onward /\ \A t \in 0 .. 6 : RoundsPast(t)' = shape.rounds
<1>1. \A t \in 0 .. 6 : RoundsPast(t)' = shape.rounds
  BY DEF RoundsPast
<1>2. \A t \in 0 .. 6 : RoundsPast(t) \in Nat /\ RoundsPast(t) <= shape.rounds
  BY PastIs
<1>. QED
  BY <1>1, <1>2, StageIs DEF Onward

\* One role is asked: its bill, and that of the regular ones.
Billing(role, k) ==
  /\ role \in AllRoles /\ k \in Nat
  /\ \A x \in AllRoles : spentOn'[x] = IF x = role THEN spentOn[x] + k ELSE spentOn[x]

LEMMA AskIs ==
  ASSUME BillInv, NEW role \in AllRoles, NEW k \in Nat, NEW reserve \in {0, 2}, Ask(role, k, reserve)
  PROVE  /\ Billing(role, k) /\ spentOn' \in [AllRoles -> Nat]
         /\ asked' \in [calls : Nat, reserve : {0, 2}] /\ asked'.reserve = reserve
<1>1. spentOn \in [AllRoles -> Nat]
  BY StageIs
<1>2. spentOn' = [spentOn EXCEPT ![role] = @ + k] /\ asked' = [calls |-> k, reserve |-> reserve]
  BY DEF Ask
<1>. QED
  BY <1>1, <1>2 DEF Billing

LEMMA RolesAreBilled ==
  ASSUME BillInv, shape' = shape, Onward, stage.step # "over", stage'.step # "over",
         NEW role, NEW k, Billing(role, k),
         role \in Regular(shape.workflow) =>
           k = 0 \/ (k <= Each(shape, role) /\ RoundsPast(Turn(role))' = RoundsPast(Turn(role)) + 1)
  PROVE  RolesBilled'
<1>. SUFFICES ASSUME NEW x \in Regular(shape.workflow)
              PROVE  spentOn'[x] <= RoundsPast(Turn(x))' * Each(shape, x)
  BY DEF RolesBilled
<1>. DEFINE e == Each(shape, x)
            a == RoundsPast(Turn(x))
            b == RoundsPast(Turn(x))'
<1>1. Turn(x) \in 0 .. 6
  BY DEF Turn
<1>2. e \in Nat
  BY StageIs, ShapeIs
<1>3. a \in Nat /\ b \in Nat /\ a <= b
  BY <1>1, PastIs DEF Onward
<1>4. spentOn[x] <= a * e
  BY DEF BillInv, RolesBilled
<1>5. x \in AllRoles
  BY DEF Regular, AllRoles, TournamentRoles, AdaptiveRoles
<1>6. spentOn[x] \in Nat
  BY <1>5, StageIs
<1>7. spentOn'[x] = IF x = role THEN spentOn[x] + k ELSE spentOn[x]
  BY <1>5 DEF Billing
<1>8. k \in Nat /\ (x = role => k = 0 \/ (k <= e /\ b = a + 1))
  BY DEF Billing
<1>. HIDE DEF a, b, e
<1>9. a * e \in Nat /\ (a + 1) * e = a * e + e /\ a * e <= b * e /\ b * e \in Nat
  BY <1>2, <1>3, Times
<1>. DEFINE n == spentOn[x]
            m == spentOn'[x]
<1>10. n \in Nat /\ n <= a * e /\ (m = n \/ (m = n + k /\ k <= e /\ b = a + 1))
  <2>1. CASE x = role
    BY <1>4, <1>6, <1>7, <1>8, <2>1
  <2>2. CASE x # role
    BY <1>4, <1>6, <1>7, <2>2
  <2>. QED
    BY <2>1, <2>2
<1>. HIDE DEF n, m
<1>. DEFINE q == a * e
            z == b * e
<1>11. /\ q \in Nat /\ z \in Nat /\ q <= z /\ n \in Nat /\ n <= q
       /\ m = n \/ (m = n + k /\ k <= e /\ z = q + e)
  <2>1. b = a + 1 => z = q + e
    BY <1>9
  <2>. HIDE DEF q, z
  <2>2. q \in Nat /\ z \in Nat /\ q <= z /\ n <= q
    BY <1>9, <1>10 DEF q, z
  <2>. QED
    BY <1>10, <2>1, <2>2
<1>12. m <= z
  <2>. HIDE DEF q, z
  <2>1. CASE m = n
    BY <1>11, <2>1
  <2>2. CASE m = n + k /\ k <= e /\ z = q + e
    BY <1>2, <1>8, <1>11, <2>2
  <2>. QED
    BY <1>11, <2>1, <2>2
<1>. QED
  BY <1>12 DEF m, z, b, e

LEMMA CountIs ==
  ASSUME BillInv, NEW role \in {"generation", "evolution", "reflection", "synthesis", "challenge", "overview"}
  PROVE  spentOn[role] \in Nat
<1>1. role \in AllRoles
  BY DEF AllRoles, TournamentRoles, AdaptiveRoles
<1>. QED
  BY <1>1, StageIs

\* New ideas wait for a review, and nobody is reviewed.
LEMMA ReviewsKept ==
  ASSUME BillInv, shape' = shape, Onward, spentOn'["reflection"] = spentOn["reflection"],
         NEW x \in Nat, fresh' \in Nat, fresh' <= fresh + x,
         shape.workflow = "tournament" =>
           \/ x = 0
           \/ x <= shape.batch /\ RoundsPast(1)' = RoundsPast(1) + 1
           \/ x <= shape.evolved /\ RoundsPast(5)' = RoundsPast(5) + 1
  PROVE  ReviewsBilled'
<1>. SUFFICES ASSUME shape.workflow = "tournament"
              PROVE  /\ spentOn'["reflection"] + fresh' <= RoundsPast(1)' * shape.batch + RoundsPast(5)' * shape.evolved
                     /\ spentOn'["reflection"] <= RoundsPast(2)' * shape.batch + Prior(RoundsPast(2)') * shape.evolved
  BY DEF ReviewsBilled
<1>. DEFINE B == shape.batch
            E == shape.evolved
            f == spentOn["reflection"]
            a == RoundsPast(1)
            b == RoundsPast(5)
            c == RoundsPast(2)
            a1 == RoundsPast(1)'
            b1 == RoundsPast(5)'
            c1 == RoundsPast(2)'
            h == fresh
            h1 == fresh'
<1>1. B \in Nat /\ E \in Nat /\ f \in Nat /\ h \in Nat /\ h1 \in Nat /\ h1 <= h + x
  BY StageIs, ShapeIs, CountIs
<1>2. a \in Nat /\ b \in Nat /\ c \in Nat /\ a1 \in Nat /\ b1 \in Nat /\ c1 \in Nat /\ a <= a1 /\ b <= b1 /\ c <= c1
  BY PastIs DEF Onward
<1>3. f + h <= a * B + b * E /\ f <= c * B + Prior(c) * E
  BY DEF BillInv, ReviewsBilled
<1>4. x = 0 \/ (x <= B /\ a1 = a + 1) \/ (x <= E /\ b1 = b + 1)
  OBVIOUS
<1>. HIDE DEF B, E, f, a, b, c, a1, b1, c1, h, h1
<1>5. Prior(c) \in Nat /\ Prior(c1) \in Nat /\ Prior(c) <= Prior(c1)
  BY <1>2 DEF Prior
<1>. DEFINE aB == a * B
            bE == b * E
            aB1 == a1 * B
            bE1 == b1 * E
            cB == c * B
            cE == Prior(c) * E
            cB1 == c1 * B
            cE1 == Prior(c1) * E
<1>6. /\ aB \in Nat /\ aB1 \in Nat /\ aB <= aB1 /\ (a1 = a + 1 => aB1 = aB + B)
      /\ cB \in Nat /\ cB1 \in Nat /\ cB <= cB1
  BY <1>1, <1>2, Times
<1>7. bE \in Nat /\ bE1 \in Nat /\ bE <= bE1 /\ (b1 = b + 1 => bE1 = bE + E)
  BY <1>1, <1>2, Times
<1>8. cE \in Nat /\ cE1 \in Nat /\ cE <= cE1
  BY <1>1, <1>5, Times
<1>9. f + h <= aB + bE /\ f <= cB + cE
  BY <1>3
<1>. HIDE DEF aB, bE, aB1, bE1, cB, cE, cB1, cE1
<1>10. f <= cB1 + cE1
  BY <1>1, <1>6, <1>8, <1>9
<1>11. f + h1 <= aB1 + bE1
  <2>1. CASE x = 0
    BY <1>1, <1>6, <1>7, <1>9, <2>1
  <2>2. CASE x <= B /\ a1 = a + 1
    BY <1>1, <1>6, <1>7, <1>9, <2>2
  <2>3. CASE x <= E /\ b1 = b + 1
    BY <1>1, <1>6, <1>7, <1>9, <2>3
  <2>. QED
    BY <1>4, <2>1, <2>2, <2>3
<1>. QED
  BY <1>10, <1>11 DEF B, E, f, a1, b1, c1, h1, aB1, bE1, cB1, cE1

LEMMA PoolKept ==
  ASSUME BillInv, shape' = shape, Onward, NEW x \in Nat, NEW n \in Nat,
         n = spentOn'["generation"] + spentOn'["evolution"] + spentOn'["reflection"] + fresh',
         n <= spentOn["generation"] + spentOn["evolution"] + spentOn["reflection"] + fresh + x,
         shape.workflow = "adaptive" => x = 0 \/ (x <= Pool(shape) /\ RoundsPast(1)' = RoundsPast(1) + 1)
  PROVE  PoolBilled'
<1>. SUFFICES ASSUME shape.workflow = "adaptive" PROVE n <= RoundsPast(1)' * Pool(shape)
  BY DEF PoolBilled
<1>. DEFINE P == Pool(shape)
            m == spentOn["generation"] + spentOn["evolution"] + spentOn["reflection"] + fresh
            a == RoundsPast(1)
            b == RoundsPast(1)'
<1>1. P \in Nat
  BY StageIs, ShapeIs
<1>2. a \in Nat /\ b \in Nat /\ a <= b
  BY PastIs DEF Onward
<1>3. m \in Nat /\ m <= a * P
  <2>1. m \in Nat
    BY StageIs, CountIs
  <2>2. m <= a * P
    BY DEF BillInv, PoolBilled
  <2>. QED
    BY <2>1, <2>2
<1>4. n <= m + x /\ (x = 0 \/ (x <= P /\ b = a + 1))
  OBVIOUS
<1>. HIDE DEF P, m, a, b
<1>. DEFINE aP == a * P
            bP == b * P
<1>5. aP \in Nat /\ bP \in Nat /\ aP <= bP /\ (b = a + 1 => bP = aP + P)
  BY <1>1, <1>2, Times
<1>6. m <= aP
  BY <1>3
<1>. HIDE DEF aP, bP
<1>7. n <= bP
  <2>1. CASE x = 0
    BY <1>3, <1>4, <1>5, <1>6, <2>1
  <2>2. CASE x <= P /\ b = a + 1
    BY <1>1, <1>3, <1>4, <1>5, <1>6, <2>2
  <2>. QED
    BY <1>4, <2>1, <2>2
<1>. QED
  BY <1>7 DEF bP, b, P

----------------------------------------------------------------------------
(* The steps *)

\* A step of a round is taken, and the round goes on or is over.
Goes(u) ==
  \/ /\ stage' = [stage EXCEPT !.step = u] \/ stage' = [stage EXCEPT !.step = u, !.answered = TRUE]
     /\ u \in Steps \ Final /\ Place(u) = Place(stage.step) + 1
  \/ stage' = [stage EXCEPT !.round = @ + 1, !.step = "open"]

Advanced(s, u) == /\ stage.step = s /\ stage'.step = u /\ stage'.round = stage.round
                  /\ u \in Steps \ Final /\ Place(u) = Place(s) + 1
WentAround == stage'.step = "open" /\ stage'.round = stage.round + 1

LEMMA GoesIs ==
  ASSUME BillInv, stage.round <= shape.rounds, NEW u, Goes(u)
  PROVE  /\ stage' \in [round : 1 .. shape.rounds + 1, answered : BOOLEAN, step : Steps]
         /\ Advanced(stage.step, u) \/ WentAround
<1>1. /\ stage \in [round : 1 .. shape.rounds + 1, answered : BOOLEAN, step : Steps]
      /\ stage.round \in 1 .. shape.rounds + 1 /\ shape.rounds \in Nat
  BY StageIs
<1>2. CASE /\ stage' = [stage EXCEPT !.step = u] \/ stage' = [stage EXCEPT !.step = u, !.answered = TRUE]
           /\ u \in Steps \ Final /\ Place(u) = Place(stage.step) + 1
  <2>1. stage' \in [round : 1 .. shape.rounds + 1, answered : BOOLEAN, step : Steps]
        /\ stage'.step = u /\ stage'.round = stage.round
    BY <1>1, <1>2
  <2>. QED
    BY <1>2, <2>1 DEF Advanced
<1>3. CASE stage' = [stage EXCEPT !.round = @ + 1, !.step = "open"]
  <2>1. "open" \in Steps
    BY DEF Steps
  <2>2. stage.round + 1 \in 1 .. shape.rounds + 1
    BY <1>1
  <2>. QED
    BY <1>1, <1>3, <2>1, <2>2 DEF WentAround
<1>. QED
  BY <1>2, <1>3 DEF Goes

LEMMA InARound ==
  ASSUME BillInv, shape' = shape, stage.step \notin Final, stage.round <= shape.rounds, NEW u, Goes(u), NEW s, stage.step = s
  PROVE  /\ stage' \in [round : 1 .. shape.rounds + 1, answered : BOOLEAN, step : Steps]
         /\ stage'.step \in {u, "open"} /\ stage'.step \notin Final
         /\ RoundsKept'
         /\ Onward /\ RoundsPast(Place(s))' = RoundsPast(Place(s)) + 1
<1>1. stage' \in [round : 1 .. shape.rounds + 1, answered : BOOLEAN, step : Steps]
  BY GoesIs
<1>2. Place(s) \in 0 .. 6 /\ "open" \notin Final
  BY PlaceIs DEF Final
<1>3. CASE Advanced(s, u)
  <2>1. stage'.step = u /\ u \notin Final /\ stage'.round = stage.round /\ Place(u) = Place(s) + 1
    BY <1>3 DEF Advanced
  <2>2. RoundsKept'
    BY <2>1 DEF RoundsKept
  <2>3. Onward /\ RoundsPast(Place(s))' = RoundsPast(Place(s)) + 1
    BY <2>1, Forward
  <2>. QED
    BY <1>1, <2>1, <2>2, <2>3
<1>4. CASE WentAround
  <2>1. stage'.step = "open" /\ stage'.round = stage.round + 1
    BY <1>4 DEF WentAround
  <2>2. RoundsKept'
    BY <2>1 DEF RoundsKept
  <2>3. Onward /\ \A t \in 0 .. 6 : RoundsPast(t)' = IF t >= Place(s) THEN RoundsPast(t) + 1 ELSE RoundsPast(t)
    BY <2>1, Around
  <2>4. RoundsPast(Place(s))' = RoundsPast(Place(s)) + 1
    BY <1>2, <2>3
  <2>. QED
    BY <1>1, <1>2, <2>1, <2>2, <2>3, <2>4
<1>. QED
  BY <1>3, <1>4, GoesIs

LEMMA EndKept ==
  ASSUME BillInv, shape' = shape, stage.step # "over", stage'.step # "over",
         NEW role, NEW k, Billing(role, k), role # "overview"
  PROVE  EndBilled'
<1>1. shape.workflow = "tournament" => spentOn["overview"] = 0
  BY DEF BillInv, EndBilled
<1>2. "overview" \in AllRoles
  BY DEF AllRoles, TournamentRoles
<1>3. spentOn'["overview"] = spentOn["overview"]
  BY <1>2 DEF Billing
<1>. QED
  BY <1>1, <1>3 DEF EndBilled

Strange(workflow) ==
  IF workflow = "tournament" THEN {"framed", "verify", "integrate", "challenge"}
  ELSE {"make", "cluster", "rank", "evolve", "meta"}

LEMMA OwnRoles ==
  ASSUME BillInv, shape' = shape, NEW role, NEW k, Billing(role, k),
         role \notin Only(Other(shape.workflow)), stage'.step \notin Strange(shape.workflow)
  PROVE  WorkflowKept'
<1>0. shape.workflow \in {"tournament", "adaptive"}
  BY StageIs, ShapeIs
<1>1. \A x \in Only(Other(shape.workflow)) : spentOn[x] = 0
  BY DEF BillInv, WorkflowKept
<1>2. \A x \in Only(Other(shape.workflow)) : x \in AllRoles
  BY DEF Only, AllRoles, TournamentRoles, AdaptiveRoles
<1>3. \A x \in Only(Other(shape.workflow)) : spentOn'[x] = 0
  BY <1>1, <1>2 DEF Billing
<1>4. /\ shape.workflow = "tournament" => stage'.step \notin {"framed", "verify", "integrate", "challenge"}
      /\ shape.workflow = "adaptive" => stage'.step \notin {"make", "cluster", "rank", "evolve", "meta"}
  BY DEF Strange
<1>. QED
  BY <1>3, <1>4 DEF WorkflowKept

\* The calls of a role that count for the pool.
InPool(role, k) == IF role \in {"generation", "evolution"} THEN k ELSE 0

\* All of a step that asks one role, reviews apart, and makes x ideas.
LEMMA AskedInTurn ==
  ASSUME BillInv, shape' = shape, stage.step \notin Final, stage.round <= shape.rounds, NEW u, Goes(u),
         NEW s, stage.step = s, {u, "open"} \cap Strange(shape.workflow) = {},
         NEW role, NEW k, Billing(role, k), role \notin {"overview", "reflection"},
         role \notin Only(Other(shape.workflow)),
         spentOn' \in [AllRoles -> Nat], asked' \in [calls : Nat, reserve : {0, 2}],
         NEW x \in Nat, fresh' = fresh + x, ideas' = ideas + x,
         role \in Regular(shape.workflow) => k = 0 \/ (k <= Each(shape, role) /\ Turn(role) = Place(s)),
         shape.workflow = "tournament" =>
           x = 0 \/ (x <= shape.batch /\ Place(s) = 1) \/ (x <= shape.evolved /\ Place(s) = 5),
         shape.workflow = "adaptive" =>
           InPool(role, k) + x = 0 \/ (InPool(role, k) + x <= Pool(shape) /\ Place(s) = 1)
  PROVE  BillInv'
<1>. DEFINE p == Place(s)
<1>1. /\ stage' \in [round : 1 .. shape.rounds + 1, answered : BOOLEAN, step : Steps]
      /\ stage'.step \in {u, "open"} /\ stage'.step \notin Final /\ RoundsKept'
      /\ Onward /\ RoundsPast(p)' = RoundsPast(p) + 1
  BY InARound
<1>2. stage.step # "over" /\ stage'.step # "over"
  BY <1>1 DEF Final
<1>3. k \in Nat /\ role \in AllRoles /\ fresh \in Nat /\ ideas \in Nat /\ fresh <= ideas /\ shape \in RunShapes
  BY StageIs DEF Billing
<1>4. EstimatesTypeOK'
  <2>1. fresh' \in 0 .. ideas' /\ ideas' \in Nat
    BY <1>3
  <2>. QED
    BY <1>1, <1>3, <2>1 DEF EstimatesTypeOK, Steps, OverviewReserve
<1>5. WorkflowKept'
  <2>1. stage'.step \notin Strange(shape.workflow)
    BY <1>1
  <2>. QED
    BY <2>1, OwnRoles
<1>6. RolesBilled'
  <2>1. role \in Regular(shape.workflow) =>
           k = 0 \/ (k <= Each(shape, role) /\ RoundsPast(Turn(role))' = RoundsPast(Turn(role)) + 1)
    <3>1. CASE role \in Regular(shape.workflow) /\ k # 0
      <4>1. k <= Each(shape, role) /\ Turn(role) = p
        BY <3>1
      <4>. QED
        BY <1>1, <4>1
    <3>. QED
      BY <3>1
  <2>. QED
    BY <1>1, <1>2, <2>1, RolesAreBilled
<1>7. ReviewsBilled'
  <2>1. spentOn'["reflection"] = spentOn["reflection"]
    BY DEF Billing, AllRoles, TournamentRoles
  <2>2. fresh' \in Nat /\ fresh' <= fresh + x
    BY <1>3
  <2>3. shape.workflow = "tournament" =>
           \/ x = 0
           \/ x <= shape.batch /\ RoundsPast(1)' = RoundsPast(1) + 1
           \/ x <= shape.evolved /\ RoundsPast(5)' = RoundsPast(5) + 1
    <3>1. CASE p = 1
      BY <1>1, <3>1
    <3>2. CASE p = 5
      BY <1>1, <3>2
    <3>. QED
      BY <3>1, <3>2
  <2>. QED
    BY <1>1, <2>1, <2>2, <2>3, ReviewsKept
<1>8. PoolBilled'
  <2>. DEFINE y == InPool(role, k) + x
              g == spentOn["generation"]
              e == spentOn["evolution"]
              r == spentOn["reflection"]
              g1 == spentOn'["generation"]
              e1 == spentOn'["evolution"]
              r1 == spentOn'["reflection"]
              n == g1 + e1 + r1 + fresh'
  <2>1. y \in Nat
    BY <1>3 DEF InPool
  <2>2. g \in Nat /\ e \in Nat /\ r \in Nat
    BY CountIs
  <2>3. /\ g1 = IF role = "generation" THEN g + k ELSE g
        /\ e1 = IF role = "evolution" THEN e + k ELSE e
        /\ r1 = r
    BY DEF Billing, AllRoles, TournamentRoles
  <2>4. n = g + e + r + fresh + y /\ n \in Nat
    <3>. HIDE DEF g, e, r, g1, e1, r1
    <3>1. CASE role = "generation"
      <4>1. y = k + x /\ g1 = g + k /\ e1 = e /\ r1 = r
        BY <2>3, <3>1 DEF InPool
      <4>. HIDE DEF y
      <4>. QED
        BY <1>3, <2>1, <2>2, <4>1
    <3>2. CASE role = "evolution"
      <4>1. y = k + x /\ g1 = g /\ e1 = e + k /\ r1 = r
        BY <2>3, <3>2 DEF InPool
      <4>. HIDE DEF y
      <4>. QED
        BY <1>3, <2>1, <2>2, <4>1
    <3>3. CASE role \notin {"generation", "evolution"}
      <4>1. y = x /\ g1 = g /\ e1 = e /\ r1 = r
        BY <2>3, <3>3 DEF InPool
      <4>. HIDE DEF y
      <4>. QED
        BY <1>3, <2>1, <2>2, <4>1
    <3>. QED
      BY <3>1, <3>2, <3>3
  <2>5. shape.workflow = "adaptive" => y = 0 \/ (y <= Pool(shape) /\ RoundsPast(1)' = RoundsPast(1) + 1)
    <3>1. CASE p = 1
      BY <1>1, <3>1
    <3>. QED
      BY <3>1
  <2>6. n <= g + e + r + fresh + y
    <3>. DEFINE m == g + e + r + fresh + y
    <3>1. n = m /\ n \in Nat
      BY <2>4
    <3>. HIDE DEF m, n
    <3>2. n <= m
      BY <3>1
    <3>. QED
      BY <3>2 DEF m
  <2>7. n = spentOn'["generation"] + spentOn'["evolution"] + spentOn'["reflection"] + fresh'
    OBVIOUS
  <2>8. n <= spentOn["generation"] + spentOn["evolution"] + spentOn["reflection"] + fresh + y
    BY <2>6
  <2>9. n \in Nat
    BY <2>4
  <2>. HIDE DEF y, n
  <2>. QED
    BY <1>1, <2>1, <2>5, <2>7, <2>8, <2>9, PoolKept
<1>9. EndBilled'
  BY <1>2, EndKept
<1>. QED
  BY <1>1, <1>4, <1>5, <1>6, <1>7, <1>8, <1>9 DEF BillInv

\* The step's workflow is the run's, and its round one of them.
LEMMA InTheRound ==
  ASSUME BillInv, NEW w, shape.workflow = w, NEW s, stage.step = s, s \notin Final,
         s # "open" \/ stage.round <= shape.rounds
  PROVE  stage.round <= shape.rounds /\ stage.step # "over" /\ shape \in RunShapes
BY StageIs DEF Final

LEMMA BillStarts ==
  ASSUME EstimatesInit
  PROVE  BillInv
<1>1. /\ shape \in RunShapes /\ shape.rounds \in Nat /\ shape.batch \in Nat /\ shape.evolved \in Nat /\ Pool(shape) \in Nat
      /\ shape.workflow \in {"tournament", "adaptive"} /\ \A role : Each(shape, role) \in Nat
  BY ShapeIs DEF EstimatesInit
<1>2. /\ \A role \in AllRoles : spentOn[role] = 0
      /\ fresh = 0 /\ ideas = 0 /\ asked = [calls |-> 0, reserve |-> 0]
      /\ stage = [round |-> 1, step |-> "open", answered |-> FALSE]
  BY DEF EstimatesInit
<1>3. stage.step = "open" /\ stage.round = 1 /\ "open" \notin Final
  BY <1>2 DEF Final
<1>4. \A t \in 0 .. 6 : RoundsPast(t) = 0
  <2>1. Place("open") = 0
    BY DEF Place
  <2>. QED
    BY <1>3, <2>1 DEF RoundsPast
<1>5. EstimatesTypeOK
  <2>1. stage \in [round : 1 .. shape.rounds + 1, answered : BOOLEAN, step : Steps]
    <3>1. 1 \in 1 .. shape.rounds + 1 /\ "open" \in Steps
      BY <1>1 DEF Steps
    <3>. QED
      BY <1>2, <3>1
  <2>2. spentOn \in [AllRoles -> Nat]
    BY DEF EstimatesInit
  <2>. QED
    BY <1>1, <1>2, <2>1, <2>2 DEF EstimatesTypeOK, Steps, OverviewReserve
<1>6. WorkflowKept
  <2>1. \A role \in Only(Other(shape.workflow)) : role \in AllRoles
    BY DEF Only, AllRoles, TournamentRoles, AdaptiveRoles
  <2>. QED
    BY <1>2, <1>3, <2>1 DEF WorkflowKept
<1>7. RoundsKept
  BY <1>3 DEF RoundsKept
<1>8. RolesBilled
  <2>. SUFFICES ASSUME NEW role \in Regular(shape.workflow)
                PROVE  spentOn[role] <= RoundsPast(Turn(role)) * Each(shape, role)
    BY DEF RolesBilled
  <2>1. role \in AllRoles /\ Turn(role) \in 0 .. 6
    BY DEF Regular, AllRoles, TournamentRoles, AdaptiveRoles, Turn
  <2>2. spentOn[role] = 0 /\ RoundsPast(Turn(role)) = 0
    BY <1>2, <1>4, <2>1
  <2>3. 0 * Each(shape, role) = 0
    BY <1>1
  <2>. QED
    BY <2>2, <2>3
<1>9. ReviewsBilled
  <2>1. spentOn["reflection"] = 0
    BY <1>2 DEF AllRoles, TournamentRoles
  <2>2. RoundsPast(1) = 0 /\ RoundsPast(2) = 0 /\ RoundsPast(5) = 0 /\ Prior(0) = 0
    BY <1>4 DEF Prior
  <2>3. 0 * shape.batch = 0 /\ 0 * shape.evolved = 0
    BY <1>1
  <2>. QED
    BY <1>2, <2>1, <2>2, <2>3 DEF ReviewsBilled
<1>10. PoolBilled
  <2>1. spentOn["generation"] = 0 /\ spentOn["evolution"] = 0 /\ spentOn["reflection"] = 0
    BY <1>2 DEF AllRoles, TournamentRoles
  <2>2. RoundsPast(1) = 0 /\ 0 * Pool(shape) = 0
    BY <1>1, <1>4
  <2>. QED
    BY <1>2, <2>1, <2>2 DEF PoolBilled
<1>11. EndBilled
  <2>1. spentOn["overview"] = 0
    BY <1>2 DEF AllRoles, TournamentRoles
  <2>. QED
    BY <1>3, <2>1 DEF EndBilled
<1>. QED
  BY <1>5, <1>6, <1>7, <1>8, <1>9, <1>10, <1>11 DEF BillInv

----------------------------------------------------------------------------
(* The tournament's rounds *)

NoBill == spentOn' = spentOn /\ asked' = asked

LEMMA NoBillIs ==
  ASSUME BillInv, NoBill
  PROVE  /\ Billing("generation", 0) /\ spentOn' \in [AllRoles -> Nat]
         /\ asked' \in [calls : Nat, reserve : {0, 2}]
<1>1. spentOn \in [AllRoles -> Nat] /\ asked \in [calls : Nat, reserve : {0, 2}]
  BY StageIs
<1>2. "generation" \in AllRoles
  BY DEF AllRoles, TournamentRoles
<1>3. \A x \in AllRoles : spentOn'[x] = IF x = "generation" THEN spentOn[x] + 0 ELSE spentOn[x]
  BY <1>1 DEF NoBill
<1>. QED
  BY <1>1, <1>2, <1>3 DEF NoBill, Billing

LEMMA MadeNoneIs ==
  ASSUME BillInv, MadeNone
  PROVE  fresh' = fresh + 0 /\ ideas' = ideas + 0
BY StageIs DEF MadeNone

LEMMA OpenKept ==
  ASSUME BillInv, OpenRound
  PROVE  BillInv'
<1>1. /\ stage.step = "open" /\ stage.round <= shape.rounds /\ shape.workflow = "tournament"
      /\ stage' = [stage EXCEPT !.step = "make"] /\ shape' = shape /\ NoBill /\ MadeNone
  BY DEF OpenRound, To, NoBill
<1>2. Goes("make") /\ "open" \notin Final /\ {"make", "open"} \cap Strange("tournament") = {}
  BY <1>1 DEF Goes, Steps, Final, Place, Strange
<1>3. "generation" \notin Only(Other("tournament"))
  BY DEF Only, Other
<1>. HIDE DEF Goes
<1>4. Billing("generation", 0) /\ spentOn' \in [AllRoles -> Nat] /\ asked' \in [calls : Nat, reserve : {0, 2}]
  BY <1>1, NoBillIs
<1>5. fresh' = fresh + 0 /\ ideas' = ideas + 0 /\ InPool("generation", 0) + 0 = 0
  BY <1>1, MadeNoneIs DEF InPool
<1>. QED
  BY <1>1, <1>2, <1>3, <1>4, <1>5, AskedInTurn

LEMMA GenerateKept ==
  ASSUME BillInv, GenerateRound
  PROVE  BillInv'
<1>1. /\ stage.step = "make" /\ shape.workflow = "tournament"
      /\ stage' = [stage EXCEPT !.step = "review"] /\ shape' = shape
      /\ Ask("generation", Shards(shape), OverviewReserve)
  BY DEF GenerateRound, Tournament, To
<1>2. PICK n \in 0 .. shape.batch : fresh' = fresh + n /\ ideas' = ideas + n
  BY DEF GenerateRound, Made
<1>3. Goes("review") /\ "make" \notin Final /\ {"review", "open"} \cap Strange("tournament") = {}
  BY <1>1 DEF Goes, Steps, Final, Place, Strange
<1>4. stage.round <= shape.rounds /\ shape \in RunShapes
  BY <1>1, <1>3, InTheRound
<1>5. shape.batch \in Nat /\ Shards(shape) \in Nat /\ n \in Nat /\ n <= shape.batch
  BY <1>4, <1>2, ShapeIs
<1>6. "generation" \in AllRoles /\ "generation" \notin Only(Other("tournament"))
  BY DEF Only, Other, AllRoles, TournamentRoles
<1>7. Billing("generation", Shards(shape)) /\ spentOn' \in [AllRoles -> Nat] /\ asked' \in [calls : Nat, reserve : {0, 2}]
  BY <1>1, <1>5, <1>6, AskIs DEF OverviewReserve
<1>8. Shards(shape) <= Each(shape, "generation") /\ Turn("generation") = Place("make") /\ Place("make") = 1
  BY <1>5 DEF Each, Turn, Place
<1>. QED
  BY <1>1, <1>2, <1>3, <1>4, <1>5, <1>6, <1>7, <1>8, AskedInTurn

LEMMA ClusterKept ==
  ASSUME BillInv, ClusterRound
  PROVE  BillInv'
<1>1. /\ stage.step = "cluster" /\ shape.workflow = "tournament"
      /\ stage' = [stage EXCEPT !.step = "rank"] /\ shape' = shape /\ MadeNone
  BY DEF ClusterRound, Tournament, To
<1>2. PICK k \in {0, 1} : Ask("proximity", k, OverviewReserve)
  BY DEF ClusterRound
<1>3. Goes("rank") /\ "cluster" \notin Final /\ {"rank", "open"} \cap Strange("tournament") = {}
  BY <1>1 DEF Goes, Steps, Final, Place, Strange
<1>4. stage.round <= shape.rounds /\ shape \in RunShapes
  BY <1>1, <1>3, InTheRound
<1>5. "proximity" \in AllRoles /\ "proximity" \notin Only(Other("tournament"))
  BY DEF Only, Other, AllRoles, TournamentRoles
<1>6. k \in Nat /\ k <= Each(shape, "proximity") /\ Turn("proximity") = Place("cluster")
  BY <1>2 DEF Each, Turn, Place
<1>7. Billing("proximity", k) /\ spentOn' \in [AllRoles -> Nat] /\ asked' \in [calls : Nat, reserve : {0, 2}]
  BY <1>2, <1>5, <1>6, AskIs DEF OverviewReserve
<1>8. fresh' = fresh + 0 /\ ideas' = ideas + 0
  BY <1>1, MadeNoneIs
<1>. QED
  BY <1>1, <1>3, <1>4, <1>5, <1>6, <1>7, <1>8, AskedInTurn

LEMMA RankKept ==
  ASSUME BillInv, RankRound
  PROVE  BillInv'
<1>1. /\ stage.step = "rank" /\ shape.workflow = "tournament"
      /\ stage' = [stage EXCEPT !.step = "evolve"] /\ shape' = shape /\ MadeNone
  BY DEF RankRound, Tournament, To
<1>2. PICK k \in 0 .. shape.matches : Ask("ranking", k, OverviewReserve)
  BY DEF RankRound
<1>3. Goes("evolve") /\ "rank" \notin Final /\ {"evolve", "open"} \cap Strange("tournament") = {}
  BY <1>1 DEF Goes, Steps, Final, Place, Strange
<1>4. stage.round <= shape.rounds /\ shape \in RunShapes
  BY <1>1, <1>3, InTheRound
<1>5. "ranking" \in AllRoles /\ "ranking" \notin Only(Other("tournament"))
  BY DEF Only, Other, AllRoles, TournamentRoles
<1>6. k \in Nat /\ k <= Each(shape, "ranking") /\ Turn("ranking") = Place("rank")
  <2>1. Each(shape, "ranking") = shape.matches /\ Turn("ranking") = 4 /\ Place("rank") = 4
    BY DEF Each, Turn, Place
  <2>. QED
    BY <1>2, <1>4, <2>1, ShapeIs
<1>7. Billing("ranking", k) /\ spentOn' \in [AllRoles -> Nat] /\ asked' \in [calls : Nat, reserve : {0, 2}]
  BY <1>2, <1>5, <1>6, AskIs DEF OverviewReserve
<1>8. fresh' = fresh + 0 /\ ideas' = ideas + 0
  BY <1>1, MadeNoneIs
<1>. QED
  BY <1>1, <1>3, <1>4, <1>5, <1>6, <1>7, <1>8, AskedInTurn

LEMMA EvolveKept ==
  ASSUME BillInv, EvolveRound
  PROVE  BillInv'
<1>1. /\ stage.step = "evolve" /\ shape.workflow = "tournament"
      /\ stage' = [stage EXCEPT !.step = "meta"] /\ shape' = shape
  BY DEF EvolveRound, Tournament, To
<1>2. Goes("meta") /\ "evolve" \notin Final /\ {"meta", "open"} \cap Strange("tournament") = {}
  BY <1>1 DEF Goes, Steps, Final, Place, Strange
<1>3. stage.round <= shape.rounds /\ shape \in RunShapes
  BY <1>1, <1>2, InTheRound
<1>4. PICK k \in {0, 1} : Ask("evolution", k, OverviewReserve)
  BY DEF EvolveRound
<1>5. PICK n \in 0 .. shape.evolved : fresh' = fresh + n /\ ideas' = ideas + n
  <2>1. shape.evolved \in Nat /\ fresh \in Nat /\ ideas \in Nat
    BY <1>3, ShapeIs, StageIs
  <2>2. CASE MadeNone
    <3>1. 0 \in 0 .. shape.evolved /\ fresh' = fresh + 0 /\ ideas' = ideas + 0
      BY <2>1, <2>2, MadeNoneIs
    <3>. QED
      BY <3>1
  <2>3. CASE \E n \in 0 .. shape.evolved : Made(n)
    BY <2>3 DEF Made
  <2>. QED
    BY <2>2, <2>3 DEF EvolveRound
<1>6. "evolution" \in AllRoles /\ "evolution" \notin Only(Other("tournament"))
  BY DEF Only, Other, AllRoles, TournamentRoles
<1>7. k \in Nat /\ k <= Each(shape, "evolution") /\ Turn("evolution") = Place("evolve") /\ Place("evolve") = 5
  BY <1>4 DEF Each, Turn, Place
<1>8. Billing("evolution", k) /\ spentOn' \in [AllRoles -> Nat] /\ asked' \in [calls : Nat, reserve : {0, 2}]
  BY <1>4, <1>6, <1>7, AskIs DEF OverviewReserve
<1>9. n \in Nat /\ n <= shape.evolved
  BY <1>3, <1>5, ShapeIs
<1>. QED
  BY <1>1, <1>2, <1>3, <1>5, <1>6, <1>7, <1>8, <1>9, AskedInTurn

LEMMA MetaKept ==
  ASSUME BillInv, MetaRound
  PROVE  BillInv'
<1>1. /\ stage.step = "meta" /\ shape.workflow = "tournament"
      /\ stage' = [stage EXCEPT !.round = @ + 1, !.step = "open"] /\ shape' = shape /\ MadeNone
      /\ Ask("meta_review", 1, OverviewReserve)
  BY DEF MetaRound, Tournament, NextCheckpoint
<1>2. Goes("open") /\ "meta" \notin Final /\ {"open", "open"} \cap Strange("tournament") = {}
  BY <1>1 DEF Goes, Final, Strange
<1>3. stage.round <= shape.rounds /\ shape \in RunShapes
  BY <1>1, <1>2, InTheRound
<1>4. "meta_review" \in AllRoles /\ "meta_review" \notin Only(Other("tournament"))
  BY DEF Only, Other, AllRoles, TournamentRoles
<1>5. 1 <= Each(shape, "meta_review") /\ Turn("meta_review") = Place("meta")
  BY DEF Each, Turn, Place
<1>6. Billing("meta_review", 1) /\ spentOn' \in [AllRoles -> Nat] /\ asked' \in [calls : Nat, reserve : {0, 2}]
  BY <1>1, <1>4, AskIs DEF OverviewReserve
<1>7. fresh' = fresh + 0 /\ ideas' = ideas + 0
  BY <1>1, MadeNoneIs
<1>. QED
  BY <1>1, <1>2, <1>3, <1>4, <1>5, <1>6, <1>7, AskedInTurn

----------------------------------------------------------------------------
(* The rounds of research *)

LEMMA FrameKept ==
  ASSUME BillInv, FrameRound
  PROVE  BillInv'
<1>1. /\ stage.step = "open" /\ stage.round <= shape.rounds /\ shape.workflow = "adaptive"
      /\ stage' = [stage EXCEPT !.step = "framed"] /\ shape' = shape /\ MadeNone
  BY DEF FrameRound, Adaptive, To
<1>2. PICK k \in {0, 1} : Ask("framing", k, OverviewReserve)
  BY DEF FrameRound
<1>3. Goes("framed") /\ "open" \notin Final /\ {"framed", "open"} \cap Strange("adaptive") = {}
  BY <1>1 DEF Goes, Steps, Final, Place, Strange
<1>4. "framing" \in AllRoles /\ "framing" \notin Only(Other("adaptive"))
  BY DEF Only, Other, AllRoles, AdaptiveRoles
<1>5. k \in Nat /\ k <= Each(shape, "framing") /\ Turn("framing") = Place("open") /\ InPool("framing", k) + 0 = 0
  BY <1>2 DEF Each, Turn, Place, InPool
<1>6. Billing("framing", k) /\ spentOn' \in [AllRoles -> Nat] /\ asked' \in [calls : Nat, reserve : {0, 2}]
  BY <1>2, <1>4, <1>5, AskIs DEF OverviewReserve
<1>7. fresh' = fresh + 0 /\ ideas' = ideas + 0
  BY <1>1, MadeNoneIs
<1>. QED
  BY <1>1, <1>3, <1>4, <1>5, <1>6, <1>7, AskedInTurn

LEMMA ExploreKept ==
  ASSUME BillInv, ExploreRound
  PROVE  BillInv'
<1>1. /\ stage.step = "framed" /\ shape.workflow = "adaptive"
      /\ stage' = [stage EXCEPT !.step = "review"] /\ shape' = shape
  BY DEF ExploreRound, Adaptive, To
<1>2. PICK k \in {3, 4} : Ask("generation", k, OverviewReserve) /\ Made(Larger(k, shape.batch))
  BY DEF ExploreRound
<1>3. Goes("review") /\ "framed" \notin Final /\ {"review", "open"} \cap Strange("adaptive") = {}
  BY <1>1 DEF Goes, Steps, Final, Place, Strange
<1>4. stage.round <= shape.rounds /\ shape \in RunShapes
  BY <1>1, <1>3, InTheRound
<1>5. "generation" \in AllRoles /\ "generation" \notin Only(Other("adaptive")) /\ "generation" \notin Regular("adaptive")
  BY DEF Only, Other, Regular, AllRoles, AdaptiveRoles
<1>. DEFINE n == Larger(k, shape.batch)
<1>6. n \in Nat /\ k \in Nat /\ InPool("generation", k) + n <= Pool(shape)
  <2>1. shape.batch \in Nat /\ Search(shape) \in Nat /\ Pool(shape) \in Nat /\ Search(shape) <= Pool(shape)
    BY <1>4, ShapeIs
  <2>2. k \in Nat /\ n \in Nat /\ k + n <= Search(shape)
    BY <1>2, <2>1 DEF Larger, Search
  <2>3. InPool("generation", k) = k
    BY DEF InPool
  <2>. HIDE DEF n
  <2>. QED
    BY <2>1, <2>2, <2>3
<1>7. Billing("generation", k) /\ spentOn' \in [AllRoles -> Nat] /\ asked' \in [calls : Nat, reserve : {0, 2}]
  BY <1>2, <1>5, <1>6, AskIs DEF OverviewReserve
<1>8. fresh' = fresh + n /\ ideas' = ideas + n /\ Place("framed") = 1
  BY <1>2 DEF Made, Place
<1>. HIDE DEF n
<1>. QED
  BY <1>1, <1>3, <1>4, <1>5, <1>6, <1>7, <1>8, AskedInTurn

LEMMA DevelopKept ==
  ASSUME BillInv, DevelopRound
  PROVE  BillInv'
<1>. DEFINE n == Larger(1, shape.evolved)
<1>1. /\ stage.step = "framed" /\ shape.workflow = "adaptive"
      /\ stage' = [stage EXCEPT !.step = "review"] /\ shape' = shape
      /\ Ask("evolution", 1, OverviewReserve) /\ fresh' = fresh + n /\ ideas' = ideas + n
  BY DEF DevelopRound, Adaptive, To, Made
<1>2. Goes("review") /\ "framed" \notin Final /\ {"review", "open"} \cap Strange("adaptive") = {}
  BY <1>1 DEF Goes, Steps, Final, Place, Strange
<1>3. stage.round <= shape.rounds /\ shape \in RunShapes
  BY <1>1, <1>2, InTheRound
<1>4. "evolution" \in AllRoles /\ "evolution" \notin Only(Other("adaptive")) /\ "evolution" \notin Regular("adaptive")
  BY DEF Only, Other, Regular, AllRoles, AdaptiveRoles
<1>5. n \in Nat /\ InPool("evolution", 1) + n <= Pool(shape) /\ Place("framed") = 1
  <2>1. shape.evolved \in Nat /\ Breeding(shape) \in Nat /\ Pool(shape) \in Nat /\ Breeding(shape) <= Pool(shape)
    BY <1>3, ShapeIs
  <2>2. n \in Nat /\ 1 + n = Breeding(shape)
    BY <2>1 DEF Larger, Breeding
  <2>3. InPool("evolution", 1) = 1 /\ Place("framed") = 1
    BY DEF InPool, Place
  <2>. HIDE DEF n
  <2>. QED
    BY <2>1, <2>2, <2>3
<1>6. Billing("evolution", 1) /\ spentOn' \in [AllRoles -> Nat] /\ asked' \in [calls : Nat, reserve : {0, 2}]
  BY <1>1, <1>4, AskIs DEF OverviewReserve
<1>. HIDE DEF n
<1>. QED
  BY <1>1, <1>2, <1>3, <1>4, <1>5, <1>6, AskedInTurn

LEMMA VerifyOnlyKept ==
  ASSUME BillInv, VerifyOnly
  PROVE  BillInv'
<1>1. /\ stage.step = "framed" /\ shape.workflow = "adaptive"
      /\ stage' = [stage EXCEPT !.step = "review"] /\ shape' = shape /\ NoBill /\ MadeNone
  BY DEF VerifyOnly, Adaptive, To, NoBill
<1>2. Goes("review") /\ "framed" \notin Final /\ {"review", "open"} \cap Strange("adaptive") = {}
  BY <1>1 DEF Goes, Steps, Final, Place, Strange
<1>3. stage.round <= shape.rounds
  BY <1>1, <1>2, InTheRound
<1>4. "generation" \notin Only(Other("adaptive")) /\ "generation" \notin Regular("adaptive")
      /\ InPool("generation", 0) + 0 = 0
  BY DEF Only, Other, Regular, InPool
<1>5. Billing("generation", 0) /\ spentOn' \in [AllRoles -> Nat] /\ asked' \in [calls : Nat, reserve : {0, 2}]
  BY <1>1, NoBillIs
<1>6. fresh' = fresh + 0 /\ ideas' = ideas + 0
  BY <1>1, MadeNoneIs
<1>. QED
  BY <1>1, <1>2, <1>3, <1>4, <1>5, <1>6, AskedInTurn

LEMMA VerifyKept ==
  ASSUME BillInv, VerifyRound
  PROVE  BillInv'
<1>1. /\ stage.step = "verify" /\ shape.workflow = "adaptive"
      /\ stage' = [stage EXCEPT !.step = "integrate"] /\ shape' = shape /\ MadeNone
  BY DEF VerifyRound, Adaptive, To
<1>2. PICK k \in 0 .. Smaller(ideas, VerifyLimit) : Ask("verification", k, OverviewReserve)
  BY DEF VerifyRound
<1>3. Goes("integrate") /\ "verify" \notin Final /\ {"integrate", "open"} \cap Strange("adaptive") = {}
  BY <1>1 DEF Goes, Steps, Final, Place, Strange
<1>4. stage.round <= shape.rounds /\ shape \in RunShapes
  BY <1>1, <1>3, InTheRound
<1>5. "verification" \in AllRoles /\ "verification" \notin Only(Other("adaptive"))
  BY DEF Only, Other, AllRoles, AdaptiveRoles
<1>6. k \in Nat /\ k <= Each(shape, "verification") /\ Turn("verification") = Place("verify")
  <2>1. Each(shape, "verification") = VerifyLimit
    BY DEF Each, VerifyLimit
  <2>2. Turn("verification") = 3 /\ Place("verify") = 3
    BY DEF Turn, Place
  <2>3. ideas \in Nat /\ shape.matches \in Nat
    BY <1>4, ShapeIs, StageIs
  <2>4. VerifyLimit \in Nat
    BY <2>3 DEF VerifyLimit, Larger, Smaller
  <2>5. k \in Nat /\ k <= VerifyLimit
    BY <1>2, <2>3, <2>4 DEF Smaller
  <2>. QED
    BY <2>1, <2>2, <2>5
<1>7. Billing("verification", k) /\ spentOn' \in [AllRoles -> Nat] /\ asked' \in [calls : Nat, reserve : {0, 2}]
  BY <1>2, <1>5, <1>6, AskIs DEF OverviewReserve
<1>8. fresh' = fresh + 0 /\ ideas' = ideas + 0 /\ InPool("verification", k) + 0 = 0
  BY <1>1, MadeNoneIs DEF InPool
<1>. QED
  BY <1>1, <1>3, <1>4, <1>5, <1>6, <1>7, <1>8, AskedInTurn

LEMMA ChallengeKept ==
  ASSUME BillInv, ChallengeRound
  PROVE  BillInv'
<1>1. /\ stage.step = "challenge" /\ shape.workflow = "adaptive"
      /\ stage' = [stage EXCEPT !.round = @ + 1, !.step = "open"] /\ shape' = shape /\ MadeNone
      /\ Ask("challenge", 1, OverviewReserve)
  BY DEF ChallengeRound, Adaptive, NextCheckpoint
<1>2. Goes("open") /\ "challenge" \notin Final /\ {"open", "open"} \cap Strange("adaptive") = {}
  BY <1>1 DEF Goes, Final, Strange
<1>3. stage.round <= shape.rounds /\ shape \in RunShapes
  BY <1>1, <1>2, InTheRound
<1>4. "challenge" \in AllRoles /\ "challenge" \notin Only(Other("adaptive"))
  BY DEF Only, Other, AllRoles, AdaptiveRoles
<1>5. 1 <= Each(shape, "challenge") /\ Turn("challenge") = Place("challenge") /\ InPool("challenge", 1) + 0 = 0
  BY DEF Each, Turn, Place, InPool
<1>6. Billing("challenge", 1) /\ spentOn' \in [AllRoles -> Nat] /\ asked' \in [calls : Nat, reserve : {0, 2}]
  BY <1>1, <1>4, AskIs DEF OverviewReserve
<1>7. fresh' = fresh + 0 /\ ideas' = ideas + 0
  BY <1>1, MadeNoneIs
<1>. QED
  BY <1>1, <1>2, <1>3, <1>4, <1>5, <1>6, <1>7, AskedInTurn

LEMMA IntegrateKept ==
  ASSUME BillInv, IntegrateRound
  PROVE  BillInv'
<1>1. /\ stage.step = "integrate" /\ shape.workflow = "adaptive" /\ shape' = shape /\ MadeNone
      /\ \/ Ask("synthesis", 0, OverviewReserve) /\ stage' = [stage EXCEPT !.round = @ + 1, !.step = "open"]
         \/ Ask("synthesis", 1, OverviewReserve) /\ stage' = [stage EXCEPT !.step = "challenge", !.answered = TRUE]
  BY DEF IntegrateRound, Adaptive, NextCheckpoint
<1>2. PICK k \in {0, 1} : Ask("synthesis", k, OverviewReserve)
  BY <1>1
<1>3. Goes("challenge") /\ "integrate" \notin Final /\ {"challenge", "open"} \cap Strange("adaptive") = {}
  BY <1>1 DEF Goes, Steps, Final, Place, Strange
<1>4. stage.round <= shape.rounds /\ shape \in RunShapes
  BY <1>1, <1>3, InTheRound
<1>5. "synthesis" \in AllRoles /\ "synthesis" \notin Only(Other("adaptive"))
  BY DEF Only, Other, AllRoles, AdaptiveRoles
<1>6. k \in Nat /\ k <= Each(shape, "synthesis") /\ Turn("synthesis") = Place("integrate") /\ InPool("synthesis", k) + 0 = 0
  BY <1>2 DEF Each, Turn, Place, InPool
<1>7. Billing("synthesis", k) /\ spentOn' \in [AllRoles -> Nat] /\ asked' \in [calls : Nat, reserve : {0, 2}]
  BY <1>2, <1>5, <1>6, AskIs DEF OverviewReserve
<1>8. fresh' = fresh + 0 /\ ideas' = ideas + 0
  BY <1>1, MadeNoneIs
<1>. QED
  BY <1>1, <1>3, <1>4, <1>5, <1>6, <1>7, <1>8, AskedInTurn

----------------------------------------------------------------------------
(* Reviews, and the end *)

LEMMA ReviewKept ==
  ASSUME BillInv, ReviewRound
  PROVE  BillInv'
<1>1. /\ stage.step = "review" /\ shape' = shape /\ fresh' = 0 /\ ideas' = ideas
      /\ stage' = [stage EXCEPT !.step = IF shape.workflow = "adaptive" THEN "verify" ELSE "cluster"]
      /\ Ask("reflection", fresh, OverviewReserve)
  BY DEF ReviewRound, To
<1>. DEFINE u == IF shape.workflow = "adaptive" THEN "verify" ELSE "cluster"
<1>2. "review" \notin Final /\ Goes(u)
  BY <1>1 DEF Goes, Steps, Final, Place
<1>3. u \notin Strange(shape.workflow) /\ "open" \notin Strange(shape.workflow)
  <2>1. shape.workflow \in {"tournament", "adaptive"}
    BY StageIs, ShapeIs
  <2>. QED
    BY <2>1 DEF Strange
<1>4. u \in {"verify", "cluster"}
  OBVIOUS
<1>. HIDE DEF u
<1>5. stage.round <= shape.rounds /\ shape \in RunShapes /\ ideas \in Nat /\ fresh \in Nat
      /\ stage.round \in Nat /\ stage.round >= 1
  BY <1>1, <1>2, InTheRound, StageIs
<1>6. Place("review") = 2
  BY DEF Place
<1>7. /\ stage' \in [round : 1 .. shape.rounds + 1, answered : BOOLEAN, step : Steps]
      /\ stage'.step \in {u, "open"} /\ stage'.step \notin Final /\ RoundsKept'
      /\ Onward /\ RoundsPast(2)' = RoundsPast(2) + 1
  BY <1>1, <1>2, <1>5, <1>6, InARound
<1>8. "reflection" \in AllRoles /\ "reflection" \notin Only(Other(shape.workflow)) /\ "reflection" \notin Regular(shape.workflow)
  BY DEF Only, Other, Regular, AllRoles, TournamentRoles
<1>9. Billing("reflection", fresh) /\ spentOn' \in [AllRoles -> Nat] /\ asked' \in [calls : Nat, reserve : {0, 2}]
  BY <1>1, <1>5, <1>8, AskIs DEF OverviewReserve
<1>10. stage.step # "over" /\ stage'.step # "over"
  BY <1>1, <1>7 DEF Final
<1>11. EstimatesTypeOK'
  BY <1>1, <1>5, <1>7, <1>9 DEF EstimatesTypeOK, Steps, OverviewReserve
<1>12. WorkflowKept'
  BY <1>1, <1>3, <1>7, <1>8, <1>9, OwnRoles
<1>13. RolesBilled'
  BY <1>1, <1>7, <1>8, <1>9, <1>10, RolesAreBilled
<1>14. EndBilled'
  BY <1>1, <1>9, <1>10, EndKept
<1>15. spentOn'["reflection"] = spentOn["reflection"] + fresh /\ spentOn'["generation"] = spentOn["generation"]
       /\ spentOn'["evolution"] = spentOn["evolution"]
  BY <1>9 DEF Billing, AllRoles, TournamentRoles
<1>16. PoolBilled'
  <2>. DEFINE g == spentOn["generation"]
              e == spentOn["evolution"]
              f == spentOn["reflection"]
              n == spentOn'["generation"] + spentOn'["evolution"] + spentOn'["reflection"] + fresh'
  <2>1. g \in Nat /\ e \in Nat /\ f \in Nat
    BY CountIs
  <2>2. n = g + e + (f + fresh) + 0
    BY <1>1, <1>15
  <2>. HIDE DEF g, e, f, n
  <2>3. n \in Nat /\ n <= g + e + f + fresh + 0
    BY <1>5, <2>1, <2>2
  <2>4. n <= spentOn["generation"] + spentOn["evolution"] + spentOn["reflection"] + fresh + 0
    BY <2>3 DEF g, e, f
  <2>5. n = spentOn'["generation"] + spentOn'["evolution"] + spentOn'["reflection"] + fresh'
    BY DEF n
  <2>. QED
    BY <1>1, <1>7, <2>3, <2>4, <2>5, PoolKept
<1>17. ReviewsBilled'
  <2>. SUFFICES ASSUME shape.workflow = "tournament"
                PROVE  /\ spentOn'["reflection"] + fresh' <= RoundsPast(1)' * shape.batch + RoundsPast(5)' * shape.evolved
                       /\ spentOn'["reflection"] <= RoundsPast(2)' * shape.batch + Prior(RoundsPast(2)') * shape.evolved
    BY <1>1 DEF ReviewsBilled
  <2>. DEFINE r == stage.round
              f == spentOn["reflection"]
              w == f + fresh
              q == r * shape.batch + (r - 1) * shape.evolved
  <2>1. RoundsPast(1) = r /\ RoundsPast(5) = r - 1 /\ RoundsPast(2) = r - 1
    BY <1>1, <1>2, <1>6 DEF RoundsPast
  <2>2. RoundsPast(1)' = r /\ RoundsPast(5)' = r - 1 /\ RoundsPast(2)' = r
    <3>1. stage'.step = u /\ stage'.round = r
      <4>1. stage \in [round : 1 .. shape.rounds + 1, answered : BOOLEAN, step : Steps]
        BY StageIs
      <4>. QED
        BY <1>1, <4>1 DEF u
    <3>2. Place(u) = 3 /\ u \notin Final
      BY <1>4 DEF Place, Final
    <3>. QED
      BY <3>1, <3>2 DEF RoundsPast
  <2>3. Prior(r) = r - 1
    BY <1>5 DEF Prior
  <2>4. w <= q
    BY <2>1 DEF BillInv, ReviewsBilled
  <2>5. spentOn'["reflection"] = w /\ w \in Nat
    BY <1>5, <1>15, CountIs
  <2>6. w + fresh' = w
    <3>. HIDE DEF w
    <3>. QED
      BY <1>1, <2>5
  <2>. HIDE DEF w
  <2>. QED
    BY <2>2, <2>3, <2>4, <2>5, <2>6
<1>. QED
  BY <1>7, <1>11, <1>12, <1>13, <1>14, <1>16, <1>17 DEF BillInv

\* Nothing is made or reviewed by a step that ends the rounds or the run.
LEMMA EndingKept ==
  ASSUME BillInv, shape' = shape, stage'.step \in Final, stage.step # "over",
         stage' \in [round : 1 .. shape.rounds + 1, answered : BOOLEAN, step : Steps],
         spentOn' \in [AllRoles -> Nat], asked' \in [calls : Nat, reserve : {0, 2}],
         MadeNone, \A x \in {"generation", "evolution", "reflection"} : spentOn'[x] = spentOn[x],
         RolesBilled', WorkflowKept', EndBilled'
  PROVE  BillInv'
<1>1. Onward
  BY AtLast
<1>2. fresh' = fresh /\ ideas' = ideas /\ fresh \in Nat /\ ideas \in Nat /\ fresh <= ideas /\ shape \in RunShapes
  BY StageIs DEF MadeNone
<1>3. EstimatesTypeOK'
  BY <1>2 DEF EstimatesTypeOK, Steps, OverviewReserve
<1>4. RoundsKept'
  BY DEF RoundsKept
<1>5. ReviewsBilled'
  <2>1. fresh' \in Nat /\ fresh' <= fresh + 0 /\ spentOn'["reflection"] = spentOn["reflection"]
    BY <1>2
  <2>. QED
    BY <1>1, <2>1, ReviewsKept
<1>6. PoolBilled'
  <2>. DEFINE m == spentOn["generation"] + spentOn["evolution"] + spentOn["reflection"] + fresh
  <2>1. m \in Nat
    BY <1>2, CountIs
  <2>2. spentOn'["generation"] + spentOn'["evolution"] + spentOn'["reflection"] + fresh' = m
    BY <1>2
  <2>3. m <= m + 0
    <3>. HIDE DEF m
    <3>. QED
      BY <2>1
  <2>4. m <= spentOn["generation"] + spentOn["evolution"] + spentOn["reflection"] + fresh + 0
    BY <2>3
  <2>. HIDE DEF m
  <2>. QED
    BY <1>1, <2>1, <2>2, <2>4, PoolKept
<1>. QED
  BY <1>3, <1>4, <1>5, <1>6 DEF BillInv

LEMMA EndRoundsKept ==
  ASSUME BillInv, EndRounds
  PROVE  BillInv'
<1>1. /\ stage.step # "over" /\ stage' = [stage EXCEPT !.step = "report"] /\ shape' = shape
      /\ NoBill /\ MadeNone
  BY DEF EndRounds, To, NoBill
<1>2. stage \in [round : 1 .. shape.rounds + 1, answered : BOOLEAN, step : Steps] /\ "report" \in Steps /\ "report" \in Final
  BY StageIs DEF Steps, Final
<1>3. /\ stage' \in [round : 1 .. shape.rounds + 1, answered : BOOLEAN, step : Steps]
      /\ stage'.step = "report" /\ stage'.step # "over" /\ stage'.step \in Final
  BY <1>1, <1>2
<1>4. Onward
  BY <1>1, <1>3, AtLast
<1>5. Billing("generation", 0) /\ spentOn' \in [AllRoles -> Nat] /\ asked' \in [calls : Nat, reserve : {0, 2}]
  BY <1>1, NoBillIs
<1>6. RolesBilled'
  BY <1>1, <1>3, <1>4, <1>5, RolesAreBilled
<1>7. EndBilled'
  BY <1>1, <1>3, <1>5, EndKept
<1>8. WorkflowKept'
  <2>1. stage'.step \notin {"framed", "verify", "integrate", "challenge", "make", "cluster", "rank", "evolve", "meta"}
    BY <1>3
  <2>2. \A x \in Only(Other(shape.workflow)) : spentOn[x] = 0
    BY DEF BillInv, WorkflowKept
  <2>. QED
    BY <1>1, <2>1, <2>2 DEF WorkflowKept, NoBill
<1>9. \A x \in {"generation", "evolution", "reflection"} : spentOn'[x] = spentOn[x]
  BY <1>1 DEF NoBill
<1>. QED
  BY <1>1, <1>3, <1>5, <1>6, <1>7, <1>8, <1>9, EndingKept

LEMMA OverviewKept ==
  ASSUME BillInv, OverviewReport
  PROVE  BillInv'
<1>1. /\ stage.step = "report" /\ shape.workflow = "tournament"
      /\ stage' = [stage EXCEPT !.step = "over"] /\ shape' = shape
      /\ Ask("overview", 1, 0) /\ MadeNone
  BY DEF OverviewReport, Tournament, To
<1>2. stage \in [round : 1 .. shape.rounds + 1, answered : BOOLEAN, step : Steps]
      /\ "over" \in Steps /\ "over" \in Final /\ "report" \in Final
  BY StageIs DEF Steps, Final
<1>3. /\ stage' \in [round : 1 .. shape.rounds + 1, answered : BOOLEAN, step : Steps]
      /\ stage'.step = "over" /\ stage'.step \in Final /\ stage.step # "over"
  BY <1>1, <1>2
<1>4. "overview" \in AllRoles /\ "overview" \notin Only(Other("tournament"))
  BY DEF Only, Other, AllRoles, TournamentRoles
<1>5. /\ Billing("overview", 1) /\ spentOn' \in [AllRoles -> Nat]
      /\ asked' \in [calls : Nat, reserve : {0, 2}] /\ asked'.reserve = 0
  BY <1>1, <1>4, AskIs
<1>6. RolesBilled'
  <2>. SUFFICES ASSUME NEW x \in Regular(shape.workflow)
                PROVE  spentOn'[x] <= RoundsPast(Turn(x))' * Each(shape, x)
    BY <1>1 DEF RolesBilled
  <2>1. x \in AllRoles /\ x # "overview" /\ x \notin {"synthesis", "challenge"} /\ Turn(x) \in 0 .. 6
    BY <1>1 DEF Regular, AllRoles, TournamentRoles, Turn
  <2>2. spentOn'[x] = spentOn[x]
    BY <1>5, <2>1 DEF Billing
  <2>3. RoundsPast(Turn(x))' = RoundsPast(Turn(x))
    BY <1>1, <1>2, <1>3 DEF RoundsPast
  <2>4. spentOn[x] <= RoundsPast(Turn(x)) * Each(shape, x)
    BY <2>1 DEF BillInv, RolesBilled
  <2>. QED
    BY <2>2, <2>3, <2>4
<1>7. WorkflowKept'
  <2>1. stage'.step \notin Strange(shape.workflow)
    BY <1>3 DEF Strange
  <2>. QED
    BY <1>1, <1>4, <1>5, <2>1, OwnRoles
<1>8. EndBilled'
  <2>1. spentOn["overview"] = 0
    BY <1>1, <1>3 DEF BillInv, EndBilled
  <2>2. spentOn'["overview"] = 1
    BY <1>4, <1>5, <2>1 DEF Billing
  <2>. QED
    BY <1>1, <1>3, <1>5, <2>2 DEF EndBilled
<1>9. \A x \in {"generation", "evolution", "reflection"} : spentOn'[x] = spentOn[x]
  BY <1>5 DEF Billing, AllRoles, TournamentRoles
<1>. QED
  BY <1>1, <1>3, <1>5, <1>6, <1>7, <1>8, <1>9, EndingKept

\* At the report both the answer and its challenge have been asked once a round at most.
LEMMA AnswersBilled ==
  ASSUME BillInv, stage.step = "report", shape.workflow = "adaptive"
  PROVE  /\ spentOn["synthesis"] <= shape.rounds /\ spentOn["challenge"] <= shape.rounds
         /\ spentOn["synthesis"] \in Nat /\ spentOn["challenge"] \in Nat
<1>1. \A x \in {"synthesis", "challenge"} : x \in Regular(shape.workflow) /\ Each(shape, x) = 1
  BY DEF Regular, Each
<1>2. \A x \in {"synthesis", "challenge"} : spentOn[x] <= RoundsPast(Turn(x)) * Each(shape, x)
  BY <1>1 DEF BillInv, RolesBilled
<1>3. \A t : RoundsPast(t) = shape.rounds
  BY DEF RoundsPast, Final
<1>4. shape.rounds * 1 = shape.rounds
  BY StageIs
<1>. QED
  BY <1>1, <1>2, <1>3, <1>4, CountIs

LEMMA ResearchReportKept ==
  ASSUME BillInv, ResearchReport
  PROVE  BillInv'
<1>1. /\ stage.step = "report" /\ shape.workflow = "adaptive"
      /\ stage' = [stage EXCEPT !.step = "over"] /\ shape' = shape /\ MadeNone
      /\ \/ NoBill
         \/ /\ spentOn' = [spentOn EXCEPT !["synthesis"] = @ + 1, !["challenge"] = @ + 1]
            /\ asked' = [calls |-> 2, reserve |-> 0]
  BY DEF ResearchReport, Adaptive, To, NoBill
<1>2. stage \in [round : 1 .. shape.rounds + 1, answered : BOOLEAN, step : Steps]
      /\ "over" \in Steps /\ "over" \in Final /\ "report" \in Final
      /\ spentOn \in [AllRoles -> Nat] /\ asked \in [calls : Nat, reserve : {0, 2}] /\ shape.rounds \in Nat
  BY StageIs DEF Steps, Final
<1>3. /\ stage' \in [round : 1 .. shape.rounds + 1, answered : BOOLEAN, step : Steps]
      /\ stage'.step = "over" /\ stage'.step \in Final /\ stage.step # "over"
  BY <1>1, <1>2
<1>4. "synthesis" \in AllRoles /\ "challenge" \in AllRoles
  BY DEF AllRoles, AdaptiveRoles
<1>5. /\ spentOn' \in [AllRoles -> Nat] /\ asked' \in [calls : Nat, reserve : {0, 2}]
      /\ \A x \in AllRoles \ {"synthesis", "challenge"} : spentOn'[x] = spentOn[x]
      /\ \/ spentOn'["synthesis"] = spentOn["synthesis"] /\ spentOn'["challenge"] = spentOn["challenge"]
         \/ /\ spentOn'["synthesis"] = spentOn["synthesis"] + 1 /\ spentOn'["challenge"] = spentOn["challenge"] + 1
            /\ asked'.reserve = 0
  <2>1. CASE NoBill
    BY <1>2, <2>1 DEF NoBill
  <2>2. CASE /\ spentOn' = [spentOn EXCEPT !["synthesis"] = @ + 1, !["challenge"] = @ + 1]
             /\ asked' = [calls |-> 2, reserve |-> 0]
    <3>. DEFINE one == [spentOn EXCEPT !["synthesis"] = @ + 1]
    <3>1. one \in [AllRoles -> Nat] /\ one["challenge"] = spentOn["challenge"] /\ one["synthesis"] = spentOn["synthesis"] + 1
          /\ \A x \in AllRoles \ {"synthesis"} : one[x] = spentOn[x]
      BY <1>2, <1>4
    <3>2. spentOn' = [one EXCEPT !["challenge"] = @ + 1]
      BY <2>2
    <3>. HIDE DEF one
    <3>3. /\ spentOn' \in [AllRoles -> Nat] /\ spentOn'["challenge"] = one["challenge"] + 1
          /\ \A x \in AllRoles \ {"challenge"} : spentOn'[x] = one[x]
      BY <1>4, <3>1, <3>2
    <3>4. asked' \in [calls : Nat, reserve : {0, 2}] /\ asked'.reserve = 0
      BY <2>2
    <3>. QED
      BY <1>4, <3>1, <3>3, <3>4
  <2>. QED
    BY <1>1, <2>1, <2>2
<1>6. RolesBilled'
  <2>. SUFFICES ASSUME NEW x \in Regular(shape.workflow), x \notin {"synthesis", "challenge"}
                PROVE  spentOn'[x] <= RoundsPast(Turn(x))' * Each(shape, x)
    BY <1>1, <1>3 DEF RolesBilled
  <2>1. x \in AllRoles /\ Turn(x) \in 0 .. 6
    BY <1>1 DEF Regular, AllRoles, AdaptiveRoles, Turn
  <2>2. spentOn'[x] = spentOn[x]
    BY <1>5, <2>1
  <2>3. RoundsPast(Turn(x))' = RoundsPast(Turn(x))
    BY <1>1, <1>2, <1>3 DEF RoundsPast
  <2>4. spentOn[x] <= RoundsPast(Turn(x)) * Each(shape, x)
    BY <1>3 DEF BillInv, RolesBilled
  <2>. QED
    BY <2>2, <2>3, <2>4
<1>7. WorkflowKept'
  <2>1. \A x \in Only(Other(shape.workflow)) : spentOn[x] = 0
    BY DEF BillInv, WorkflowKept
  <2>2. \A x \in Only(Other(shape.workflow)) : x \in AllRoles \ {"synthesis", "challenge"}
    BY <1>1 DEF Only, Other, AllRoles, TournamentRoles
  <2>3. \A x \in Only(Other(shape.workflow)) : spentOn'[x] = 0
    BY <1>5, <2>1, <2>2
  <2>. QED
    BY <1>1, <1>3, <2>3 DEF WorkflowKept
<1>8. EndBilled'
  <2>. DEFINE y == spentOn["synthesis"]
              c == spentOn["challenge"]
              y1 == spentOn'["synthesis"]
              c1 == spentOn'["challenge"]
              v == asked'.reserve
              R == shape.rounds
  <2>1. y \in Nat /\ c \in Nat /\ y <= R /\ c <= R /\ R \in Nat
    BY <1>1, <1>2, AnswersBilled
  <2>2. v \in {0, 2} /\ ((y1 = y /\ c1 = c) \/ (y1 = y + 1 /\ c1 = c + 1 /\ v = 0))
    BY <1>5
  <2>. HIDE DEF y, c, y1, c1, v, R
  <2>3. y1 + c1 + v <= 2 * R + 2
    BY <2>1, <2>2
  <2>. QED
    BY <1>1, <2>3 DEF EndBilled, y1, c1, v, R
<1>9. \A x \in {"generation", "evolution", "reflection"} : spentOn'[x] = spentOn[x]
  BY <1>5 DEF AllRoles, TournamentRoles
<1>. QED
  BY <1>1, <1>3, <1>5, <1>6, <1>7, <1>8, <1>9, EndingKept

THEOREM BillIsKept == EstimatesSpec => []BillInv
<1>1. EstimatesInit => BillInv
  BY BillStarts
<1>2. BillInv /\ [EstimatesNext]_estimateVars => BillInv'
  <2>. SUFFICES ASSUME BillInv, [EstimatesNext]_estimateVars PROVE BillInv'
    OBVIOUS
  <2>1. CASE UNCHANGED estimateVars
    BY <2>1 DEF estimateVars, BillInv, EstimatesTypeOK, WorkflowKept, RoundsKept, RolesBilled, ReviewsBilled, PoolBilled,
       EndBilled, RoundsPast
  <2>2. CASE EstimatesNext
    BY <2>2, OpenKept, EndRoundsKept, GenerateKept, ReviewKept, ClusterKept, RankKept, EvolveKept, MetaKept, OverviewKept,
       FrameKept, ExploreKept, DevelopKept, VerifyOnlyKept, VerifyKept, IntegrateKept, ChallengeKept, ResearchReportKept,
       Zenon DEF EstimatesNext
  <2>. QED
    BY <2>1, <2>2
<1>. QED
  BY <1>1, <1>2, PTL DEF EstimatesSpec

----------------------------------------------------------------------------
(* What the rounds cost is what they were priced at.                        *)

LEMMA TotalOfAll ==
  ASSUME NEW c, DOMAIN c = AllRoles
  PROVE  Total(c) = c["framing"] + c["generation"] + c["evolution"] + c["reflection"] + c["verification"]
                    + c["synthesis"] + c["challenge"] + c["proximity"] + c["ranking"] + c["meta_review"] + c["overview"]
BY DEF Total, AllRoles, TournamentRoles, AdaptiveRoles

LEMMA TotalOfTournament ==
  ASSUME NEW c, DOMAIN c = TournamentRoles, \A role \in TournamentRoles : c[role] \in Nat
  PROVE  Total(c) = c["generation"] + c["evolution"] + c["reflection"] + c["proximity"] + c["ranking"]
                    + c["meta_review"] + c["overview"]
BY DEF Total, TournamentRoles

LEMMA TotalOfResearch ==
  ASSUME NEW c, DOMAIN c = AdaptiveRoles, \A role \in AdaptiveRoles : c[role] \in Nat
  PROVE  Total(c) = c["framing"] + c["generation"] + c["evolution"] + c["reflection"] + c["verification"]
                    + c["synthesis"] + c["challenge"]
BY DEF Total, AdaptiveRoles

\* The parts of a tournament's price, each by itself.
Priced(R, S, B, M, E) ==
  /\ R * S \in Nat /\ R * B \in Nat /\ R * M \in Nat /\ Prior(R) * E \in Nat
  /\ R * (S + B + M + 3) = R * S + R * B + R * M + 3 * R
  /\ R # 0 => Prior(R) = R - 1
  /\ R = 0 => R * S = 0 /\ R * B = 0 /\ R * M = 0 /\ Prior(R) * E = 0

LEMMA PricesAre ==
  ASSUME NEW R \in Nat, NEW S \in Nat, NEW B \in Nat, NEW M \in Nat, NEW E \in Nat
  PROVE  Priced(R, S, B, M, E)
<1>1. Prior(R) \in Nat /\ (R # 0 => Prior(R) = R - 1) /\ (R = 0 => Prior(R) = 0)
  BY DEF Prior
<1>2. R * S \in Nat /\ R * B \in Nat /\ R * M \in Nat
  BY Times
<1>3. Prior(R) * E \in Nat
  BY <1>1, Times
<1>4. R * (S + B + M + 3) = R * S + R * B + R * M + 3 * R
  OBVIOUS
<1>5. R = 0 => R * S = 0 /\ R * B = 0 /\ R * M = 0 /\ Prior(R) * E = 0
  BY <1>1
<1>. QED
  BY <1>1, <1>2, <1>3, <1>4, <1>5 DEF Priced

LEMMA TournamentPrice ==
  ASSUME shape \in RunShapes, shape.workflow = "tournament"
  PROVE  LET R == shape.rounds
             c == TournamentCalls(shape)
             reviews == R * shape.batch + Prior(R) * shape.evolved
             price == 2 + R * Shards(shape) + R * shape.batch + R * shape.matches + 3 * R + Prior(R) * shape.evolved
         IN  /\ CallsByRole(shape) = c /\ EstimateCalls(shape) = price /\ Total(c) = price /\ price \in Nat
             /\ c["generation"] = R * Shards(shape) /\ c["ranking"] = R * shape.matches /\ c["reflection"] = reviews
             /\ c["evolution"] = R /\ c["proximity"] = R /\ c["meta_review"] = R /\ c["overview"] = 2
<1>. DEFINE R == shape.rounds
            S == Shards(shape)
            B == shape.batch
            M == shape.matches
            E == shape.evolved
            c == TournamentCalls(shape)
            rS == R * S
            rB == R * B
            rM == R * M
            pE == Prior(R) * E
            price == 2 + rS + rB + rM + 3 * R + pE
<1>1. R \in Nat /\ S \in Nat /\ B \in Nat /\ M \in Nat /\ E \in Nat
  BY ShapeIs
<1>2. DOMAIN c = TournamentRoles
  BY DEF TournamentCalls
<1>3. c["overview"] = 2
  BY DEF TournamentCalls, TournamentRoles, OverviewReserve
<1>4. R = 0 => /\ c["generation"] = 0 /\ c["reflection"] = 0 /\ c["ranking"] = 0
               /\ c["evolution"] = 0 /\ c["proximity"] = 0 /\ c["meta_review"] = 0
  BY DEF TournamentCalls, TournamentRoles
<1>5. R # 0 => /\ c["generation"] = R * S /\ c["reflection"] = R * B + (R - 1) * E /\ c["ranking"] = R * M
               /\ c["evolution"] = R /\ c["proximity"] = R /\ c["meta_review"] = R
  BY DEF TournamentCalls, TournamentRoles
<1>6. CallsByRole(shape) = c
  BY DEF CallsByRole
<1>7. EstimateCalls(shape) = IF R = 0 THEN 2 ELSE 2 + R * (S + B + M + 3) + (R - 1) * E
  BY DEF EstimateCalls, OverviewReserve
<1>. HIDE DEF R, S, B, M, E, c
<1>8. /\ rS \in Nat /\ rB \in Nat /\ rM \in Nat /\ pE \in Nat
      /\ R * (S + B + M + 3) = rS + rB + rM + 3 * R
      /\ R # 0 => Prior(R) = R - 1
      /\ R = 0 => rS = 0 /\ rB = 0 /\ rM = 0 /\ pE = 0
  <2>1. Priced(R, S, B, M, E)
    BY <1>1, PricesAre
  <2>. QED
    BY <2>1 DEF Priced
<1>9. /\ R = 0 => EstimateCalls(shape) = 2
      /\ R # 0 => EstimateCalls(shape) = 2 + (rS + rB + rM + 3 * R) + pE
  BY <1>7, <1>8
<1>10. /\ c["generation"] = rS /\ c["reflection"] = rB + pE /\ c["ranking"] = rM
       /\ c["evolution"] = R /\ c["proximity"] = R /\ c["meta_review"] = R
  <2>1. CASE R = 0
    <3>1. rB + pE = 0
      BY <1>8, <2>1
    <3>. QED
      BY <1>4, <1>8, <2>1, <3>1
  <2>2. CASE R # 0
    BY <1>5, <1>8, <2>2
  <2>. QED
    BY <2>1, <2>2
<1>. HIDE DEF rS, rB, rM, pE
<1>11. \A role \in TournamentRoles : c[role] \in Nat
  <2>1. rB + pE \in Nat
    BY <1>8
  <2>. QED
    BY <1>1, <1>3, <1>8, <1>10, <2>1 DEF TournamentRoles
<1>12. price \in Nat /\ EstimateCalls(shape) = price
  BY <1>1, <1>8, <1>9
<1>13. Total(c) = price
  <2>1. Total(c) = rS + R + (rB + pE) + R + rM + R + 2
    BY <1>2, <1>3, <1>10, <1>11, TotalOfTournament
  <2>. QED
    BY <1>1, <1>8, <2>1
<1>. QED
  BY <1>3, <1>6, <1>10, <1>12, <1>13 DEF R, S, B, M, E, c, rS, rB, rM, pE

LEMMA ResearchPrice ==
  ASSUME shape \in RunShapes, shape.workflow = "adaptive"
  PROVE  LET R == shape.rounds
             price == R + R * Pool(shape) + R * Each(shape, "verification") + 2 * R + 2
         IN  CallsByRole(shape) = AdaptiveCalls(shape)
             /\ EstimateCalls(shape) = price /\ Total(AdaptiveCalls(shape)) = price /\ price \in Nat
<1>. DEFINE R == shape.rounds
            V == Each(shape, "verification")
            P == Pool(shape)
            made == Larger(4, shape.batch)
            bred == Larger(1, shape.evolved)
            search == 4 + made >= 1 + bred
            c == AdaptiveCalls(shape)
            rV == R * V
            rP == R * P
<1>1. R \in Nat /\ V \in Nat /\ P \in Nat /\ made \in Nat /\ bred \in Nat
  BY ShapeIs DEF Larger
<1>2. DOMAIN c = AdaptiveRoles
  BY DEF AdaptiveCalls
<1>3. /\ c["framing"] = R /\ c["verification"] = rV /\ c["synthesis"] = R + 1 /\ c["challenge"] = R + 1
      /\ c["generation"] = IF search THEN 4 * R ELSE 0
      /\ c["evolution"] = IF search THEN 0 ELSE R
      /\ c["reflection"] = R * (IF search THEN made ELSE bred)
  BY DEF AdaptiveCalls, AdaptiveRoles, Each
<1>4. P = IF search THEN 4 + made ELSE 1 + bred
  <2>1. P = Larger(4 + made, 1 + bred)
    BY DEF Pool, Search, Breeding
  <2>. HIDE DEF P, made, bred
  <2>2. P = IF 4 + made > 1 + bred THEN 4 + made ELSE 1 + bred
    BY <2>1 DEF Larger
  <2>. QED
    BY <1>1, <2>2
<1>5. CallsByRole(shape) = c /\ EstimateCalls(shape) = Total(c)
  BY DEF CallsByRole, EstimateCalls
<1>. HIDE DEF R, V, P, made, bred, c
<1>6. rV \in Nat /\ rP \in Nat
  BY <1>1, Times
<1>7. /\ c["generation"] \in Nat /\ c["evolution"] \in Nat /\ c["reflection"] \in Nat
      /\ c["generation"] + c["evolution"] + c["reflection"] = rP
  <2>1. CASE search
    <3>1. c["generation"] = 4 * R /\ c["evolution"] = 0 /\ c["reflection"] = R * made /\ P = 4 + made
      BY <1>3, <1>4, <2>1
    <3>2. R * made \in Nat /\ R * (4 + made) = 4 * R + R * made
      BY <1>1, Times
    <3>. DEFINE rm == R * made
    <3>3. rP = 4 * R + rm /\ rm \in Nat
      BY <3>1, <3>2
    <3>4. c["reflection"] = rm
      BY <3>1
    <3>. HIDE DEF rm, rP
    <3>. QED
      BY <1>1, <3>1, <3>3, <3>4
  <2>2. CASE ~search
    <3>1. c["generation"] = 0 /\ c["evolution"] = R /\ c["reflection"] = R * bred /\ P = 1 + bred
      BY <1>3, <1>4, <2>2
    <3>2. R * bred \in Nat /\ R * (1 + bred) = R + R * bred
      BY <1>1, Times
    <3>. DEFINE rb == R * bred
    <3>3. rP = R + rb /\ rb \in Nat
      BY <3>1, <3>2
    <3>4. c["reflection"] = rb
      BY <3>1
    <3>. HIDE DEF rb, rP
    <3>. QED
      BY <1>1, <3>1, <3>3, <3>4
  <2>. QED
    BY <2>1, <2>2
<1>8. /\ c["framing"] = R /\ c["verification"] = rV /\ c["synthesis"] = R + 1 /\ c["challenge"] = R + 1
  BY <1>3
<1>. HIDE DEF rV, rP
<1>9. \A role \in AdaptiveRoles : c[role] \in Nat
  <2>1. R + 1 \in Nat
    BY <1>1
  <2>. QED
    BY <1>1, <1>6, <1>7, <1>8, <2>1 DEF AdaptiveRoles
<1>10. Total(c) = R + rP + rV + 2 * R + 2 /\ R + rP + rV + 2 * R + 2 \in Nat
  <2>. DEFINE g == c["generation"]
              e == c["evolution"]
              f == c["reflection"]
  <2>1. Total(c) = R + g + e + f + rV + (R + 1) + (R + 1)
    BY <1>2, <1>8, <1>9, TotalOfResearch
  <2>2. g \in Nat /\ e \in Nat /\ f \in Nat /\ g + e + f = rP
    BY <1>7
  <2>. HIDE DEF g, e, f
  <2>. QED
    BY <1>1, <1>6, <2>1, <2>2
<1>. QED
  BY <1>5, <1>10 DEF R, V, P, c, rV, rP

LEMMA RegularBilled ==
  ASSUME BillInv, NEW role \in Regular(shape.workflow), ~(stage.step = "over" /\ role \in {"synthesis", "challenge"})
  PROVE  spentOn[role] \in Nat /\ spentOn[role] <= shape.rounds * Each(shape, role)
<1>. DEFINE a == RoundsPast(Turn(role))
            R == shape.rounds
            e == Each(shape, role)
            n == spentOn[role]
<1>1. role \in AllRoles /\ Turn(role) \in 0 .. 6
  BY DEF Regular, AllRoles, TournamentRoles, AdaptiveRoles, Turn
<1>2. n \in Nat /\ R \in Nat /\ e \in Nat
  BY <1>1, StageIs, ShapeIs
<1>3. a \in Nat /\ a <= R
  BY <1>1, PastIs
<1>4. n <= a * e
  BY DEF BillInv, RolesBilled
<1>. HIDE DEF a, R, e, n
<1>. DEFINE ae == a * e
            Re == R * e
<1>5. ae <= Re /\ ae \in Nat /\ Re \in Nat
  BY <1>2, <1>3, Times
<1>6. n <= ae
  BY <1>4
<1>. HIDE DEF ae, Re
<1>7. n \in Nat /\ n <= Re
  BY <1>2, <1>5, <1>6
<1>. QED
  BY <1>7 DEF n, Re, R, e

LEMMA ReviewsPriced ==
  ASSUME BillInv, shape.workflow = "tournament"
  PROVE  spentOn["reflection"] <= shape.rounds * shape.batch + Prior(shape.rounds) * shape.evolved
<1>. DEFINE a == RoundsPast(2)
            R == shape.rounds
            B == shape.batch
            E == shape.evolved
            n == spentOn["reflection"]
<1>1. a \in Nat /\ a <= R
  BY PastIs
<1>2. R \in Nat /\ B \in Nat /\ E \in Nat /\ n \in Nat
  BY StageIs, ShapeIs, CountIs
<1>3. n <= a * B + Prior(a) * E
  BY DEF BillInv, ReviewsBilled
<1>. HIDE DEF a, R, B, E, n
<1>4. Prior(a) \in Nat /\ Prior(R) \in Nat /\ Prior(a) <= Prior(R)
  BY <1>1, <1>2 DEF Prior
<1>. DEFINE aB == a * B
            RB == R * B
            aE == Prior(a) * E
            RE == Prior(R) * E
<1>5. aB <= RB /\ aB \in Nat /\ RB \in Nat
  BY <1>1, <1>2, Times
<1>6. aE <= RE /\ aE \in Nat /\ RE \in Nat
  BY <1>2, <1>4, Times
<1>7. n <= aB + aE
  BY <1>3
<1>. HIDE DEF aB, RB, aE, RE
<1>8. n <= RB + RE
  BY <1>2, <1>5, <1>6, <1>7
<1>. QED
  BY <1>8 DEF n, RB, RE, R, B, E

LEMMA TournamentCovered ==
  ASSUME BillInv, shape.workflow = "tournament"
  PROVE  EstimateCovers /\ RolesCovered
<1>. DEFINE R == shape.rounds
            rS == R * Shards(shape)
            rB == R * shape.batch
            rM == R * shape.matches
            pE == Prior(R) * shape.evolved
            c == TournamentCalls(shape)
            price == 2 + rS + rB + rM + 3 * R + pE
            v == asked.reserve
            o == spentOn["overview"]
            g == spentOn["generation"]
            e == spentOn["evolution"]
            f == spentOn["reflection"]
            p == spentOn["proximity"]
            k == spentOn["ranking"]
            m == spentOn["meta_review"]
<1>1. /\ CallsByRole(shape) = c /\ EstimateCalls(shape) = price /\ Total(c) = price /\ price \in Nat
      /\ c["generation"] = rS /\ c["ranking"] = rM /\ c["reflection"] = rB + pE
      /\ c["evolution"] = R /\ c["proximity"] = R /\ c["meta_review"] = R /\ c["overview"] = 2
  BY StageIs, TournamentPrice
<1>2. Priced(R, Shards(shape), shape.batch, shape.matches, shape.evolved) /\ R \in Nat
  BY StageIs, ShapeIs, PricesAre
<1>3. rS \in Nat /\ rB \in Nat /\ rM \in Nat /\ pE \in Nat
  BY <1>2 DEF Priced
<1>4. /\ g \in Nat /\ g <= rS /\ k \in Nat /\ k <= rM
      /\ e \in Nat /\ e <= R * 1 /\ p \in Nat /\ p <= R * 1 /\ m \in Nat /\ m <= R * 1
  <2>1. \A x \in Regular(shape.workflow) : spentOn[x] \in Nat /\ spentOn[x] <= R * Each(shape, x)
    <3>. SUFFICES ASSUME NEW x \in Regular(shape.workflow)
                  PROVE  spentOn[x] \in Nat /\ spentOn[x] <= R * Each(shape, x)
      OBVIOUS
    <3>1. x \notin {"synthesis", "challenge"}
      BY DEF Regular
    <3>. QED
      BY <3>1, RegularBilled
  <2>2. \A x \in {"generation", "evolution", "proximity", "ranking", "meta_review"} : x \in Regular(shape.workflow)
    BY DEF Regular
  <2>3. /\ Each(shape, "generation") = Shards(shape) /\ Each(shape, "ranking") = shape.matches
        /\ Each(shape, "evolution") = 1 /\ Each(shape, "proximity") = 1 /\ Each(shape, "meta_review") = 1
    BY DEF Each
  <2>. QED
    BY <2>1, <2>2, <2>3
<1>5. f <= rB + pE /\ f \in Nat
  BY ReviewsPriced, CountIs
<1>6. o \in Nat /\ o <= 2 /\ v \in {0, 2} /\ o + v <= 2
  BY StageIs DEF BillInv, EndBilled
<1>7. /\ spentOn["framing"] = 0 /\ spentOn["verification"] = 0 /\ spentOn["synthesis"] = 0 /\ spentOn["challenge"] = 0
  <2>1. Only(Other(shape.workflow)) = {"framing", "verification", "synthesis", "challenge"}
    BY DEF Only, Other
  <2>. QED
    BY <2>1 DEF BillInv, WorkflowKept
<1>8. DOMAIN spentOn = AllRoles
  BY StageIs
<1>9. Total(spentOn) = 0 + g + e + f + 0 + 0 + 0 + p + k + m + o
  BY <1>7, <1>8, TotalOfAll
<1>10. R * 1 = R
  BY <1>2
<1>. HIDE DEF R, rS, rB, rM, pE, c, v, o, g, e, f, p, k, m
<1>11. e <= R /\ p <= R /\ m <= R
  BY <1>4, <1>10
<1>12. Total(spentOn) + v <= price
  BY <1>2, <1>3, <1>4, <1>5, <1>6, <1>9, <1>11
<1>13. EstimateCovers
  BY <1>1, <1>12 DEF EstimateCovers, v
<1>. DEFINE n == EstimateCalls(shape)
<1>14. n <= SuggestedBudget(shape)
  <2>1. n \in Nat /\ SuggestedBudget(shape) = (5 * n + 3) \div 4
    BY <1>1 DEF SuggestedBudget
  <2>. HIDE DEF n
  <2>2. n <= (5 * n + 3) \div 4
    BY <2>1
  <2>. QED
    BY <2>1, <2>2
<1>15. ASSUME NEW role \in AllRoles
       PROVE  spentOn[role] <= IF role \in TournamentRoles THEN CallsByRole(shape)[role] ELSE 0
  <2>1. CASE role \in TournamentRoles
    <3>1. /\ g <= c["generation"] /\ k <= c["ranking"] /\ f <= c["reflection"] /\ e <= c["evolution"]
          /\ p <= c["proximity"] /\ m <= c["meta_review"] /\ o <= c["overview"]
      BY <1>1, <1>4, <1>5, <1>6, <1>11
    <3>2. spentOn[role] <= c[role]
      BY <2>1, <3>1 DEF TournamentRoles, g, e, f, p, k, m, o
    <3>. QED
      BY <1>1, <2>1, <3>2
  <2>2. CASE role \notin TournamentRoles
    <3>1. spentOn[role] = 0
      BY <1>7, <2>2 DEF AllRoles, TournamentRoles, AdaptiveRoles
    <3>. QED
      BY <2>2, <3>1
  <2>. QED
    BY <2>1, <2>2
<1>16. Total(CallsByRole(shape)) = EstimateCalls(shape)
  BY <1>1
<1>17. RolesCovered
  BY <1>14, <1>15, <1>16 DEF RolesCovered
<1>. QED
  BY <1>13, <1>17

LEMMA ResearchCovered ==
  ASSUME BillInv, shape.workflow = "adaptive"
  PROVE  EstimateCovers /\ RolesCovered
<1>. DEFINE R == shape.rounds
            rP == R * Pool(shape)
            rV == R * Each(shape, "verification")
            price == R + rP + rV + 2 * R + 2
            w == asked.reserve
            g == spentOn["generation"]
            e == spentOn["evolution"]
            f == spentOn["reflection"]
            h == spentOn["framing"]
            v == spentOn["verification"]
            y == spentOn["synthesis"]
            k == spentOn["challenge"]
<1>1. /\ CallsByRole(shape) = AdaptiveCalls(shape)
      /\ EstimateCalls(shape) = price /\ Total(AdaptiveCalls(shape)) = price /\ price \in Nat
  BY StageIs, ResearchPrice
<1>2. R \in Nat /\ R * 1 = R /\ rP \in Nat /\ rV \in Nat
  BY StageIs, ShapeIs, Times
<1>3. \A x \in {"framing", "verification", "synthesis", "challenge"} : x \in Regular(shape.workflow)
  BY DEF Regular
<1>4. Each(shape, "framing") = 1 /\ Each(shape, "synthesis") = 1 /\ Each(shape, "challenge") = 1
  BY DEF Each
<1>5. h \in Nat /\ h <= R /\ v \in Nat /\ v <= rV
  <2>1. h \in Nat /\ h <= R * Each(shape, "framing") /\ v \in Nat /\ v <= rV
    BY <1>3, RegularBilled
  <2>. QED
    BY <1>2, <1>4, <2>1
<1>6. y \in Nat /\ k \in Nat /\ w \in {0, 2} /\ y + k + w <= 2 * R + 2
  <2>1. y \in Nat /\ k \in Nat /\ w \in {0, 2}
    BY CountIs, StageIs
  <2>2. CASE stage.step = "over"
    BY <2>1, <2>2 DEF BillInv, EndBilled
  <2>3. CASE stage.step # "over"
    <3>1. y <= R * Each(shape, "synthesis") /\ k <= R * Each(shape, "challenge")
      BY <1>3, <2>3, RegularBilled
    <3>2. y <= R /\ k <= R
      BY <1>2, <1>4, <3>1
    <3>. HIDE DEF y, k, w, R
    <3>. QED
      BY <1>2, <2>1, <3>2
  <2>. QED
    BY <2>2, <2>3
<1>7. g \in Nat /\ e \in Nat /\ f \in Nat /\ g + e + f <= rP
  <2>. DEFINE a == RoundsPast(1)
              P == Pool(shape)
              aP == a * P
  <2>1. g \in Nat /\ e \in Nat /\ f \in Nat /\ fresh \in Nat
    BY CountIs, StageIs
  <2>2. a \in Nat /\ a <= R /\ P \in Nat
    BY PastIs, StageIs, ShapeIs
  <2>3. g + e + f + fresh <= aP
    BY DEF BillInv, PoolBilled
  <2>. HIDE DEF a, P, R
  <2>4. aP \in Nat /\ aP <= R * P
    BY <1>2, <2>2, Times
  <2>5. rP = R * P
    BY DEF P
  <2>. HIDE DEF rP, aP, g, e, f
  <2>. QED
    BY <1>2, <2>1, <2>3, <2>4, <2>5
<1>8. spentOn["proximity"] = 0 /\ spentOn["ranking"] = 0 /\ spentOn["meta_review"] = 0 /\ spentOn["overview"] = 0
  <2>1. Only(Other(shape.workflow)) = {"proximity", "ranking", "meta_review", "overview"}
    BY DEF Only, Other
  <2>. QED
    BY <2>1 DEF BillInv, WorkflowKept
<1>9. Total(spentOn) = h + g + e + f + v + y + k + 0 + 0 + 0 + 0
  BY <1>8, StageIs, TotalOfAll
<1>. HIDE DEF R, rP, rV, w, g, e, f, h, v, y, k
<1>10. Total(spentOn) + w <= price
  BY <1>2, <1>5, <1>6, <1>7, <1>9
<1>11. EstimateCovers
  BY <1>1, <1>10 DEF EstimateCovers, w
<1>. DEFINE n == EstimateCalls(shape)
<1>12. n <= SuggestedBudget(shape)
  <2>1. n \in Nat /\ SuggestedBudget(shape) = (5 * n + 3) \div 4
    BY <1>1 DEF SuggestedBudget
  <2>. HIDE DEF n
  <2>2. n <= (5 * n + 3) \div 4
    BY <2>1
  <2>. QED
    BY <2>1, <2>2
<1>13. RolesCovered
  BY <1>1, <1>12 DEF RolesCovered
<1>. QED
  BY <1>11, <1>13

(* The price of a run covers every call it makes, in total and by role:
   core.calls_by_role and estimate_calls against the rounds they are the price
   of, whatever the rounds, the batch, the matches and the evolved. *)
THEOREM EstimatesAreSafe == EstimatesSpec => []EstimatesSafe
<1>1. BillInv => EstimatesSafe
  <2>. SUFFICES ASSUME BillInv PROVE EstimatesSafe
    OBVIOUS
  <2>1. shape.workflow \in {"tournament", "adaptive"}
    BY StageIs, ShapeIs
  <2>2. EstimateCovers /\ RolesCovered
    BY <2>1, TournamentCovered, ResearchCovered
  <2>. QED
    BY <2>2 DEF BillInv, EstimatesSafe
<1>. QED
  BY <1>1, BillIsKept, PTL
=============================================================================
