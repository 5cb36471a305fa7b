---------------------------- MODULE DataProofs -----------------------------
(***************************************************************************)
(* Facts about the data that the components share: the lists of Tbl, of    *)
(* any length, loops, the paths of Routes, over any links, and source      *)
(* routes.                                                                 *)
(***************************************************************************)
EXTENDS Tbl, SourceRoute, TLAPS, FiniteSetTheorems, SequenceTheorems, WellFoundedInduction

----------------------------------------------------------------------------
(* Lists. *)

\* INIT_TBL gives a well formed list.
LEMMA EmptyIsTbl == ASSUME NEW E PROVE IsTbl(EmptyTbl, E)
  BY DEF IsTbl, EmptyTbl

\* Appending an entry that is not linked keeps the list well formed.
LEMMA AddTailIsTbl ==
  ASSUME NEW E, NEW t, IsTbl(t, E), NEW e \in E, e \notin DOMAIN t
  PROVE  /\ IsTbl(AddTail(t, e), E)
         /\ DOMAIN AddTail(t, e) = DOMAIN t \cup {e}
  BY DEF IsTbl, AddTail

\* Unlinking any set of entries keeps the list well formed.
LEMMA WithoutIsTbl ==
  ASSUME NEW E, NEW t, IsTbl(t, E), NEW S
  PROVE  /\ IsTbl(Without(t, S), E)
         /\ DOMAIN Without(t, S) = DOMAIN t \ S
  BY DEF IsTbl, Without

\* Sorted insertion keeps the list well formed.
LEMMA AddBeforeIsTbl ==
  ASSUME NEW E, NEW t, NEW S, NEW e \in E, IsTbl(t, E), e \notin DOMAIN t
  PROVE  /\ IsTbl(AddBefore(t, e, S), E)
         /\ DOMAIN AddBefore(t, e, S) = DOMAIN t \cup {e}
  BY DEF IsTbl, AddBefore

\* A list has at most one head, and a lookup returns at most one entry.
LEMMA FirstOfUnique ==
  ASSUME NEW E, NEW t, IsTbl(t, E), NEW S,
         NEW x \in FirstOf(t, S), NEW y \in FirstOf(t, S)
  PROVE  x = y
  BY DEF IsTbl, FirstOf

\* A lookup in a finite list finds an entry if one matches: of the matching
\* entries, one with a least set of entries ahead of it has none of them ahead.
LEMMA FirstOfExists ==
  ASSUME NEW E, NEW t, IsTbl(t, E), IsFiniteSet(DOMAIN t), NEW S, DOMAIN t \cap S # {}
  PROVE  FirstOf(t, S) # {}
<1> DEFINE Ahead == {t[x] : x \in DOMAIN t \cap S}
           R == StrictSubsetOrdering(DOMAIN t)
<1>1. Ahead # {} /\ Ahead \subseteq SUBSET DOMAIN t
  BY DEF IsTbl
<1>2. IsWellFoundedOn(R, SUBSET DOMAIN t)
  BY FS_StrictSubsetOrderingWellFounded, FS_FiniteSubsetsOfFinite
<1>3. PICK A \in Ahead : \A B \in Ahead : ~(<<B, A>> \in R)
  <2> HIDE DEF Ahead, R
  <2> QED
    BY <1>1, <1>2, WFMin
<1>4. PICK x \in DOMAIN t \cap S : A = t[x]
  OBVIOUS
<1>5. ASSUME NEW y \in t[x] \cap S PROVE FALSE
  <2>1. y \in DOMAIN t /\ t[y] \subseteq t[x] /\ t[y] # t[x]
    BY DEF IsTbl
  <2>2. <<t[y], t[x]>> \in R
    BY <2>1, <1>1 DEF StrictSubsetOrdering
  <2> QED
    BY <1>3, <1>4, <2>1, <2>2
<1> QED
  BY <1>4, <1>5 DEF FirstOf

\* TBL_FIRST of a finite list that is not empty is an entry, and the only one.
LEMMA FirstExists ==
  ASSUME NEW E, NEW t, IsTbl(t, E), IsFiniteSet(DOMAIN t), DOMAIN t # {}
  PROVE  \E x \in DOMAIN t : First(t) = {x}
<1>1. First(t) = FirstOf(t, DOMAIN t)
  BY DEF First, FirstOf, IsTbl
<1>2. PICK x : x \in FirstOf(t, DOMAIN t)
  BY FirstOfExists
<1>3. \A y \in FirstOf(t, DOMAIN t) : y = x
  BY <1>2, FirstOfUnique
<1> QED
  BY <1>1, <1>2, <1>3 DEF FirstOf

\* Moving an entry to the tail keeps the list well formed and its contents.
LEMMA MoveToTailIsTbl ==
  ASSUME NEW E, NEW t, IsTbl(t, E), NEW e \in DOMAIN t
  PROVE  /\ IsTbl(MoveToTail(t, e), E)
         /\ DOMAIN MoveToTail(t, e) = DOMAIN t
<1>1. /\ IsTbl(Without(t, {e}), E)
      /\ DOMAIN Without(t, {e}) = DOMAIN t \ {e}
  BY WithoutIsTbl
<1>2. e \in E
  BY DEF IsTbl
<1>3. /\ IsTbl(AddTail(Without(t, {e}), e), E)
      /\ DOMAIN AddTail(Without(t, {e}), e) = (DOMAIN t \ {e}) \cup {e}
  BY <1>1, <1>2, AddTailIsTbl
<1> QED
  BY <1>3 DEF MoveToTail

----------------------------------------------------------------------------
(* Loops. *)

\* Every nonempty set of natural numbers has a least element: induction by the
\* first number for which a claim would be wrong.
LEMMA LeastElement ==
  ASSUME NEW T \in SUBSET Nat, T # {}
  PROVE  \E m \in T : \A k \in T : m <= k
<1> DEFINE R == {ss \in Nat \X Nat : ss[1] < ss[2]}
<1>1. IsWellFoundedOn(R, Nat)
  BY NatLessThanWellFounded DEF OpToRel
<1>2. PICK m \in T : \A k \in T : ~(<<k, m>> \in R)
  <2> HIDE DEF R
  <2> QED
    BY <1>1, WFMin
<1>3. ASSUME NEW k \in T PROVE m <= k
  <2>1. k \in Nat /\ m \in Nat
    OBVIOUS
  <2>2. k < m => <<k, m>> \in R
    BY <2>1
  <2> QED
    BY <1>2, <2>1, <2>2
<1> QED
  BY <1>3

\* A loop of m rounds on the states X, and its run from x0.
IsLoop(step, m, X) == m \in Nat /\ step \in [1..m -> [X -> X]]
IsRun(g, step, m, X, x0) ==
  g \in [0..m -> X] /\ g[0] = x0 /\ \A i \in 1..m : g[i] = step[i][g[i - 1]]

\* A loop has a run: for the first number of rounds without one, the run of a
\* round less could be continued.
LEMMA RunExists ==
  ASSUME NEW X, NEW x0 \in X, NEW m, NEW step, IsLoop(step, m, X)
  PROVE  \E g : IsRun(g, step, m, X, x0)
<1> USE DEF IsLoop, IsRun
<1> DEFINE Runs(k) == {g \in [0..k -> X] : g[0] = x0 /\ \A i \in 1..k : g[i] = step[i][g[i - 1]]}
           T == {k \in 0..m : Runs(k) = {}}
<1> SUFFICES Runs(m) # {}
  OBVIOUS
<1> SUFFICES ASSUME Runs(m) = {} PROVE FALSE
  OBVIOUS
<1>1. T \in SUBSET Nat /\ m \in T
  OBVIOUS
<1>2. PICK k \in T : \A j \in T : k <= j
  <2> HIDE DEF T
  <2> QED
    BY <1>1, LeastElement
<1>3. k # 0
  <2>1. [i \in 0..0 |-> x0] \in Runs(0)
    OBVIOUS
  <2> QED
    BY <2>1
<1>4. k \in 0..m /\ k - 1 \in 0..m /\ k - 1 \notin T /\ k \in 1..m
  <2>1. k \in 0..m
    OBVIOUS
  <2> HIDE DEF T
  <2> QED
    BY <1>2, <1>3, <2>1
<1>5. PICK g \in Runs(k - 1) : TRUE
  BY <1>4
<1>6. PICK y : y = step[k][g[k - 1]]
  OBVIOUS
<1>7. g[k - 1] \in X /\ step[k] \in [X -> X]
  BY <1>4, <1>5
<1>8. y \in X
  BY <1>6, <1>7
<1> DEFINE h == [i \in 0..k |-> IF i = k THEN y ELSE g[i]]
<1>9. h \in [0..k -> X] /\ h[0] = x0
  BY <1>4, <1>5, <1>8
<1>10. ASSUME NEW i \in 1..k PROVE h[i] = step[i][h[i - 1]]
  <2>1. CASE i = k
    BY <2>1, <1>4, <1>6
  <2>2. CASE i # k
    BY <2>2, <1>4, <1>5
  <2> QED
    BY <2>1, <2>2
<1>11. h \in Runs(k)
  BY <1>9, <1>10
<1> QED
  BY <1>2, <1>11

\* What a round of a loop keeps holds after every round.
LEMMA RunInside ==
  ASSUME NEW X, NEW m \in Nat, NEW g, g[0] \in X,
         \A i \in 1..m : g[i - 1] \in X => g[i] \in X
  PROVE  g[m] \in X
<1> DEFINE T == {k \in 0..m : g[k] \notin X}
<1> SUFFICES ASSUME g[m] \notin X PROVE FALSE
  OBVIOUS
<1>1. T \in SUBSET Nat /\ m \in T
  OBVIOUS
<1>2. PICK k \in T : \A j \in T : k <= j
  <2> HIDE DEF T
  <2> QED
    BY <1>1, LeastElement
<1>3. k \in 1..m /\ k - 1 \in 0..m /\ k - 1 \notin T
  BY <1>2
<1> QED
  BY <1>2, <1>3

----------------------------------------------------------------------------
(* Paths. *)

\* The elements of a path.
LEMMA PathElements ==
  ASSUME NEW S, NEW s \in S, NEW d \in S, NEW r \in Seq(S)
  PROVE  /\ Path(s, r, d) \in Seq(S)
         /\ Len(Path(s, r, d)) = Len(r) + 2
         /\ Path(s, r, d)[1] = s
         /\ Path(s, r, d)[Len(r) + 2] = d
         /\ \A i \in 1..Len(r) : Path(s, r, d)[i + 1] = r[i]
<1>1. <<s>> \in Seq(S) /\ <<d>> \in Seq(S) /\ Len(<<s>>) = 1 /\ Len(<<d>>) = 1
      /\ <<s>>[1] = s /\ <<d>>[1] = d /\ Len(r) \in Nat
  OBVIOUS
<1> DEFINE h == <<s>> \o r
<1>2. /\ h \in Seq(S) /\ Len(h) = Len(r) + 1
      /\ h[1] = s /\ \A i \in 1..Len(r) : h[i + 1] = r[i]
  BY <1>1, ConcatProperties
<1> HIDE DEF h
<1>3. /\ h \o <<d>> \in Seq(S) /\ Len(h \o <<d>>) = Len(h) + 1
      /\ \A i \in 1..(Len(h) + 1) : (h \o <<d>>)[i] = IF i <= Len(h) THEN h[i] ELSE <<d>>[i - Len(h)]
  BY <1>1, <1>2, ConcatProperties
<1>4. Path(s, r, d) = h \o <<d>>
  BY DEF Path, h
<1> QED
  BY <1>1, <1>2, <1>3, <1>4

\* A path over links, as the pairs of its neighbours.
LEMMA PathOverLinks ==
  ASSUME NEW S, NEW p \in Seq(S), NEW L
  PROVE  PathLinks(p) \subseteq L <=> \A i \in 1..(Len(p) - 1) : <<p[i], p[i + 1]>> \in L
  BY DEF PathLinks

\* A walk from s to d over the links L; it may visit a node twice.
IsWalk(w, S, L, s, d) ==
  /\ w \in Seq(S) /\ Len(w) >= 2 /\ w[1] = s /\ w[Len(w)] = d
  /\ \A i \in 1..(Len(w) - 1) : <<w[i], w[i + 1]>> \in L

\* A walk that visits a node twice has a shortcut.
LEMMA CutWalk ==
  ASSUME NEW S, NEW L, NEW s, NEW d, s # d, NEW w, IsWalk(w, S, L, s, d),
         NEW i \in 1..Len(w), NEW j \in 1..Len(w), i < j, w[i] = w[j]
  PROVE  \E q : IsWalk(q, S, L, s, d) /\ Len(q) < Len(w)
<1>1. /\ w \in Seq(S) /\ Len(w) \in Nat /\ w[1] = s /\ w[Len(w)] = d
      /\ \A k \in 1..(Len(w) - 1) : <<w[k], w[k + 1]>> \in L
      /\ \A k \in 1..Len(w) : w[k] \in S
  BY DEF IsWalk
<1> DEFINE c == j - i
           m == Len(w) - c
           q == [k \in 1..m |-> IF k <= i THEN w[k] ELSE w[k + c]]
<1>2. c \in Nat /\ c >= 1 /\ m \in Nat /\ m >= i /\ i >= 1 /\ i + c = j /\ m + c = Len(w) /\ m < Len(w)
  BY <1>1
<1> HIDE DEF c, m
<1>3. \A k \in 1..m : (IF k <= i THEN w[k] ELSE w[k + c]) \in S
  BY <1>1, <1>2
<1>4. /\ q \in Seq(S) /\ Len(q) = m
      /\ \A k \in 1..m : q[k] = IF k <= i THEN w[k] ELSE w[k + c]
  BY <1>2, <1>3
<1> HIDE DEF q
<1>5. q[1] = s
  BY <1>1, <1>2, <1>4
<1>6. q[m] = d
  <2>1. CASE m = i
    <3>1. j = Len(w)
      BY <2>1, <1>2
    <3> QED
      BY <2>1, <3>1, <1>1, <1>2, <1>4
  <2>2. CASE m # i
    BY <2>2, <1>1, <1>2, <1>4
  <2> QED
    BY <2>1, <2>2
<1>7. m >= 2
  BY <1>2, <1>5, <1>6
<1>8. ASSUME NEW k \in 1..(m - 1) PROVE <<q[k], q[k + 1]>> \in L
  <2>1. k \in 1..m /\ k + 1 \in 1..m
    BY <1>2
  <2>2. CASE k < i
    <3>1. q[k] = w[k] /\ q[k + 1] = w[k + 1] /\ k \in 1..(Len(w) - 1)
      BY <2>1, <2>2, <1>1, <1>2, <1>4
    <3> QED
      BY <3>1, <1>1
  <2>3. CASE k = i
    <3>1. q[k] = w[j] /\ q[k + 1] = w[(k + 1) + c] /\ (k + 1) + c = j + 1 /\ j \in 1..(Len(w) - 1)
      BY <2>1, <2>3, <1>1, <1>2, <1>4
    <3>2. <<w[j], w[j + 1]>> \in L
      BY <3>1, <1>1
    <3> QED
      BY <3>1, <3>2
  <2>4. CASE k > i
    <3>1. /\ q[k] = w[k + c] /\ q[k + 1] = w[(k + 1) + c] /\ (k + 1) + c = (k + c) + 1
          /\ k + c \in 1..(Len(w) - 1)
      BY <2>1, <2>4, <1>1, <1>2, <1>4
    <3>2. <<w[k + c], w[(k + c) + 1]>> \in L
      BY <3>1, <1>1
    <3> QED
      BY <3>1, <3>2
  <2> QED
    BY <2>2, <2>3, <2>4, <1>2
<1>9. IsWalk(q, S, L, s, d)
  BY <1>4, <1>5, <1>6, <1>7, <1>8 DEF IsWalk
<1> QED
  BY <1>2, <1>4, <1>9

\* Where there is a walk there is one that visits no node twice: a shortest.
LEMMA SimpleWalk ==
  ASSUME NEW S, NEW L, NEW s, NEW d, s # d, NEW v, IsWalk(v, S, L, s, d)
  PROVE  \E w : /\ IsWalk(w, S, L, s, d)
                /\ \A i, j \in 1..Len(w) : w[i] = w[j] => i = j
                /\ Len(w) <= Len(v)
<1> DEFINE T == {k \in Nat : \E w : IsWalk(w, S, L, s, d) /\ Len(w) = k}
<1>1. T \in SUBSET Nat /\ T # {}
  <2>1. Len(v) \in Nat
    BY DEF IsWalk
  <2> QED
    BY <2>1
<1>2. PICK m \in T : \A k \in T : m <= k
  <2> HIDE DEF T
  <2> QED
    BY <1>1, LeastElement
<1>3. PICK w : IsWalk(w, S, L, s, d) /\ Len(w) = m
  OBVIOUS
<1>4. ASSUME NEW i \in 1..Len(w), NEW j \in 1..Len(w), i < j, w[i] = w[j] PROVE FALSE
  <2>1. PICK q : IsWalk(q, S, L, s, d) /\ Len(q) < Len(w)
    BY <1>3, <1>4, CutWalk
  <2>2. Len(q) \in Nat
    BY <2>1 DEF IsWalk
  <2>3. Len(q) \in T
    BY <2>1, <2>2
  <2> QED
    BY <1>2, <1>3, <2>1, <2>2, <2>3
<1>5. ASSUME NEW i \in 1..Len(w), NEW j \in 1..Len(w), w[i] = w[j] PROVE i = j
  BY <1>4, <1>5
<1>6. Len(v) \in T
  <2>1. Len(v) \in Nat
    BY DEF IsWalk
  <2> QED
    BY <2>1
<1> QED
  BY <1>2, <1>3, <1>5, <1>6

\* A finite set of links has finitely many ends.
LEMMA EndsFew ==
  ASSUME NEW L, IsFiniteSet(L), NEW E
  PROVE  LET others == ({l[1] : l \in L} \cup {l[2] : l \in L}) \ E
         IN  IsFiniteSet(others) /\ Cardinality(others) \in Nat
<1> DEFINE others == ({l[1] : l \in L} \cup {l[2] : l \in L}) \ E
<1>1. IsFiniteSet({l[1] : l \in L}) /\ IsFiniteSet({l[2] : l \in L})
  <2>1. PICK A, B : A = {l[1] : l \in L} /\ B = {l[2] : l \in L}
    OBVIOUS
  <2>2. PICK f, g : f = [l \in L |-> l[1]] /\ g = [l \in L |-> l[2]]
    OBVIOUS
  <2>3. f \in Surjection(L, A)
    BY <2>1, <2>2 DEF Surjection
  <2>4. g \in Surjection(L, B)
    BY <2>1, <2>2 DEF Surjection
  <2>5. IsFiniteSet(A)
    BY <2>3, FS_Surjection
  <2>6. IsFiniteSet(B)
    BY <2>4, FS_Surjection
  <2> QED
    BY <2>1, <2>5, <2>6, Zenon
<1>2. IsFiniteSet({l[1] : l \in L} \cup {l[2] : l \in L})
  BY <1>1, FS_Union
<1>3. IsFiniteSet(others)
  BY <1>2, FS_Difference DEF others
<1> QED
  BY <1>3, FS_CardinalityType

\* The hops of a walk that visits no node twice are a route.
LEMMA WalkIsRoute ==
  ASSUME NEW S, NEW L \in SUBSET (S \X S), IsFiniteSet(L), NEW s, NEW d, NEW w,
         IsWalk(w, S, L, s, d), \A i, j \in 1..Len(w) : w[i] = w[j] => i = j
  PROVE  \E o \in RoutesOver(L, s, d) : Len(o) = Len(w) - 2
<1> DEFINE others == ({l[1] : l \in L} \cup {l[2] : l \in L}) \ {s, d}
           m == Len(w) - 2
           r == [k \in 1..m |-> w[k + 1]]
<1>1. /\ w \in Seq(S) /\ Len(w) \in Nat /\ Len(w) >= 2 /\ w[1] = s /\ w[Len(w)] = d
      /\ \A k \in 1..(Len(w) - 1) : <<w[k], w[k + 1]>> \in L
      /\ \A k \in 1..Len(w) : w[k] \in S
  BY DEF IsWalk
<1>2. m \in Nat /\ m + 2 = Len(w)
  BY <1>1
<1> HIDE DEF m
<1>3. ASSUME NEW k \in 1..m PROVE w[k + 1] \in others
  <2>1. k \in 1..(Len(w) - 1) /\ k + 1 \in 1..Len(w) /\ 1 \in 1..Len(w) /\ Len(w) \in 1..Len(w)
    BY <1>2
  <2>2. <<w[k], w[k + 1]>> \in L
    BY <2>1, <1>1
  <2>3. w[k + 1] \in {l[2] : l \in L}
    BY <2>2
  <2>4. w[k + 1] # s /\ w[k + 1] # d
    BY <2>1, <1>1, <1>2
  <2> QED
    BY <2>3, <2>4
<1> HIDE DEF others
<1>4. /\ r \in Seq(others) /\ r \in Seq(S) /\ r \in [1..m -> others] /\ Len(r) = m
      /\ \A k \in 1..m : r[k] = w[k + 1]
  <2>1. \A k \in 1..m : w[k + 1] \in S
    BY <1>1, <1>2
  <2> QED
    BY <1>2, <1>3, <2>1
<1> HIDE DEF r
<1>5. IsFiniteSet(others) /\ Cardinality(others) \in Nat
  BY EndsFew DEF others
<1>6. m <= Cardinality(others)
  <2>1. IsFiniteSet(1..m) /\ Cardinality(1..m) = m
    <3>1. 1 \in Int /\ m \in Int
      BY <1>2
    <3>2. IsFiniteSet(1..m) /\ Cardinality(1..m) = IF 1 > m THEN 0 ELSE m - 1 + 1
      BY <3>1, FS_Interval
    <3> QED
      BY <1>2, <3>2
  <2>2. SUFFICES ASSUME Cardinality(others) < Cardinality(1..m) PROVE FALSE
    BY <2>1, <1>2, <1>5
  <2>3. PICK x \in 1..m, y \in 1..m : x # y /\ r[x] = r[y]
    BY <2>1, <2>2, <1>4, <1>5, FS_PigeonHole
  <2>4. w[x + 1] = w[y + 1] /\ x + 1 \in 1..Len(w) /\ y + 1 \in 1..Len(w)
    BY <2>3, <1>2, <1>4
  <2> QED
    BY <2>3, <2>4
<1>7. PathLinks(Path(s, r, d)) \subseteq L
  <2>1. s \in S /\ d \in S
    BY <1>1
  <2> DEFINE p == Path(s, r, d)
  <2>2. /\ p \in Seq(S) /\ Len(p) = m + 2 /\ p[1] = s /\ p[m + 2] = d
        /\ \A k \in 1..m : p[k + 1] = r[k]
    <3>1. r \in Seq(S) /\ Len(r) = m
      BY <1>4
    <3>2. /\ p \in Seq(S) /\ Len(p) = Len(r) + 2 /\ p[1] = s /\ p[Len(r) + 2] = d
          /\ \A k \in 1..Len(r) : p[k + 1] = r[k]
      <4>1. r \in Seq(S)
        BY <1>4
      <4>2. s \in S
        BY <2>1
      <4>3. d \in S
        BY <2>1
      <4> QED
        BY <4>1, <4>2, <4>3, PathElements
    <3> HIDE DEF p
    <3> QED
      BY <3>1, <3>2, Zenon
  <2> HIDE DEF p
  <2>3. \A k \in 1..(m + 2) : p[k] = w[k]
    <3> TAKE k \in 1..(m + 2)
    <3>1. CASE k = 1
      BY <3>1, <2>2, <1>1
    <3>2. CASE k = m + 2
      BY <3>2, <2>2, <1>1, <1>2
    <3>3. CASE k # 1 /\ k # m + 2
      <4>1. k - 1 \in 1..m /\ (k - 1) + 1 = k
        BY <3>3, <1>2
      <4>2. p[(k - 1) + 1] = r[k - 1] /\ r[k - 1] = w[(k - 1) + 1]
        BY <4>1, <2>2, <1>4
      <4> QED
        BY <4>1, <4>2
    <3> QED
      BY <3>1, <3>2, <3>3
  <2>4. \A k \in 1..(Len(p) - 1) : <<p[k], p[k + 1]>> \in L
    BY <2>2, <2>3, <1>1, <1>2
  <2> QED
    BY <2>2, <2>4, PathOverLinks DEF p
<1>8. r \in SeqsUpTo(others, Cardinality(others))
  BY <1>2, <1>4, <1>5, <1>6 DEF SeqsUpTo
<1>9. r \in RoutesOver(L, s, d)
  BY <1>7, <1>8 DEF RoutesOver, others
<1> QED
  BY <1>2, <1>4, <1>9

\* Where there is a walk a lookup finds a route.
LEMMA WalkIsFound ==
  ASSUME NEW S, NEW L \in SUBSET (S \X S), IsFiniteSet(L), NEW s, NEW d, s # d, NEW v,
         IsWalk(v, S, L, s, d)
  PROVE  ShortestRoutes(L, s, d) # {}
<1>1. PICK all : all = RoutesOver(L, s, d)
  OBVIOUS
<1>2. all # {}
  BY <1>1, SimpleWalk, WalkIsRoute
<1>3. \A o \in all : Len(o) \in Nat
  BY <1>1 DEF RoutesOver, SeqsUpTo
<1> DEFINE T == {Len(o) : o \in all}
<1>4. T \in SUBSET Nat /\ T # {}
  BY <1>2, <1>3
<1>5. PICK m \in T : \A k \in T : m <= k
  <2> HIDE DEF T
  <2> QED
    BY <1>4, LeastElement
<1>6. PICK r \in all : Len(r) = m
  OBVIOUS
<1>7. \A o \in all : Len(r) <= Len(o)
  BY <1>5, <1>6
<1> QED
  BY <1>1, <1>6, <1>7 DEF ShortestRoutes

----------------------------------------------------------------------------
(* Source routes. *)

\* The elements of a reversed route.
LEMMA RevElements ==
  ASSUME NEW S, NEW p \in Seq(S)
  PROVE  /\ Rev(p) \in Seq(S) /\ Len(Rev(p)) = Len(p)
         /\ \A i \in 1..Len(p) : Rev(p)[i] = p[Len(p) + 1 - i]
  BY DEF Rev, Reverse

\* Reversing a route makes no loop.
LEMMA RevSimple ==
  ASSUME NEW S, NEW p \in Seq(S), ~HasDuplicate(p)
  PROVE  ~HasDuplicate(Rev(p))
<1> SUFFICES ASSUME NEW i \in 1..Len(p), NEW j \in 1..Len(p), i # j, Rev(p)[i] = Rev(p)[j]
             PROVE  FALSE
  BY RevElements DEF HasDuplicate
<1>1. /\ Len(p) + 1 - i \in 1..Len(p) /\ Len(p) + 1 - j \in 1..Len(p)
      /\ Len(p) + 1 - i # Len(p) + 1 - j
  OBVIOUS
<1>2. p[Len(p) + 1 - i] = p[Len(p) + 1 - j]
  BY RevElements
<1> QED
  BY <1>1, <1>2 DEF HasDuplicate

\* The links of a route join nodes.
LEMMA LinksWithin ==
  ASSUME NEW S, NEW p \in Seq(S)
  PROVE  PathLinks(p) \subseteq S \X S
  BY DEF PathLinks

\* A new address at the end makes no loop.
LEMMA AppendSimple ==
  ASSUME NEW S, NEW p \in Seq(S), NEW n \in S, ~HasDuplicate(p), \A i \in 1..Len(p) : p[i] # n
  PROVE  /\ Append(p, n) \in Seq(S) /\ Len(Append(p, n)) = Len(p) + 1
         /\ ~HasDuplicate(Append(p, n))
         /\ Append(p, n)[Len(p) + 1] = n /\ \A i \in 1..Len(p) : Append(p, n)[i] = p[i]
  BY DEF HasDuplicate

\* Learning a route keeps a cache a set of links.
LEMMA LearnedLinks ==
  ASSUME NEW S, NEW c \in SUBSET (S \X S), NEW p \in Seq(S), NEW b
  PROVE  LearnRoute(c, p, b) \in SUBSET (S \X S)
<1>1. PathLinks(p) \subseteq S \X S
  BY LinksWithin
<1>2. PathLinks(Rev(p)) \subseteq S \X S
  BY RevElements, LinksWithin
<1> QED
  BY <1>1, <1>2 DEF LearnRoute

\* A route found in a cache leads from s to d and visits no node twice:
\* otherwise the shortcut would be a shorter one.
LEMMA FoundSimple ==
  ASSUME NEW S, IsFiniteSet(S), NEW L \in SUBSET (S \X S), NEW s \in S, NEW d \in S,
         NEW p \in Lookup(L, s, d)
  PROVE  /\ s # d /\ p \in Seq(S) /\ Len(p) >= 2
         /\ p[1] = s /\ p[Len(p)] = d /\ ~HasDuplicate(p)
<1>1. IsFiniteSet(L)
  <2>1. IsFiniteSet(S \X S)
    BY FS_Product
  <2> QED
    BY <2>1, FS_Subset
<1>2. PICK r \in ShortestRoutes(L, s, d) : p = Path(s, r, d)
  BY DEF Lookup
<1>3. /\ s # d /\ r \in RoutesOver(L, s, d)
      /\ \A o \in RoutesOver(L, s, d) : Len(r) <= Len(o)
  BY DEF ShortestRoutes
<1>4. PICK O \in SUBSET S, k \in Nat : r \in [1..k -> O] /\ PathLinks(Path(s, r, d)) \subseteq L
  <2> DEFINE O == ({l[1] : l \in L} \cup {l[2] : l \in L}) \ {s, d}
  <2>1. O \subseteq S
    OBVIOUS
  <2>2. r \in SeqsUpTo(O, Cardinality(O)) /\ PathLinks(Path(s, r, d)) \subseteq L
    BY <1>3 DEF RoutesOver
  <2>3. Cardinality(O) \in Nat
    BY <1>1, EndsFew
  <2> HIDE DEF O
  <2>4. PICK k \in 0..Cardinality(O) : r \in [1..k -> O]
    BY <2>2 DEF SeqsUpTo
  <2>5. O \in SUBSET S /\ k \in Nat
    BY <2>1, <2>3, <2>4
  <2> QED
    BY <2>2, <2>4, <2>5, Zenon
<1>5. r \in Seq(S) /\ Len(r) \in Nat
  BY <1>4
<1>6. p \in Seq(S) /\ Len(p) = Len(r) + 2 /\ p[1] = s /\ p[Len(p)] = d
  <2>1. /\ Path(s, r, d) \in Seq(S) /\ Len(Path(s, r, d)) = Len(r) + 2
        /\ Path(s, r, d)[1] = s /\ Path(s, r, d)[Len(r) + 2] = d
    <3>1. r \in Seq(S)
      BY <1>5
    <3> QED
      BY <3>1, PathElements
  <2> QED
    BY <1>2, <2>1, Zenon
<1>7. IsWalk(p, S, L, s, d)
  BY <1>2, <1>4, <1>5, <1>6, PathOverLinks DEF IsWalk
<1>8. ASSUME NEW i \in 1..Len(p), NEW j \in 1..Len(p), i < j, p[i] = p[j] PROVE FALSE
  <2>1. PICK v : IsWalk(v, S, L, s, d) /\ Len(v) < Len(p)
    BY <1>3, <1>7, <1>8, CutWalk
  <2>2. PICK w : /\ IsWalk(w, S, L, s, d) /\ Len(w) <= Len(v)
                 /\ \A a, b \in 1..Len(w) : w[a] = w[b] => a = b
    BY <1>3, <2>1, SimpleWalk
  <2>3. PICK o \in RoutesOver(L, s, d) : Len(o) = Len(w) - 2
    BY <1>1, <2>2, WalkIsRoute
  <2>4. Len(v) \in Nat /\ Len(w) \in Nat
    BY <2>1, <2>2 DEF IsWalk
  <2> QED
    BY <1>3, <1>5, <1>6, <2>1, <2>2, <2>3, <2>4
<1>9. ~HasDuplicate(p)
  <2> SUFFICES ASSUME NEW i \in 1..Len(p), NEW j \in 1..Len(p), i # j, p[i] = p[j] PROVE FALSE
    BY DEF HasDuplicate
  <2> QED
    BY <1>6, <1>8
<1> QED
  BY <1>3, <1>5, <1>6, <1>9

\* A route that goes on with another one.
LEMMA Continued ==
  ASSUME NEW S, NEW p \in Seq(S), NEW t \in Seq(S)
  PROVE  /\ p \o t \in Seq(S) /\ Len(p) <= Len(p \o t)
         /\ \A i \in 1..Len(p) : p[i] = (p \o t)[i]
<1>1. Len(p) \in Nat /\ Len(t) \in Nat
  OBVIOUS
<1>2. /\ p \o t \in Seq(S) /\ Len(p \o t) = Len(p) + Len(t)
      /\ \A i \in 1..(Len(p) + Len(t)) : (p \o t)[i] = IF i <= Len(p) THEN p[i] ELSE t[i - Len(p)]
  BY ConcatProperties
<1> QED
  BY <1>1, <1>2

\* Splitting a route without loops at one of its hops, at position k.
LEMMA SplitAt ==
  ASSUME NEW S, NEW p \in Seq(S), ~HasDuplicate(p), NEW k \in 2..(Len(p) - 1)
  PROVE  /\ Split(p, p[k]) \in Seq(S) /\ Len(Split(p, p[k])) = k
         /\ \A i \in 1..k : Split(p, p[k])[i] = p[i]
<1>1. {i \in 2..(Len(p) - 1) : p[i] = p[k]} = {k}
  BY DEF HasDuplicate
<1>2. Min({k}) = k
  BY DEF Min
<1>3. Split(p, p[k]) = SubSeq(p, 1, k)
  BY <1>1, <1>2 DEF Split
<1> QED
  BY <1>3

\* At another address it is empty.
LEMMA SplitElsewhere ==
  ASSUME NEW S, NEW p \in Seq(S), NEW a, \A k \in 2..(Len(p) - 1) : p[k] # a
  PROVE  Split(p, a) = <<>>
  BY DEF Split

\* The route as far as the frame has come, which dsr_srt_opt_recv caches.
Travelled(p, at) == IF Last(p) = p[at] THEN p ELSE Split(p, p[at])

\* Of a route without loops that is its beginning.
LEMMA TravelledRoute ==
  ASSUME NEW S, NEW p \in Seq(S), ~HasDuplicate(p), NEW at \in 2..Len(p)
  PROVE  /\ Travelled(p, at) \in Seq(S) /\ Len(Travelled(p, at)) = at
         /\ \A i \in 1..at : Travelled(p, at)[i] = p[i]
<1>1. CASE at = Len(p)
  BY <1>1 DEF Travelled, Last
<1>2. CASE at # Len(p)
  <2>1. at \in 2..(Len(p) - 1) /\ Last(p) # p[at]
    BY <1>2 DEF Last, HasDuplicate
  <2>2. Travelled(p, at) = Split(p, p[at])
    BY <2>1 DEF Travelled
  <2> QED
    BY <2>1, <2>2, SplitAt
<1> QED
  BY <1>1, <1>2
=============================================================================
