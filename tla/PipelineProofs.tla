---------------------------- MODULE PipelineProofs -----------------------------
(***************************************************************************)
(* Theorems about Pipeline, for any texts, any plans a model may answer with *)
(* and any outcomes of the sub-tasks.                                       *)
(***************************************************************************)
EXTENDS Pipeline, TLAPS, FiniteSetTheorems, WellFoundedInduction, SequenceTheorems

-----------------------------------------------------------------------------
(* Numbers, recursion and lists.                                           *)

\* Induction over the naturals, for a set of them.
LEMMA Induction ==
  ASSUME NEW T, 0 \in T, \A n \in Nat : n \in T => n + 1 \in T
  PROVE  Nat \subseteq T
<1> DEFINE Others == Nat \ T
<1> SUFFICES ASSUME Others # {} PROVE FALSE
  OBVIOUS
<1>1. \E x \in Others : \A y \in Others : ~ (<<y, x>> \in OpToRel(<, Nat))
  BY NatLessThanWellFounded, WFMin
<1>2. PICK x \in Others : \A y \in Others : ~ (y < x)
  BY <1>1 DEF OpToRel
<1>3. x # 0 /\ x - 1 \in Nat /\ x - 1 < x /\ (x - 1) + 1 = x
  BY <1>2
<1>4. x - 1 \in T
  BY <1>2, <1>3
<1> QED  BY <1>2, <1>3, <1>4

\* A set of naturals has a least element.
LEMMA Least ==
  ASSUME NEW T \in SUBSET Nat, T # {}
  PROVE  Min(T) \in T /\ \A y \in T : Min(T) <= y
<1>1. \E x \in T : \A y \in T : ~ (<<y, x>> \in OpToRel(<, Nat))
  BY NatLessThanWellFounded, WFMin
<1>2. PICK x \in T : \A y \in T : ~ (y < x)
  BY <1>1 DEF OpToRel
<1>3. \A y \in T : x <= y
  BY <1>2
<1> QED  BY <1>2, <1>3 DEF Min

\* A function of the first n naturals that is defined by recursion exists.
LEMMA Recursion ==
  ASSUME NEW X, NEW a \in X, NEW N \in Nat, NEW F \in [1 .. N -> [X -> X]]
  PROVE  \E f \in [0 .. N -> X] :
           f[0] = a /\ \A n \in 1 .. N : f[n] = F[n][f[n - 1]]
<1> DEFINE Upto(n) == {g \in [0 .. n -> X] :
                         /\ g[0] = a
                         /\ \A k \in 1 .. n : g[k] = F[k][g[k - 1]]}
           T == {n \in Nat : n <= N => Upto(n) # {}}
<1>1. 0 \in T
  <2>1. [k \in 0 .. 0 |-> a] \in Upto(0)
    OBVIOUS
  <2> QED  BY <2>1
<1>2. ASSUME NEW n \in Nat, n \in T PROVE n + 1 \in T
  <2> SUFFICES ASSUME n + 1 <= N PROVE Upto(n + 1) # {}
    OBVIOUS
  <2>1. PICK g \in Upto(n) : TRUE
    BY <1>2
  <2> DEFINE h == [k \in 0 .. n + 1 |-> IF k = n + 1 THEN F[n + 1][g[n]] ELSE g[k]]
  <2>2. g \in [0 .. n -> X] /\ g[n] \in X /\ F[n + 1] \in [X -> X]
    BY <2>1
  <2>3. h \in [0 .. n + 1 -> X] /\ h[0] = a
    BY <2>1, <2>2
  <2>4. ASSUME NEW k \in 1 .. n + 1 PROVE h[k] = F[k][h[k - 1]]
    <3>1. h[k - 1] = g[k - 1]
      OBVIOUS
    <3>2. CASE k = n + 1
      BY <3>1, <3>2
    <3>3. CASE k # n + 1
      <4>1. k \in 1 .. n
        BY <3>3
      <4>2. g[k] = F[k][g[k - 1]]
        BY <2>1, <4>1
      <4>3. h[k] = g[k]
        BY <4>1
      <4> QED  BY <3>1, <4>2, <4>3
    <3> QED  BY <3>2, <3>3
  <2> HIDE DEF h
  <2> QED  BY <2>3, <2>4
<1>3. N \in T
  <2> HIDE DEF T
  <2>1. Nat \subseteq T
    BY <1>1, <1>2, Induction
  <2> QED  BY <2>1
<1>4. PICK f \in Upto(N) : TRUE
  BY <1>3
<1> QED  BY <1>4

\* A function on the first n numbers is a list.
LEMMA FunctionIsList ==
  ASSUME NEW n \in Nat, NEW S, NEW f \in [1 .. n -> S]
  PROVE  f \in Seq(S) /\ Len(f) = n /\ DOMAIN f = 1 .. n
<1>1. f \in Seq(S)
  BY SeqDef
<1>2. Len(f) \in Nat /\ 1 .. Len(f) = 1 .. n
  BY <1>1, LenProperties
<1> QED  BY <1>1, <1>2

\* A strict subset of a finite set is smaller.
LEMMA Smaller ==
  ASSUME NEW S, IsFiniteSet(S), NEW T \in SUBSET S, S # T
  PROVE  /\ Cardinality(T) \in Nat /\ Cardinality(S) \in Nat
         /\ Cardinality(T) < Cardinality(S)
  BY FS_Subset, FS_CardinalityType

\* Ascending lists the elements of a set of numbers in their order.
LEMMA AscendingFacts ==
  ASSUME NEW S \in SUBSET Int, IsFiniteSet(S), NEW a, a = Ascending(S)
  PROVE  /\ Cardinality(S) \in Nat
         /\ a \in Seq(S) /\ Len(a) = Cardinality(S) /\ DOMAIN a = 1 .. Len(a)
         /\ ToSet(a) = S
         /\ \A i, j \in DOMAIN a : i < j => a[i] < a[j]
<1> DEFINE n == Cardinality(S)
           Below(x) == {y \in S : y < x}
           rank == [x \in S |-> Cardinality(Below(x))]
           R == {rank[x] : x \in S}
<1>1. n \in Nat
  BY FS_CardinalityType
<1>2. \A x \in S : rank[x] \in 0 .. n - 1
  <2> SUFFICES ASSUME NEW x \in S PROVE Cardinality(Below(x)) \in 0 .. n - 1
    OBVIOUS
  <2>1. Below(x) \in SUBSET S /\ x \notin Below(x)
    OBVIOUS
  <2> HIDE DEF Below
  <2> QED  BY <2>1, Smaller
<1>3. \A x, z \in S : x < z => rank[x] < rank[z]
  <2> SUFFICES ASSUME NEW x \in S, NEW z \in S, x < z
               PROVE  Cardinality(Below(x)) < Cardinality(Below(z))
    OBVIOUS
  <2>1. Below(z) \in SUBSET S /\ Below(x) \in SUBSET Below(z)
    <3>1. \A y \in S : y < x => y < z
      OBVIOUS
    <3> QED  BY <3>1
  <2>2. x \in Below(z) /\ x \notin Below(x)
    OBVIOUS
  <2>3. IsFiniteSet(Below(z))
    <3> HIDE DEF Below
    <3> QED  BY <2>1, FS_Subset
  <2> HIDE DEF Below
  <2> QED  BY <2>1, <2>2, <2>3, Smaller
<1>4. \A x, z \in S : x # z => rank[x] # rank[z]
  <2> SUFFICES ASSUME NEW x \in S, NEW z \in S, x # z PROVE rank[x] # rank[z]
    OBVIOUS
  <2>1. x < z \/ z < x
    OBVIOUS
  <2>2. rank[x] \in Int /\ rank[z] \in Int
    BY <1>2
  <2> HIDE DEF rank
  <2> QED  BY <1>3, <2>1, <2>2
<1>5. R = 0 .. n - 1
  <2>1. rank \in Bijection(S, R)
    <3> HIDE DEF Below
    <3> QED  BY <1>4 DEF Bijection, Injection, Surjection, IsInjective
  <2>2. Cardinality(R) = n
    <3> HIDE DEF R, rank
    <3> QED  BY <2>1, FS_Bijection DEF ExistsBijection
  <2>3. R \in SUBSET (0 .. n - 1)
    BY <1>2
  <2>4. IsFiniteSet(0 .. n - 1) /\ Cardinality(0 .. n - 1) = n
    BY <1>1, FS_Interval
  <2> HIDE DEF R
  <2> QED  BY <2>2, <2>3, <2>4, FS_Subset
<1>6. DOMAIN a = 1 .. n /\ \A i \in 1 .. n : a[i] \in S /\ rank[a[i]] = i - 1
  <2>1. \A i \in 1 .. n : (CHOOSE x \in S : rank[x] = i - 1) =
          CHOOSE x \in S : Cardinality({y \in S : y < x}) = i - 1
    BY Zenon
  <2>2. \A i \in 1 .. n : \E x \in S : rank[x] = i - 1
    <3> SUFFICES ASSUME NEW i \in 1 .. n PROVE i - 1 \in R
      OBVIOUS
    <3> HIDE DEF R
    <3> QED  BY <1>1, <1>5
  <2>3. DOMAIN a = 1 .. n
    BY DEF Ascending
  <2>4. \A i \in 1 .. n : a[i] = CHOOSE x \in S : Cardinality({y \in S : y < x}) = i - 1
    BY DEF Ascending
  <2> HIDE DEF rank, n
  <2> QED  BY <2>1, <2>2, <2>3, <2>4
<1> HIDE DEF rank, R, n
<1>7. a \in Seq(S) /\ Len(a) = n
  <2>1. a \in [1 .. n -> S]
    <3> DEFINE e(i) == CHOOSE x \in S : Cardinality({y \in S : y < x}) = i - 1
    <3>1. a = [i \in 1 .. n |-> e(i)]
      BY DEF Ascending, n
    <3> HIDE DEF e
    <3>2. a = [i \in DOMAIN a |-> a[i]]
      BY <3>1
    <3> QED  BY <1>6, <3>2
  <2> QED  BY <1>1, <2>1, FunctionIsList
<1>8. \A i, j \in 1 .. n : i < j => a[i] < a[j]
  <2> SUFFICES ASSUME NEW i \in 1 .. n, NEW j \in 1 .. n, i < j PROVE a[i] < a[j]
    OBVIOUS
  <2>1. a[i] \in S /\ a[j] \in S /\ rank[a[i]] = i - 1 /\ rank[a[j]] = j - 1
    BY <1>6
  <2>2. /\ i \in Int /\ j \in Int
        /\ a[i] \in Int /\ a[j] \in Int
    <3>1. i \in Int /\ j \in Int
      BY <1>1
    <3>2. a[i] \in S /\ a[j] \in S
      BY <2>1
    <3> QED  BY <3>1, <3>2
  <2>3. a[i] # a[j] /\ ~(a[j] < a[i])
    BY <1>3, <2>1, <2>2
  <2> QED  BY <2>2, <2>3
<1>9. \A x \in S : \E i \in 1 .. n : a[i] = x
  <2> SUFFICES ASSUME NEW x \in S PROVE \E i \in 1 .. n : a[i] = x
    OBVIOUS
  <2>1. rank[x] + 1 \in 1 .. n /\ (rank[x] + 1) - 1 = rank[x]
    BY <1>1, <1>2
  <2>2. a[rank[x] + 1] \in S /\ rank[a[rank[x] + 1]] = rank[x]
    BY <1>6, <2>1
  <2>3. a[rank[x] + 1] = x
    BY <1>4, <2>2
  <2> QED  BY <2>1, <2>3
<1> QED  BY <1>1, <1>6, <1>7, <1>8, <1>9 DEF n, ToSet

\* A finite set of numbers that is not empty has a least and a greatest element.
LEMMA Extremes ==
  ASSUME NEW S \in SUBSET Int, IsFiniteSet(S), S # {}
  PROVE  /\ Min(S) \in S /\ \A y \in S : Min(S) <= y
         /\ Max(S) \in S /\ \A y \in S : Max(S) >= y
<1> DEFINE a == Ascending(S)
           n == Cardinality(S)
<1>1. /\ n \in Nat
      /\ a \in Seq(S) /\ Len(a) = n /\ DOMAIN a = 1 .. n
      /\ ToSet(a) = S
      /\ \A i, j \in 1 .. n : i < j => a[i] < a[j]
  BY AscendingFacts
<1> HIDE DEF a, n
<1>2. \A y \in S : \E i \in 1 .. n : a[i] = y
  BY <1>1 DEF ToSet
<1>3. 1 \in 1 .. n /\ n \in 1 .. n
  <2>1. PICK y \in S, i \in 1 .. n : a[i] = y
    BY <1>2
  <2> QED  BY <1>1, <2>1
<1>4. a[1] \in S /\ a[n] \in S
  BY <1>1, <1>3, ElementOfSeq
<1>5. \A y \in S : a[1] <= y /\ y <= a[n]
  <2> SUFFICES ASSUME NEW y \in S PROVE a[1] <= y /\ y <= a[n]
    OBVIOUS
  <2>1. PICK i \in 1 .. n : a[i] = y
    BY <1>2
  <2>2. a[1] \in Int /\ a[n] \in Int /\ y \in Int
    BY <1>4
  <2>3. (i = 1 \/ a[1] < a[i]) /\ (i = n \/ a[i] < a[n])
    BY <1>1, <1>3
  <2> QED  BY <2>1, <2>2, <2>3
<1>6. \A y \in S : y \in Int
  OBVIOUS
<1> QED  BY <1>4, <1>5, <1>6 DEF Min, Max

\* The elements at some positions, in their order.
LEMMA KeepAtFacts ==
  ASSUME NEW X, NEW s \in Seq(X), NEW P \in SUBSET (DOMAIN s),
         NEW k, k = KeepAt(s, P)
  PROVE  /\ k \in Seq(X)
         /\ ToSet(k) = {s[i] : i \in P}
         /\ \E o \in [DOMAIN k -> P] :
              /\ \A n \in DOMAIN k : k[n] = s[o[n]]
              /\ \A m, n \in DOMAIN k : m < n => o[m] < o[n]
<1> DEFINE o == Ascending(P)
           c == Cardinality(P)
<1>1. DOMAIN s = 1 .. Len(s) /\ Len(s) \in Nat /\ s \in [1 .. Len(s) -> X]
  BY LenProperties
<1>2. P \in SUBSET Int /\ IsFiniteSet(P)
  <2>1. IsFiniteSet(1 .. Len(s)) /\ P \in SUBSET (1 .. Len(s))
    BY <1>1, FS_Interval
  <2> QED  BY <1>1, <2>1, FS_Subset
<1>3. /\ c \in Nat
      /\ o \in Seq(P) /\ Len(o) = c /\ DOMAIN o = 1 .. c
      /\ ToSet(o) = P
      /\ \A i, j \in 1 .. c : i < j => o[i] < o[j]
  BY <1>2, AscendingFacts
<1>4. k = [n \in DOMAIN o |-> s[o[n]]]
  BY DEF KeepAt
<1> HIDE DEF o, c
<1>5. o \in [1 .. c -> P]
  BY <1>3, LenProperties
<1>6. k \in [1 .. c -> X]
  BY <1>1, <1>3, <1>4, <1>5
<1>7. k \in Seq(X) /\ DOMAIN k = 1 .. c
  BY <1>3, <1>6, FunctionIsList
<1>8. \A n \in 1 .. c : k[n] = s[o[n]]
  BY <1>3, <1>4
<1>9. ToSet(k) = {s[i] : i \in P}
  <2>1. P = {o[n] : n \in 1 .. c}
    BY <1>3 DEF ToSet
  <2>2. {k[n] : n \in 1 .. c} = {s[o[n]] : n \in 1 .. c}
    BY <1>8
  <2>3. {s[o[n]] : n \in 1 .. c} = {s[i] : i \in {o[n] : n \in 1 .. c}}
    OBVIOUS
  <2> QED  BY <1>7, <2>1, <2>2, <2>3 DEF ToSet
<1> QED  BY <1>3, <1>5, <1>7, <1>8, <1>9

\* Each element of a list once, and all of them.
LEMMA DistinctFacts ==
  ASSUME NEW X, NEW s \in Seq(X), NEW d, d = Distinct(s)
  PROVE  /\ d \in Seq(X)
         /\ ToSet(d) = ToSet(s)
         /\ \A m, n \in DOMAIN d : d[m] = d[n] => m = n
<1> DEFINE first(i) == \A j \in 1 .. (i - 1) : s[j] # s[i]
           P == {i \in DOMAIN s : first(i)}
<1>1. d = KeepAt(s, P)
  BY DEF Distinct
<1>2. P \in SUBSET (DOMAIN s) /\ DOMAIN s = 1 .. Len(s) /\ Len(s) \in Nat
  BY LenProperties
<1>3. /\ d \in Seq(X)
      /\ ToSet(d) = {s[i] : i \in P}
      /\ \E o \in [DOMAIN d -> P] :
           /\ \A n \in DOMAIN d : d[n] = s[o[n]]
           /\ \A m, n \in DOMAIN d : m < n => o[m] < o[n]
  <2> HIDE DEF P
  <2> QED  BY <1>1, <1>2, KeepAtFacts
<1>4. \A i \in DOMAIN s : \E j \in P : s[j] = s[i]
  <2> SUFFICES ASSUME NEW i \in DOMAIN s PROVE \E j \in P : s[j] = s[i]
    OBVIOUS
  <2> DEFINE T == {j \in DOMAIN s : s[j] = s[i]}
  <2>1. T \in SUBSET Nat /\ T # {}
    BY <1>2
  <2>2. PICK j \in T : \A y \in T : j <= y
    <3> HIDE DEF T
    <3> QED  BY <2>1, Least
  <2>3. first(j)
    <3> SUFFICES ASSUME NEW y \in 1 .. (j - 1), s[y] = s[j] PROVE FALSE
      OBVIOUS
    <3>1. j \in Nat /\ j <= Len(s)
      BY <1>2
    <3>2. y \in DOMAIN s /\ y < j /\ y \in Nat
      BY <1>2, <3>1
    <3> QED  BY <2>2, <3>1, <3>2
  <2> QED  BY <2>2, <2>3
<1>5. ToSet(d) = ToSet(s)
  <2>1. {s[i] : i \in P} = {s[i] : i \in DOMAIN s}
    BY <1>4
  <2> QED  BY <1>3, <2>1 DEF ToSet
<1>6. PICK o \in [DOMAIN d -> P] :
        /\ \A n \in DOMAIN d : d[n] = s[o[n]]
        /\ \A m, n \in DOMAIN d : m < n => o[m] < o[n]
  BY <1>3
<1>7. DOMAIN d = 1 .. Len(d) /\ Len(d) \in Nat
  BY <1>3, LenProperties
<1>8. ASSUME NEW m \in DOMAIN d, NEW n \in DOMAIN d, d[m] = d[n] PROVE ~ (m < n)
  <2> SUFFICES ASSUME m < n PROVE FALSE
    OBVIOUS
  <2>1. o[m] \in P /\ o[n] \in P /\ o[m] < o[n] /\ s[o[m]] = s[o[n]]
    BY <1>6, <1>8
  <2>2. o[m] \in 1 .. (o[n] - 1)
    BY <1>2, <2>1
  <2> QED  BY <2>1, <2>2
<1>9. \A m, n \in DOMAIN d : m < n \/ n < m \/ m = n
  BY <1>7
<1> QED  BY <1>3, <1>5, <1>8, <1>9

\* The values of a list are finitely many.
LEMMA ImageFinite ==
  ASSUME NEW X, NEW s \in Seq(X)
  PROVE  IsFiniteSet(ToSet(s)) /\ Cardinality(ToSet(s)) <= Len(s)
<1>1. DOMAIN s = 1 .. Len(s) /\ Len(s) \in Nat /\ s \in [1 .. Len(s) -> X]
  BY LenProperties
<1>2. s \in Surjection(1 .. Len(s), ToSet(s))
  BY <1>1 DEF Surjection, ToSet
<1>3. IsFiniteSet(1 .. Len(s)) /\ Cardinality(1 .. Len(s)) = Len(s)
  BY <1>1, FS_Interval
<1> QED  BY <1>2, <1>3, FS_Surjection

-----------------------------------------------------------------------------
(* The order of a plan: _order_by_dependencies.                             *)

Tasks == [id : Int, deps : Seq(Int)]
           \cup [id : Int, deps : Seq(Int), first : Int, last : Int, context : Text]

Ready(p, s) == {t \in Ids(p) \ ToSet(s) : Released(p, ToSet(s), t)}
Longer(p, s) == IF Ready(p, s) = {} THEN s ELSE Append(s, Min(Ready(p, s)))

Before(s, i) == {s[j] : j \in 1 .. (i - 1)}

\* Each identifier comes once, when what is before it releases it, and no
\* smaller one is released then.
Sorted(p, s) ==
  /\ s \in Seq(Ids(p))
  /\ \A i, j \in DOMAIN s : s[i] = s[j] => i = j
  /\ \A i \in DOMAIN s :
       /\ Released(p, Before(s, i), s[i])
       /\ \A t \in Ids(p) \ Before(s, i) : Released(p, Before(s, i), t) => s[i] <= t

\* There are at most as many identifiers as sub-tasks.
LEMMA IdsFinite ==
  ASSUME NEW p \in Seq(Tasks)
  PROVE  /\ Ids(p) \in SUBSET Int /\ IsFiniteSet(Ids(p))
         /\ Cardinality(Ids(p)) \in Nat /\ Cardinality(Ids(p)) <= Len(p)
<1> DEFINE q == [i \in DOMAIN p |-> p[i].id]
<1>1. DOMAIN p = 1 .. Len(p) /\ Len(p) \in Nat /\ p \in [1 .. Len(p) -> Tasks]
  BY LenProperties
<1>2. \A r \in Tasks : r.id \in Int
  BY DEF Tasks
<1>3. q \in [1 .. Len(p) -> Int]
  BY <1>1, <1>2
<1>4. q \in Seq(Int) /\ Len(q) = Len(p)
  BY <1>1, <1>3, FunctionIsList
<1>5. Ids(p) = ToSet(q)
  BY DEF Ids, ToSet
<1>6. ToSet(q) \in SUBSET Int
  BY <1>1, <1>3 DEF ToSet
<1> HIDE DEF q
<1> QED  BY <1>4, <1>5, <1>6, ImageFinite, FS_CardinalityType

\* The smallest of those that are ready is one of them.
LEMMA ReadyFacts ==
  ASSUME NEW p \in Seq(Tasks), NEW s, Ready(p, s) # {}
  PROVE  /\ Min(Ready(p, s)) \in Ready(p, s)
         /\ Ready(p, s) \in SUBSET Ids(p)
         /\ \A t \in Ready(p, s) : Min(Ready(p, s)) <= t
<1>1. Ready(p, s) \in SUBSET Ids(p)
  BY DEF Ready
<1>2. Ready(p, s) \in SUBSET Int /\ IsFiniteSet(Ready(p, s))
  BY <1>1, IdsFinite, FS_Subset
<1> QED  BY <1>1, <1>2, Extremes

\* One round of the loop keeps the order sorted.
LEMMA LongerSorted ==
  ASSUME NEW p \in Seq(Tasks), NEW s, Sorted(p, s)
  PROVE  /\ Sorted(p, Longer(p, s))
         /\ Ready(p, s) # {} => Len(Longer(p, s)) = Len(s) + 1
<1>1. CASE Ready(p, s) = {}
  BY <1>1 DEF Longer
<1>2. CASE Ready(p, s) # {}
  <2> DEFINE x == Min(Ready(p, s))
             u == Append(s, x)
             n == Len(s)
  <2>1. /\ x \in Ids(p) /\ x \notin ToSet(s) /\ Released(p, ToSet(s), x)
        /\ \A t \in Ids(p) \ ToSet(s) : Released(p, ToSet(s), t) => x <= t
    BY <1>2, ReadyFacts DEF Ready
  <2>2. /\ s \in Seq(Ids(p)) /\ n \in Nat /\ DOMAIN s = 1 .. n
    BY LenProperties DEF Sorted
  <2>3. Longer(p, s) = u
    BY <1>2 DEF Longer
  <2> HIDE DEF x
  <2>4. /\ u \in Seq(Ids(p)) /\ Len(u) = n + 1 /\ DOMAIN u = 1 .. (n + 1)
        /\ \A i \in 1 .. n : u[i] = s[i]
        /\ u[n + 1] = x
    BY <2>1, <2>2, AppendProperties, LenProperties
  <2> HIDE DEF u, n
  <2>5. Before(u, n + 1) = ToSet(s)
    <3>1. (n + 1) - 1 = n
      BY <2>2
    <3> QED  BY <2>2, <2>4, <3>1 DEF Before, ToSet
  <2>6. ASSUME NEW i \in 1 .. n PROVE Before(u, i) = Before(s, i)
    <3>1. \A j \in 1 .. (i - 1) : j \in 1 .. n
      BY <2>2
    <3> QED  BY <2>4, <3>1 DEF Before
  <2>7. \A i, j \in DOMAIN u : u[i] = u[j] => i = j
    <3>1. \A i \in 1 .. n : u[i] # x
      BY <2>1, <2>2, <2>4 DEF ToSet
    <3>2. \A i \in 1 .. (n + 1) : i \in 1 .. n \/ i = n + 1
      BY <2>2
    <3> QED  BY <2>2, <2>4, <3>1, <3>2 DEF Sorted
  <2>8. ASSUME NEW i \in DOMAIN u
        PROVE  /\ Released(p, Before(u, i), u[i])
               /\ \A t \in Ids(p) \ Before(u, i) : Released(p, Before(u, i), t) => u[i] <= t
    <3>1. CASE i = n + 1
      BY <2>1, <2>4, <2>5, <3>1
    <3>2. CASE i # n + 1
      <4>1. i \in 1 .. n
        BY <2>2, <2>4, <3>2
      <4> QED  BY <2>2, <2>4, <2>6, <4>1 DEF Sorted
    <3> QED  BY <3>1, <3>2
  <2>9. Sorted(p, u)
    BY <2>4, <2>7, <2>8 DEF Sorted
  <2> QED  BY <2>3, <2>4, <2>9 DEF n
<1> QED  BY <1>1, <1>2

\* The rounds of the loop, one after the other.
LEMMA KahnUnfolds ==
  ASSUME NEW p \in Seq(Tasks)
  PROVE  \E f : /\ f[0] = <<>> /\ f[Cardinality(Ids(p))] = KahnOrder(p)
                /\ \A n \in 1 .. Cardinality(Ids(p)) : f[n] = Longer(p, f[n - 1])
<1> DEFINE N == Cardinality(Ids(p))
           X == Seq(Ids(p))
           F == [n \in 1 .. N |-> [s \in X |-> Longer(p, s)]]
           Unfolds(g) == g = [n \in 0 .. N |-> IF n = 0 THEN <<>> ELSE Longer(p, g[n - 1])]
<1>1. N \in Nat
  BY IdsFinite
<1>2. \A s \in X : Longer(p, s) \in X
  <2> SUFFICES ASSUME NEW s \in X PROVE Longer(p, s) \in X
    OBVIOUS
  <2>1. CASE Ready(p, s) = {}
    BY <2>1 DEF Longer
  <2>2. CASE Ready(p, s) # {}
    <3>1. Min(Ready(p, s)) \in Ids(p)
      BY <2>2, ReadyFacts
    <3> QED  BY <2>2, <3>1, AppendProperties DEF Longer
  <2> QED  BY <2>1, <2>2
<1>3. <<>> \in X
  BY EmptySeq
<1> HIDE DEF X, N
<1>4. F \in [1 .. N -> [X -> X]]
  BY <1>2
<1>5. PICK f \in [0 .. N -> X] :
        f[0] = <<>> /\ \A n \in 1 .. N : f[n] = F[n][f[n - 1]]
  <2> DEFINE none == <<>>
  <2>1. none \in X
    BY <1>3
  <2> HIDE DEF F, none
  <2>2. \E f \in [0 .. N -> X] :
          f[0] = none /\ \A n \in 1 .. N : f[n] = F[n][f[n - 1]]
    BY <1>1, <1>4, <2>1, Recursion
  <2> QED  BY <2>2 DEF none
<1>6. ASSUME NEW n \in 0 .. N, n # 0 PROVE f[n] = Longer(p, f[n - 1])
  <2>1. n \in 1 .. N /\ n - 1 \in 0 .. N
    BY <1>1, <1>6
  <2>2. f[n - 1] \in X
    BY <1>5, <2>1
  <2> QED  BY <1>5, <2>1, <2>2
<1>7. Unfolds(f)
  <2> HIDE DEF F
  <2> QED  BY <1>5, <1>6
<1> DEFINE g == CHOOSE h : Unfolds(h)
<1>8. KahnOrder(p) = g[N]
  BY DEF KahnOrder, Longer, Ready, N
<1>9. Unfolds(g)
  <2> HIDE DEF Unfolds
  <2> QED  BY <1>7
<1> HIDE DEF g
<1>10. g[0] = <<>>
  BY <1>1, <1>9
<1>11. \A n \in 1 .. N : g[n] = Longer(p, g[n - 1])
  <2> SUFFICES ASSUME NEW n \in 1 .. N PROVE g[n] = Longer(p, g[n - 1])
    OBVIOUS
  <2>1. n \in 0 .. N /\ n # 0
    BY <1>1
  <2> QED  BY <1>9, <2>1
<1> QED  BY <1>8, <1>10, <1>11 DEF N

\* What the loop leaves behind: a sorted order to which nothing can be added.
LEMMA KahnFacts ==
  ASSUME NEW p \in Seq(Tasks)
  PROVE  Sorted(p, KahnOrder(p)) /\ Ready(p, KahnOrder(p)) = {}
<1> DEFINE N == Cardinality(Ids(p))
<1>1. N \in Nat /\ IsFiniteSet(Ids(p))
  BY IdsFinite
<1>2. PICK f : /\ f[0] = <<>> /\ f[N] = KahnOrder(p)
               /\ \A n \in 1 .. N : f[n] = Longer(p, f[n - 1])
  BY KahnUnfolds
<1> DEFINE Fine(n) == Sorted(p, f[n]) /\ (Len(f[n]) = n \/ Ready(p, f[n]) = {})
           T == {n \in Nat : n <= N => Fine(n)}
<1> HIDE DEF N
<1>3. Fine(0)
  <2>1. <<>> \in Seq(Ids(p)) /\ Len(<<>>) = 0 /\ DOMAIN <<>> = {}
    BY EmptySeq
  <2> QED  BY <1>2, <2>1 DEF Sorted
<1>4. ASSUME NEW n \in Nat, Fine(n), n + 1 <= N PROVE Fine(n + 1)
  <2>1. f[n + 1] = Longer(p, f[n])
    <3>1. n + 1 \in 1 .. N /\ (n + 1) - 1 = n
      BY <1>1, <1>4
    <3> QED  BY <1>2, <3>1
  <2>2. Sorted(p, f[n + 1]) /\ (Ready(p, f[n]) # {} => Len(f[n + 1]) = Len(f[n]) + 1)
    BY <1>4, <2>1, LongerSorted
  <2>3. CASE Ready(p, f[n]) = {}
    BY <2>1, <2>2, <2>3 DEF Longer
  <2>4. CASE Ready(p, f[n]) # {}
    BY <1>4, <2>2, <2>4
  <2> QED  BY <2>3, <2>4
<1>5. Fine(N)
  <2>1. 0 \in T
    BY <1>3
  <2>2. ASSUME NEW n \in Nat, n \in T PROVE n + 1 \in T
    <3> HIDE DEF Fine
    <3>1. n + 1 <= N => n <= N
      BY <1>1
    <3> QED  BY <1>4, <2>2, <3>1
  <2> HIDE DEF T
  <2>3. Nat \subseteq T
    BY <2>1, <2>2, Induction
  <2>4. N \in T
    BY <1>1, <2>3
  <2> QED  BY <1>1, <2>4 DEF T
<1>6. ASSUME Len(f[N]) = N PROVE Ready(p, f[N]) = {}
  <2> DEFINE s == f[N]
  <2>1. s \in Seq(Ids(p)) /\ \A i, j \in DOMAIN s : s[i] = s[j] => i = j
    BY <1>5 DEF Sorted
  <2>2. DOMAIN s = 1 .. N /\ s \in [1 .. N -> Ids(p)]
    BY <1>6, <2>1, LenProperties
  <2> HIDE DEF s
  <2>3. s \in Injection(1 .. N, Ids(p))
    BY <2>1, <2>2 DEF Injection, IsInjective
  <2>4. Cardinality(1 .. N) = N
    BY <1>1, FS_Interval
  <2>5. s \in Surjection(1 .. N, Ids(p))
    BY <1>1, <2>3, <2>4, FS_Injection DEF N
  <2>6. Ids(p) = ToSet(s)
    BY <2>2, <2>5 DEF Surjection, ToSet
  <2> QED  BY <2>6 DEF Ready, s
<1> QED  BY <1>2, <1>5, <1>6

\* The whole order: each identifier of the plan, once.
LEMMA OrderFacts ==
  ASSUME NEW p \in Seq(Tasks)
  PROVE  /\ OrderIds(p) \in Seq(Ids(p))
         /\ ToSet(OrderIds(p)) = Ids(p)
         /\ \A i, j \in DOMAIN OrderIds(p) : OrderIds(p)[i] = OrderIds(p)[j] => i = j
<1> DEFINE k == KahnOrder(p)
           R == Ids(p) \ ToSet(k)
           a == Ascending(R)
           o == OrderIds(p)
           m == Len(k)
           n == Len(a)
<1>1. k \in Seq(Ids(p)) /\ \A i, j \in DOMAIN k : k[i] = k[j] => i = j
  BY KahnFacts DEF Sorted
<1>2. R \in SUBSET Int /\ IsFiniteSet(R) /\ R \in SUBSET Ids(p)
  BY IdsFinite, FS_Subset
<1>3. /\ a \in Seq(R) /\ DOMAIN a = 1 .. n /\ n \in Nat /\ ToSet(a) = R
      /\ \A i, j \in DOMAIN a : i < j => a[i] < a[j]
  <2> HIDE DEF R
  <2> QED  BY <1>2, AscendingFacts
<1>4. o = k \o a
  BY DEF OrderIds
<1>5. DOMAIN k = 1 .. m /\ m \in Nat
  BY <1>1, LenProperties
<1>6. \A x \in ToSet(k) : x \in Ids(p)
  BY <1>1, <1>5, ElementOfSeq DEF ToSet
<1> HIDE DEF a, k, o
<1>7. a \in Seq(Ids(p))
  BY <1>2, <1>3, SeqMonotonic
<1>8. /\ o \in Seq(Ids(p)) /\ Len(o) = m + n
      /\ \A i \in 1 .. (m + n) : o[i] = IF i <= m THEN k[i] ELSE a[i - m]
  BY <1>1, <1>4, <1>7, ConcatProperties
<1>9. DOMAIN o = 1 .. (m + n)
  BY <1>8, LenProperties
<1> HIDE DEF m, n
<1>10. /\ \A i \in 1 .. m : i \in DOMAIN o /\ o[i] = k[i]
       /\ \A i \in 1 .. n : m + i \in DOMAIN o /\ o[m + i] = a[i]
  <2>1. \A i \in 1 .. m : i \in 1 .. (m + n) /\ i <= m
    BY <1>3, <1>5
  <2>2. \A i \in 1 .. n : m + i \in 1 .. (m + n) /\ ~(m + i <= m) /\ (m + i) - m = i
    BY <1>3, <1>5
  <2> QED  BY <1>8, <1>9, <2>1, <2>2
<1>11. \A i \in DOMAIN o : i \in 1 .. m \/ \E j \in 1 .. n : i = m + j
  <2> SUFFICES ASSUME NEW i \in 1 .. (m + n), i \notin 1 .. m
               PROVE  \E j \in 1 .. n : i = m + j
    BY <1>9
  <2>1. i - m \in 1 .. n /\ i = m + (i - m)
    BY <1>3, <1>5
  <2> QED  BY <2>1
<1>12. \A x \in Ids(p) : \E i \in DOMAIN o : o[i] = x
  <2> SUFFICES ASSUME NEW x \in Ids(p) PROVE \E i \in DOMAIN o : o[i] = x
    OBVIOUS
  <2>1. CASE x \in ToSet(k)
    BY <1>5, <1>10, <2>1 DEF ToSet
  <2>2. CASE x \notin ToSet(k)
    <3>1. PICK i \in 1 .. n : a[i] = x
      BY <1>3, <2>2 DEF ToSet
    <3> QED  BY <1>10, <3>1
  <2> QED  BY <2>1, <2>2
<1>13. \A i \in DOMAIN o : o[i] \in Ids(p)
  BY <1>8, <1>9, ElementOfSeq
<1>14. ASSUME NEW i \in DOMAIN o, NEW j \in DOMAIN o, o[i] = o[j] PROVE i = j
  <2>1. \A c, d \in 1 .. n : a[c] = a[d] => c = d
    <3> SUFFICES ASSUME NEW c \in 1 .. n, NEW d \in 1 .. n, a[c] = a[d] PROVE c = d
      OBVIOUS
    <3>1. a[c] \in Int /\ a[d] \in Int
      BY <1>2, <1>3, ElementOfSeq
    <3>2. c \in Int /\ d \in Int /\ ~(c < d) /\ ~(d < c)
      BY <1>3, <3>1
    <3> QED  BY <3>2
  <2>2. \A c \in 1 .. m, d \in 1 .. n : k[c] # a[d]
    BY <1>3, <1>5 DEF ToSet
  <2> QED  BY <1>1, <1>5, <1>10, <1>11, <1>14, <2>1, <2>2
<1>15. ToSet(o) = Ids(p)
  BY <1>12, <1>13 DEF ToSet
<1> QED  BY <1>8, <1>14, <1>15 DEF o

-----------------------------------------------------------------------------
(* The results of a plan and their order.                                  *)

Outcomes == [id : Int, content : Contents \cup {Silent, Failure}]

\* One result for each sub-task, the same for those with the same identifier.
Answered(p, rs) ==
  /\ rs \in Seq(Outcomes)
  /\ Len(rs) = Len(p)
  /\ \A i \in DOMAIN rs : rs[i].id = p[i].id
  /\ \A i, j \in DOMAIN rs : rs[i].id = rs[j].id => rs[i] = rs[j]

\* The results have the identifiers of the plan.
LEMMA AnsweredIds ==
  ASSUME NEW p \in Seq(Tasks), NEW rs, Answered(p, rs)
  PROVE  /\ DOMAIN rs = 1 .. Len(rs) /\ Len(rs) \in Nat
         /\ DOMAIN rs = DOMAIN p
         /\ Ids(rs) = Ids(p)
         /\ \A i \in DOMAIN rs : rs[i] \in Outcomes
<1>1. DOMAIN rs = 1 .. Len(rs) /\ Len(rs) \in Nat /\ DOMAIN p = 1 .. Len(p)
  BY LenProperties DEF Answered
<1>2. DOMAIN rs = DOMAIN p
  BY <1>1 DEF Answered
<1>3. {rs[i].id : i \in DOMAIN rs} = {p[i].id : i \in DOMAIN rs}
  BY DEF Answered
<1>4. \A i \in DOMAIN rs : rs[i] \in Outcomes
  BY <1>1, ElementOfSeq DEF Answered
<1> QED  BY <1>1, <1>2, <1>3, <1>4 DEF Ids

\* The ordered results are the results, in the order of the identifiers.
LEMMA OrderedFacts ==
  ASSUME NEW p \in Seq(Tasks), NEW rs, Answered(p, rs),
         NEW o, o = OrderByDependencies(rs, p)
  PROVE  /\ o \in Seq(Outcomes)
         /\ ToSet(o) = ToSet(rs)
         /\ IdsOf(o) = OrderIds(p)
<1> DEFINE order == OrderIds(p)
           all(t) == {i \in DOMAIN rs : rs[i].id = t}
           n == Len(order)
<1>1. /\ order \in Seq(Ids(p)) /\ ToSet(order) = Ids(p)
      /\ DOMAIN order = 1 .. n /\ n \in Nat
  BY OrderFacts, LenProperties
<1>2. o = [k \in DOMAIN order |-> rs[Max(all(order[k]))]]
  BY DEF OrderByDependencies
<1>3. /\ DOMAIN rs = 1 .. Len(rs) /\ Len(rs) \in Nat /\ Ids(rs) = Ids(p)
      /\ \A i \in DOMAIN rs : rs[i] \in Outcomes
  BY AnsweredIds
<1>4. ASSUME NEW t \in Ids(p) PROVE Max(all(t)) \in all(t)
  <2>1. all(t) # {}
    BY <1>3 DEF Ids
  <2>2. all(t) \in SUBSET (1 .. Len(rs)) /\ IsFiniteSet(1 .. Len(rs))
    BY <1>3, FS_Interval
  <2> HIDE DEF all
  <2>3. all(t) \in SUBSET Int /\ IsFiniteSet(all(t))
    BY <1>3, <2>2, FS_Subset
  <2> QED  BY <2>1, <2>3, Extremes
<1> HIDE DEF order, n
<1>5. ASSUME NEW k \in 1 .. n
      PROVE  o[k] \in Outcomes /\ o[k] \in ToSet(rs) /\ o[k].id = order[k]
  <2>1. order[k] \in Ids(p)
    BY <1>1, ElementOfSeq DEF n
  <2>2. Max(all(order[k])) \in all(order[k]) /\ o[k] = rs[Max(all(order[k]))]
    BY <1>1, <1>2, <1>4, <2>1
  <2> QED  BY <1>3, <2>2 DEF ToSet
<1>6. DOMAIN o = 1 .. n /\ o = [k \in 1 .. n |-> o[k]]
  <2> HIDE DEF all
  <2> QED  BY <1>1, <1>2
<1>7. o \in Seq(Outcomes)
  <2>1. o \in [1 .. n -> Outcomes]
    BY <1>5, <1>6
  <2> QED  BY <1>1, <2>1, FunctionIsList
<1>8. \A i \in DOMAIN rs : \E k \in DOMAIN o : o[k] = rs[i]
  <2> SUFFICES ASSUME NEW i \in DOMAIN rs PROVE \E k \in DOMAIN o : o[k] = rs[i]
    OBVIOUS
  <2>1. rs[i].id \in ToSet(order)
    BY <1>1, <1>3 DEF Ids
  <2>2. PICK k \in 1 .. n : order[k] = rs[i].id
    BY <1>1, <2>1 DEF ToSet
  <2>3. PICK j \in DOMAIN rs : o[k] = rs[j]
    BY <1>5 DEF ToSet
  <2>4. rs[j].id = rs[i].id
    BY <1>5, <2>2, <2>3
  <2>5. rs[j] = rs[i]
    BY <2>4 DEF Answered
  <2> QED  BY <1>6, <2>3, <2>5
<1>9. ToSet(o) = ToSet(rs)
  BY <1>5, <1>6, <1>8 DEF ToSet
<1>10. IdsOf(o) = order
  <2>1. order = [k \in 1 .. n |-> order[k]]
    BY <1>1, LenProperties
  <2>2. IdsOf(o) = [k \in 1 .. n |-> o[k].id]
    BY <1>6 DEF IdsOf
  <2> QED  BY <1>5, <2>1, <2>2
<1> QED  BY <1>7, <1>9, <1>10 DEF order

-----------------------------------------------------------------------------
(* What a reply tells, whoever merged it.                                   *)

Failed(rs) == {rs[i].id : i \in {j \in DOMAIN rs : ~Succeeded(rs[j])}}

\* A reply over the results in any order lists them all.
LEMMA ReplyLists ==
  ASSUME NEW p \in Seq(Tasks), NEW rs, Answered(p, rs),
         NEW q \in Seq(Outcomes), ToSet(q) = ToSet(rs),
         NEW by, NEW cs, NEW words, NEW r, r = Reply(by, q, cs, words)
  PROVE  /\ ToSet(r.listed) = Ids(p)
         /\ r.failed = Failed(rs)
         /\ r.finish = "stop" <=> Failed(rs) = {}
<1>1. /\ DOMAIN rs = 1 .. Len(rs) /\ Ids(rs) = Ids(p)
  BY AnsweredIds
<1>2. /\ r.listed = IdsOf(q)
      /\ r.failed = {q[i].id : i \in DOMAIN q \ Good(q)}
      /\ r.finish = IF Good(q) = DOMAIN q THEN "stop" ELSE "partial"
  BY DEF Reply
<1>3. /\ \A i \in DOMAIN q : \E j \in DOMAIN rs : rs[j] = q[i]
      /\ \A i \in DOMAIN rs : \E j \in DOMAIN q : q[j] = rs[i]
  BY DEF ToSet
<1>4. ToSet(IdsOf(q)) = Ids(p)
  <2>1. ToSet(IdsOf(q)) = {q[i].id : i \in DOMAIN q}
    BY DEF ToSet, IdsOf
  <2>2. {q[i].id : i \in DOMAIN q} = {rs[i].id : i \in DOMAIN rs}
    BY <1>3
  <2> QED  BY <1>1, <2>1, <2>2 DEF Ids
<1>5. {q[i].id : i \in DOMAIN q \ Good(q)} = Failed(rs)
  BY <1>3 DEF Good, Failed
<1>6. Good(q) = DOMAIN q <=> Failed(rs) = {}
  <2>1. Good(q) = DOMAIN q <=> {q[i].id : i \in DOMAIN q \ Good(q)} = {}
    BY DEF Good
  <2> QED  BY <1>5, <2>1
<1> QED  BY <1>2, <1>4, <1>5, <1>6

\* A list that holds the elements of another one holds what is picked of it.
LEMMA TextIsTold ==
  ASSUME NEW q \in Seq(Outcomes), NEW i \in DOMAIN q, HasText(q[i])
  PROVE  /\ q[i].id \in ToSet(IdsOf(KeepAt(q, WithText(q))))
         /\ Succeeded(q[i])
<1> DEFINE k == KeepAt(q, WithText(q))
<1>1. WithText(q) \in SUBSET (DOMAIN q) /\ i \in WithText(q)
  BY DEF WithText
<1>2. ToSet(k) = {q[j] : j \in WithText(q)}
  BY <1>1, KeepAtFacts
<1> HIDE DEF k
<1>3. PICK n \in DOMAIN k : k[n] = q[i]
  BY <1>1, <1>2 DEF ToSet
<1>4. IdsOf(k)[n] = q[i].id /\ n \in DOMAIN IdsOf(k)
  BY <1>3 DEF IdsOf
<1>5. q[i].id \in ToSet(IdsOf(k))
  BY <1>4 DEF ToSet
<1>6. Succeeded(q[i])
  BY AggregationAssumption DEF HasText, Succeeded
<1> QED  BY <1>5, <1>6 DEF k

\* No sub-task is forgotten, by the rules or by a model.
LEMMA MergeTellsAll ==
  ASSUME NEW p \in Seq(Tasks), NEW rs, Answered(p, rs),
         NEW r, r = MergeByRules(rs, p) \/ r = MergeByLLM(rs)
  PROVE  /\ ToSet(r.listed) = Ids(p)
         /\ r.failed = Failed(rs)
         /\ r.finish = "stop" <=> Failed(rs) = {}
         /\ \A i \in DOMAIN rs : HasText(rs[i]) => rs[i].id \in ToSet(r.text)
<1>1. CASE r = MergeByLLM(rs)
  <2> DEFINE words == IdsOf(KeepAt(rs, WithText(rs)))
  <2>1. r = Reply("llm", rs, Conflicts(rs), words)
    BY <1>1 DEF MergeByLLM
  <2>2. r.text = words
    BY <2>1 DEF Reply
  <2>3. rs \in Seq(Outcomes)
    BY DEF Answered
  <2>4. \A i \in DOMAIN rs : HasText(rs[i]) => rs[i].id \in ToSet(words)
    BY <2>3, TextIsTold
  <2> HIDE DEF words
  <2> QED  BY <2>1, <2>2, <2>3, <2>4, ReplyLists
<1>2. CASE r = MergeByRules(rs, p)
  <2> DEFINE o == OrderByDependencies(rs, p)
             words == IF Good(o) = {} THEN Ascending(Ids(o)) ELSE IdsOf(o)
  <2>1. r = Reply("rules", o, Conflicts(o), words)
    BY <1>2 DEF MergeByRules
  <2>2. r.text = words
    BY <2>1 DEF Reply
  <2>3. o \in Seq(Outcomes) /\ ToSet(o) = ToSet(rs)
    BY OrderedFacts
  <2> HIDE DEF o
  <2>4. ASSUME NEW i \in DOMAIN rs, HasText(rs[i]) PROVE rs[i].id \in ToSet(words)
    <3>1. PICK k \in DOMAIN o : o[k] = rs[i]
      BY <2>3 DEF ToSet
    <3>2. Succeeded(o[k])
      BY <2>3, <2>4, <3>1, TextIsTold
    <3>3. words = IdsOf(o)
      BY <3>2 DEF Good
    <3> QED  BY <3>1, <3>3 DEF IdsOf, ToSet
  <2> HIDE DEF words
  <2> QED  BY <2>1, <2>2, <2>3, <2>4, ReplyLists
<1> QED  BY <1>1, <1>2

\* Two things are two.
LEMMA TwoElements ==
  ASSUME NEW a, NEW b, a # b
  PROVE  Cardinality({a} \cup {b}) = 2
<1> DEFINE n == Cardinality({a})
           m == Cardinality({a} \cup {b})
<1>1. IsFiniteSet({a}) /\ n = 1
  BY FS_Singleton
<1>2. b \notin {a}
  OBVIOUS
<1>3. m = n + 1
  BY <1>1, <1>2, FS_AddElement
<1> HIDE DEF n, m
<1>4. m = 2
  BY <1>1, <1>3
<1> QED  BY <1>4 DEF m

\* Among these conflicts are exactly those of two results.
Told(conflicts, one, other, both) ==
  /\ \A f \in Files :
       (/\ one.content.modifies /\ other.content.modifies
        /\ f \in ToSet(one.content.files) \cap ToSet(other.content.files))
         <=> \E c \in conflicts :
               "file" \in DOMAIN c /\ c.file = f /\ both \subseteq c.ids
  /\ \A d \in Opposites :
       (\/ d[1] \in one.content.says /\ d[2] \in other.content.says
        \/ d[2] \in one.content.says /\ d[1] \in other.content.says)
         <=> [pair |-> d, ids |-> both] \in conflicts

\* The conflicts of a list of results that tells apart two of them by their
\* identifiers.
LEMMA ConflictsExact ==
  ASSUME NEW q \in Seq(Outcomes),
         \A i, j \in DOMAIN q : q[i].id = q[j].id => q[i] = q[j],
         NEW i \in DOMAIN q, NEW j \in DOMAIN q, q[i].id # q[j].id,
         HasText(q[i]), HasText(q[j]),
         NEW both, both = {q[i].id, q[j].id}
  PROVE  Told(Conflicts(q), q[i], q[j], both)
<1>1. DOMAIN q = 1 .. Len(q) /\ Len(q) \in Nat /\ i # j
  BY LenProperties
<1>2. \A c \in FileConflicts(q) :
        DOMAIN c = {"file", "ids"} /\ c.ids = {q[k].id : k \in Modifiers(q, c.file)}
  BY DEF FileConflicts
<1>3. \A c \in Contradictions(q) : DOMAIN c = {"pair", "ids"}
  BY DEF Contradictions
<1>4. ASSUME NEW f \in Files,
             q[i].content.modifies, q[j].content.modifies,
             f \in ToSet(q[i].content.files) \cap ToSet(q[j].content.files)
      PROVE  \E c \in Conflicts(q) :
               "file" \in DOMAIN c /\ c.file = f /\ both \subseteq c.ids
  <2> DEFINE M == Modifiers(q, f)
             c == [file |-> f, ids |-> {q[k].id : k \in M}]
             mentioned == UNION {ToSet(q[k].content.files) : k \in WithText(q)}
  <2>1. i \in M /\ j \in M /\ M \in SUBSET (1 .. Len(q))
    BY <1>1, <1>4 DEF Modifiers
  <2>2. f \in mentioned
    BY <1>4 DEF WithText
  <2>3. Cardinality(M) >= 2
    <3>1. IsFiniteSet(1 .. Len(q))
      BY <1>1, FS_Interval
    <3>2. IsFiniteSet(M) /\ ({i} \cup {j}) \in SUBSET M
      <4> HIDE DEF M
      <4> QED  BY <2>1, <3>1, FS_Subset
    <3>3. Cardinality({i} \cup {j}) = 2
      BY <1>1, TwoElements
    <3> HIDE DEF M
    <3> QED  BY <3>2, <3>3, FS_Subset, FS_CardinalityType
  <2>4. c \in FileConflicts(q)
    BY <2>2, <2>3 DEF FileConflicts
  <2>5. both \subseteq c.ids /\ c.file = f /\ "file" \in DOMAIN c
    BY <2>1
  <2> QED  BY <2>4, <2>5 DEF Conflicts
<1>5. ASSUME NEW f \in Files, NEW c \in Conflicts(q),
             "file" \in DOMAIN c, c.file = f, both \subseteq c.ids
      PROVE  /\ q[i].content.modifies /\ q[j].content.modifies
             /\ f \in ToSet(q[i].content.files) \cap ToSet(q[j].content.files)
  <2>1. c \in FileConflicts(q)
    BY <1>3, <1>5 DEF Conflicts
  <2>2. \A x \in both : \E k \in Modifiers(q, f) : q[k].id = x
    BY <1>2, <1>5, <2>1
  <2>3. i \in Modifiers(q, f) /\ j \in Modifiers(q, f)
    <3>1. ASSUME NEW k \in Modifiers(q, f), NEW l \in DOMAIN q, q[k].id = q[l].id
          PROVE  l \in Modifiers(q, f)
      <4>1. k \in DOMAIN q /\ q[k] = q[l]
        BY <3>1 DEF Modifiers
      <4> QED  BY <3>1, <4>1 DEF Modifiers
    <3> QED  BY <2>2, <3>1
  <2> QED  BY <2>3 DEF Modifiers
<1> DEFINE Opposed(d, k, l) ==
             \/ Says(q[k], d[1]) /\ Says(q[l], d[2])
             \/ Says(q[k], d[2]) /\ Says(q[l], d[1])
           Found(x) == \E d \in Opposites, k, l \in WithText(q) :
                         /\ k < l /\ Opposed(d, k, l)
                         /\ x = [pair |-> d, ids |-> {q[k].id, q[l].id}]
<1>6. \A x : x \in Contradictions(q) <=> Found(x)
  <2>1. ASSUME NEW x \in Contradictions(q) PROVE Found(x)
    <3>1. PICK c \in Opposites \X WithText(q) \X WithText(q) :
            /\ c[2] < c[3] /\ Opposed(c[1], c[2], c[3])
            /\ x = [pair |-> c[1], ids |-> {q[c[2]].id, q[c[3]].id}]
      BY <2>1 DEF Contradictions
    <3>2. c[1] \in Opposites /\ c[2] \in WithText(q) /\ c[3] \in WithText(q)
      OBVIOUS
    <3> HIDE DEF Opposed
    <3> QED  BY <3>1, <3>2
  <2>2. ASSUME NEW d \in Opposites, NEW k \in WithText(q), NEW l \in WithText(q),
               k < l, Opposed(d, k, l)
        PROVE  [pair |-> d, ids |-> {q[k].id, q[l].id}] \in Contradictions(q)
    <3> DEFINE c == <<d, k, l>>
    <3>1. c \in Opposites \X WithText(q) \X WithText(q) /\ c[1] = d /\ c[2] = k /\ c[3] = l
      OBVIOUS
    <3> HIDE DEF c
    <3> QED  BY <2>2, <3>1 DEF Contradictions
  <2> QED  BY <2>1, <2>2
<1> HIDE DEF Opposed
<1>7. ASSUME NEW d \in Opposites, Opposed(d, i, j)
      PROVE  [pair |-> d, ids |-> both] \in Conflicts(q)
  <2>1. i \in WithText(q) /\ j \in WithText(q)
    BY DEF WithText
  <2>2. Opposed(d, j, i) /\ both = {q[j].id, q[i].id}
    BY <1>7 DEF Opposed
  <2>3. i < j \/ j < i
    BY <1>1
  <2> QED  BY <1>6, <1>7, <2>1, <2>2, <2>3 DEF Conflicts
<1>8. ASSUME NEW d \in Opposites, [pair |-> d, ids |-> both] \in Conflicts(q)
      PROVE  Opposed(d, i, j)
  <2> DEFINE x == [pair |-> d, ids |-> both]
  <2>1. DOMAIN x = {"pair", "ids"} /\ x.pair = d /\ x.ids = both
    OBVIOUS
  <2>2. x \in Contradictions(q)
    BY <1>2, <1>8, <2>1 DEF Conflicts
  <2> HIDE DEF x
  <2>3. PICK k \in WithText(q), l \in WithText(q) :
          Opposed(d, k, l) /\ both = {q[k].id, q[l].id}
    <3>1. PICK e \in Opposites, k \in WithText(q), l \in WithText(q) :
            Opposed(e, k, l) /\ x = [pair |-> e, ids |-> {q[k].id, q[l].id}]
      BY <1>6, <2>2
    <3>2. e = d /\ both = {q[k].id, q[l].id}
      BY <2>1, <3>1
    <3> QED  BY <3>1, <3>2
  <2>4. k \in DOMAIN q /\ l \in DOMAIN q
    BY DEF WithText
  <2>5. \/ q[k].id = q[i].id /\ q[l].id = q[j].id
        \/ q[k].id = q[j].id /\ q[l].id = q[i].id
    BY <2>3
  <2>6. (q[k] = q[i] /\ q[l] = q[j]) \/ (q[k] = q[j] /\ q[l] = q[i])
    BY <2>4, <2>5
  <2> QED  BY <2>3, <2>6 DEF Opposed
<1> QED  BY <1>4, <1>5, <1>7, <1>8 DEF Opposed, Says, Told

-----------------------------------------------------------------------------
(* The context of a request: ContextManager.record_result.                  *)

\* The files a result mentions are a list.
LEMMA FilesOfFacts ==
  ASSUME NEW r \in Outcomes
  PROVE  FilesOf(r) \in Seq(ToSet(FilesOf(r)))
<1>1. CASE HasText(r)
  <2>1. r.content.files \in Seq(ToSet(r.content.files))
    BY <1>1, AggregationAssumption DEF HasText
  <2>2. FilesOf(r) = Distinct(r.content.files)
    BY <1>1 DEF FilesOf
  <2>3. /\ FilesOf(r) \in Seq(ToSet(r.content.files))
        /\ ToSet(FilesOf(r)) = ToSet(r.content.files)
    BY <2>1, <2>2, DistinctFacts
  <2> QED  BY <2>3
<1>2. CASE ~HasText(r)
  <2>1. FilesOf(r) = <<>>
    BY <1>2 DEF FilesOf
  <2> QED  BY <2>1, EmptySeq
<1> QED  BY <1>1, <1>2

\* Lists one after the other hold the elements of both.
LEMMA ConcatSet ==
  ASSUME NEW X, NEW s \in Seq(X), NEW t \in Seq(X)
  PROVE  s \o t \in Seq(X) /\ ToSet(s \o t) = ToSet(s) \cup ToSet(t)
<1> DEFINE m == Len(s)
           n == Len(t)
           u == s \o t
<1>1. /\ DOMAIN s = 1 .. m /\ m \in Nat
      /\ DOMAIN t = 1 .. n /\ n \in Nat
  BY LenProperties
<1>2. /\ u \in Seq(X) /\ Len(u) = m + n
      /\ \A i \in 1 .. (m + n) : u[i] = IF i <= m THEN s[i] ELSE t[i - m]
  BY ConcatProperties
<1>3. DOMAIN u = 1 .. (m + n)
  BY <1>2, LenProperties
<1> HIDE DEF m, n, u
<1>4. \A i \in 1 .. m : i \in DOMAIN u /\ u[i] = s[i]
  <2>1. \A i \in 1 .. m : i \in 1 .. (m + n) /\ i <= m
    BY <1>1
  <2> QED  BY <1>2, <1>3, <2>1
<1>5. \A i \in 1 .. n : m + i \in DOMAIN u /\ u[m + i] = t[i]
  <2>1. \A i \in 1 .. n : m + i \in 1 .. (m + n) /\ ~(m + i <= m) /\ (m + i) - m = i
    BY <1>1
  <2> QED  BY <1>2, <1>3, <2>1
<1>6. \A i \in DOMAIN u : (i \in 1 .. m /\ u[i] = s[i]) \/ (i - m \in 1 .. n /\ u[i] = t[i - m])
  BY <1>1, <1>2, <1>3
<1>7. ToSet(u) = ToSet(s) \cup ToSet(t)
  BY <1>1, <1>4, <1>5, <1>6 DEF ToSet
<1> QED  BY <1>2, <1>7 DEF u

\* What a store holds after the first n results.
Holds(store, rs, n) ==
  /\ store = [tasks |-> store.tasks, allFiles |-> store.allFiles]
  /\ store.tasks \in [{rs[i].id : i \in 1 .. n} -> Outcomes]
  /\ \A i \in 1 .. n : store.tasks[rs[i].id] = rs[i]
  /\ store.allFiles \in Seq(UNION {ToSet(FilesOf(rs[i])) : i \in DOMAIN rs})
  /\ ToSet(store.allFiles) = UNION {ToSet(FilesOf(rs[i])) : i \in 1 .. n}
  /\ \A i, j \in DOMAIN store.allFiles : store.allFiles[i] = store.allFiles[j] => i = j

\* A result more: the store holds what was recorded before, and this one in the
\* place of an earlier one with its identifier, which is the same.
LEMMA RecordedHolds ==
  ASSUME NEW p \in Seq(Tasks), NEW rs, Answered(p, rs),
         NEW n \in Nat, n + 1 <= Len(rs), NEW store, Holds(store, rs, n),
         NEW next, next = Recorded(store, rs[n + 1])
  PROVE  Holds(next, rs, n + 1)
<1> DEFINE r == rs[n + 1]
           Y == UNION {ToSet(FilesOf(rs[i])) : i \in DOMAIN rs}
           all == store.allFiles \o FilesOf(r)
<1>1. /\ DOMAIN rs = 1 .. Len(rs) /\ Len(rs) \in Nat
      /\ \A i \in DOMAIN rs : rs[i] \in Outcomes
  BY AnsweredIds
<1>2. n + 1 \in DOMAIN rs /\ r \in Outcomes
  BY <1>1
<1>3. \A i \in 1 .. (n + 1) : i \in 1 .. n \/ i = n + 1
  OBVIOUS
<1>4. \A i \in 1 .. n : i \in DOMAIN rs /\ i \in 1 .. (n + 1)
  BY <1>1
<1>5. n + 1 \in 1 .. (n + 1)
  OBVIOUS
<1>6. next = [tasks |-> next.tasks, allFiles |-> next.allFiles]
  BY DEF Recorded
<1>7. /\ next.tasks = [t \in (DOMAIN store.tasks) \cup {r.id} |->
                         IF t = r.id THEN r ELSE store.tasks[t]]
      /\ next.allFiles = Distinct(all)
  BY DEF Recorded
<1>8. {rs[i].id : i \in 1 .. (n + 1)} = (DOMAIN store.tasks) \cup {r.id}
  <2>1. DOMAIN store.tasks = {rs[i].id : i \in 1 .. n}
    BY DEF Holds
  <2> QED  BY <1>3, <1>4, <1>5, <2>1
<1>9. next.tasks \in [{rs[i].id : i \in 1 .. (n + 1)} -> Outcomes]
  BY <1>2, <1>7, <1>8 DEF Holds
<1>10. ASSUME NEW i \in 1 .. (n + 1) PROVE next.tasks[rs[i].id] = rs[i]
  <2>1. CASE rs[i].id = r.id
    <3>1. rs[i] = r
      BY <1>2, <1>3, <1>4, <2>1 DEF Answered
    <3> QED  BY <1>7, <2>1, <3>1
  <2>2. CASE rs[i].id # r.id
    <3>1. i \in 1 .. n
      BY <1>3, <2>2
    <3>2. rs[i].id \in DOMAIN store.tasks /\ store.tasks[rs[i].id] = rs[i]
      BY <3>1 DEF Holds
    <3> QED  BY <1>7, <2>2, <3>2
  <2> QED  BY <2>1, <2>2
<1>11. FilesOf(r) \in Seq(Y)
  <2>1. ToSet(FilesOf(r)) \subseteq Y
    BY <1>2
  <2> HIDE DEF r, Y
  <2> QED  BY <1>2, <2>1, FilesOfFacts, SeqMonotonic
<1>12. store.allFiles \in Seq(Y)
  BY DEF Holds
<1> HIDE DEF Y
<1>13. all \in Seq(Y) /\ ToSet(all) = ToSet(store.allFiles) \cup ToSet(FilesOf(r))
  BY <1>11, <1>12, ConcatSet
<1> HIDE DEF all
<1>14. /\ next.allFiles \in Seq(Y)
       /\ ToSet(next.allFiles) = ToSet(all)
       /\ \A i, j \in DOMAIN next.allFiles : next.allFiles[i] = next.allFiles[j] => i = j
  BY <1>7, <1>13, DistinctFacts
<1>15. ToSet(all) = UNION {ToSet(FilesOf(rs[i])) : i \in 1 .. (n + 1)}
  <2>1. ToSet(store.allFiles) = UNION {ToSet(FilesOf(rs[i])) : i \in 1 .. n}
    BY DEF Holds
  <2> QED  BY <1>3, <1>4, <1>5, <1>13, <2>1
<1> QED  BY <1>6, <1>9, <1>10, <1>14, <1>15 DEF Holds, Y

Stored == UNION {[D -> Outcomes] : D \in SUBSET Int}

\* What is recorded is a store again.
LEMMA RecordedTyped ==
  ASSUME NEW Y, NEW store \in [tasks : Stored, allFiles : Seq(Y)],
         NEW r \in Outcomes, FilesOf(r) \in Seq(Y)
  PROVE  Recorded(store, r) \in [tasks : Stored, allFiles : Seq(Y)]
<1> DEFINE next == Recorded(store, r)
           D == DOMAIN store.tasks
           all == store.allFiles \o FilesOf(r)
<1>1. D \in SUBSET Int /\ store.tasks \in [D -> Outcomes] /\ r.id \in Int
  BY DEF Stored, Outcomes
<1>2. next = [tasks |-> [t \in D \cup {r.id} |-> IF t = r.id THEN r ELSE store.tasks[t]],
              allFiles |-> Distinct(all)]
  BY DEF Recorded
<1>3. [t \in D \cup {r.id} |-> IF t = r.id THEN r ELSE store.tasks[t]]
        \in [D \cup {r.id} -> Outcomes]
  <2> HIDE DEF D
  <2> QED  BY <1>1
<1>4. D \cup {r.id} \in SUBSET Int
  BY <1>1
<1>5. all \in Seq(Y)
  BY ConcatProperties
<1> HIDE DEF all, D
<1>6. Distinct(all) \in Seq(Y)
  BY <1>5, DistinctFacts
<1> DEFINE tasks == [t \in D \cup {r.id} |-> IF t = r.id THEN r ELSE store.tasks[t]]
<1>7. tasks \in Stored
  <2>1. tasks \in [D \cup {r.id} -> Outcomes]
    BY <1>3
  <2> HIDE DEF tasks
  <2> QED  BY <1>4, <2>1 DEF Stored
<1>8. next = [tasks |-> tasks, allFiles |-> Distinct(all)]
  BY <1>2
<1> HIDE DEF tasks
<1> QED  BY <1>6, <1>7, <1>8

\* The store after all results.
LEMMA RecordAllHolds ==
  ASSUME NEW p \in Seq(Tasks), NEW rs, Answered(p, rs)
  PROVE  Holds(RecordAll(rs), rs, Len(rs))
<1> DEFINE N == Len(rs)
           Y == UNION {ToSet(FilesOf(rs[i])) : i \in DOMAIN rs}
           X == [tasks : Stored, allFiles : Seq(Y)]
           F == [n \in 1 .. N |-> [s \in X |-> Recorded(s, rs[n])]]
           Unfolds(g) == g = [n \in 0 .. N |-> IF n = 0 THEN Empty
                                               ELSE Recorded(g[n - 1], rs[n])]
<1>1. N \in Nat /\ DOMAIN rs = 1 .. N /\ \A i \in DOMAIN rs : rs[i] \in Outcomes
  BY AnsweredIds
<1>2. ASSUME NEW n \in 1 .. N, NEW s \in X PROVE Recorded(s, rs[n]) \in X
  <2>1. rs[n] \in Outcomes /\ ToSet(FilesOf(rs[n])) \subseteq Y
    BY <1>1
  <2> HIDE DEF Y
  <2>2. FilesOf(rs[n]) \in Seq(Y)
    BY <2>1, FilesOfFacts, SeqMonotonic
  <2> QED  BY <2>1, <2>2, RecordedTyped
<1>3. /\ Empty.tasks \in [{rs[i].id : i \in 1 .. 0} -> Outcomes]
      /\ Empty.tasks \in Stored
      /\ Empty.allFiles \in Seq(Y) /\ ToSet(Empty.allFiles) = {}
      /\ DOMAIN Empty.allFiles = {}
      /\ Empty = [tasks |-> Empty.tasks, allFiles |-> Empty.allFiles]
  <2>1. Empty = [tasks |-> <<>>, allFiles |-> <<>>]
    BY DEF Empty
  <2>2. <<>> \in Seq(Y) /\ <<>> \in Seq(Outcomes) /\ Len(<<>>) = 0
    BY EmptySeq
  <2>3. <<>> \in [1 .. 0 -> Outcomes] /\ DOMAIN <<>> = {}
    BY <2>2
  <2>4. {rs[i].id : i \in 1 .. 0} = {} /\ 1 .. 0 = {}
    OBVIOUS
  <2>5. <<>> \in [{} -> Outcomes]
    BY <2>3, <2>4
  <2>6. <<>> \in Stored
    BY <2>5 DEF Stored
  <2>7. ToSet(<<>>) = {}
    BY <2>3 DEF ToSet
  <2> HIDE DEF Y
  <2> QED  BY <2>1, <2>2, <2>3, <2>4, <2>5, <2>6, <2>7
<1>4. Empty \in X /\ Holds(Empty, rs, 0)
  <2>1. UNION {ToSet(FilesOf(rs[i])) : i \in 1 .. 0} = {} /\ 1 .. 0 = {}
    OBVIOUS
  <2> QED  BY <1>3, <2>1 DEF Holds
<1> HIDE DEF X, N
<1>5. F \in [1 .. N -> [X -> X]]
  BY <1>2
<1>6. PICK f \in [0 .. N -> X] :
        f[0] = Empty /\ \A n \in 1 .. N : f[n] = F[n][f[n - 1]]
  <2> HIDE DEF F
  <2>1. N \in Nat /\ Empty \in X
    BY <1>1, <1>4
  <2> QED  BY <1>5, <2>1, Recursion
<1>7. ASSUME NEW n \in 0 .. N, n # 0 PROVE f[n] = Recorded(f[n - 1], rs[n])
  <2>1. n \in 1 .. N /\ n - 1 \in 0 .. N
    BY <1>1, <1>7
  <2>2. f[n - 1] \in X
    BY <1>6, <2>1
  <2> QED  BY <1>6, <2>1, <2>2
<1>8. Unfolds(f)
  <2> HIDE DEF F
  <2> QED  BY <1>6, <1>7
<1> DEFINE g == CHOOSE h : Unfolds(h)
<1>9. RecordAll(rs) = g[N]
  BY DEF RecordAll, N
<1>10. Unfolds(g)
  <2> HIDE DEF Unfolds
  <2> QED  BY <1>8
<1> HIDE DEF g
<1> DEFINE T == {n \in Nat : n <= N => Holds(g[n], rs, n)}
<1>11. 0 \in T
  BY <1>1, <1>4, <1>10
<1>12. ASSUME NEW n \in Nat, n \in T PROVE n + 1 \in T
  <2> SUFFICES ASSUME n + 1 <= N PROVE Holds(g[n + 1], rs, n + 1)
    OBVIOUS
  <2>1. Holds(g[n], rs, n)
    BY <1>1, <1>12
  <2>2. g[n + 1] = Recorded(g[n], rs[n + 1])
    <3>1. n + 1 \in 0 .. N /\ n + 1 # 0 /\ (n + 1) - 1 = n
      BY <1>1
    <3> QED  BY <1>10, <3>1
  <2> QED  BY <2>1, <2>2, RecordedHolds DEF N
<1> HIDE DEF T
<1>13. Nat \subseteq T
  BY <1>11, <1>12, Induction
<1>14. Holds(g[N], rs, N)
  BY <1>1, <1>13 DEF T
<1> QED  BY <1>9, <1>14 DEF N

-----------------------------------------------------------------------------
(* The plans of the rules: TaskSplitter.split.                              *)

\* The smaller and the larger of two numbers.
LEMMA OfTwo ==
  ASSUME NEW a \in Int, NEW b \in Int
  PROVE  /\ Min({a, b}) = IF a <= b THEN a ELSE b
         /\ Max({a, b}) = IF a >= b THEN a ELSE b
<1> DEFINE lo == IF a <= b THEN a ELSE b
           hi == IF a >= b THEN a ELSE b
<1>1. /\ lo \in {a, b} /\ \A y \in {a, b} : lo <= y
      /\ hi \in {a, b} /\ \A y \in {a, b} : hi >= y
  OBVIOUS
<1>2. \A x \in {a, b} : (\A y \in {a, b} : x <= y) => x = lo
  OBVIOUS
<1>3. \A x \in {a, b} : (\A y \in {a, b} : x >= y) => x = hi
  OBVIOUS
<1> HIDE DEF lo, hi
<1>4. Min({a, b}) = lo /\ Max({a, b}) = hi
  BY <1>1, <1>2, <1>3 DEF Min, Max
<1> QED  BY <1>4 DEF lo, hi

\* The positions of a text.
LEMMA TextFacts ==
  ASSUME NEW t \in Text
  PROVE  /\ DOMAIN t = 1 .. Len(t) /\ Len(t) \in Nat
         /\ \A P \in SUBSET (DOMAIN t) :
              P \in SUBSET Int /\ IsFiniteSet(P) /\ Cardinality(P) \in Nat
<1>1. DOMAIN t = 1 .. Len(t) /\ Len(t) \in Nat
  BY LenProperties DEF Text
<1>2. ASSUME NEW P \in SUBSET (DOMAIN t)
      PROVE  P \in SUBSET Int /\ IsFiniteSet(P) /\ Cardinality(P) \in Nat
  <2>1. IsFiniteSet(DOMAIN t)
    BY <1>1, FS_Interval
  <2> QED  BY <1>1, <2>1, FS_Subset, FS_CardinalityType
<1> QED  BY <1>1, <1>2

\* Two sub-tasks are suggested at least.
LEMMA SuggestedFacts ==
  ASSUME NEW t \in Text
  PROVE  SuggestedCount(t) \in Nat /\ SuggestedCount(t) >= 2
<1> DEFINE h == FileHits(t)
           c == Cardinality(StepStarts(t))
           n == Tokens(t) \div 2000
<1>1. h \in Nat /\ c \in Nat
  BY TextFacts DEF FileHits, StepStarts
<1>2. n \in Int
  <2>1. Tokens(t) \in Int
    BY TextFacts, SplittingAssumption DEF Tokens
  <2> QED  BY <2>1
<1>3. SuggestedCount(t) =
        CASE h >= 2 -> Min({h, 10})
          [] h < 2 /\ c >= 3 -> Min({c, 10})
          [] OTHER -> Max({2, Min({n, 10})})
  BY DEF SuggestedCount
<1> HIDE DEF h, c, n
<1>4. Min({h, 10}) = (IF h <= 10 THEN h ELSE 10) /\ Min({c, 10}) = (IF c <= 10 THEN c ELSE 10)
  BY <1>1, OfTwo
<1>5. Min({n, 10}) \in Int
  BY <1>2, OfTwo
<1>6. Max({2, Min({n, 10})}) \in Nat /\ Max({2, Min({n, 10})}) >= 2
  <2>1. \A d \in Int : Max({2, d}) = IF 2 >= d THEN 2 ELSE d
    BY OfTwo
  <2> QED  BY <1>5, <2>1
<1> QED  BY <1>1, <1>3, <1>4, <1>6

\* The files of a text, each once, and where each one is first.
LEMMA FilesFacts ==
  ASSUME NEW t \in Text, NEW fs, fs = DistinctFiles(t)
  PROVE  /\ DOMAIN fs = 1 .. Len(fs) /\ Len(fs) \in Nat
         /\ ToSet(fs) = {t[i] : i \in {j \in DOMAIN t : t[j] \in Files}}
         /\ \A n \in DOMAIN fs :
              LET places == {i \in DOMAIN t : t[i] = fs[n]}
              IN  Min(places) \in DOMAIN t /\ t[Min(places)] = fs[n]
<1> DEFINE P == {i \in DOMAIN t : t[i] \in Files}
           k == KeepAt(t, P)
           W == Files \cup Patterns \cup {StepMark, Plain}
<1>1. t \in Seq(W) /\ P \in SUBSET (DOMAIN t)
  BY DEF Text
<1>2. k \in Seq(W) /\ ToSet(k) = {t[i] : i \in P}
  <2> HIDE DEF P
  <2> QED  BY <1>1, KeepAtFacts
<1>3. fs = Distinct(k)
  BY DEF DistinctFiles
<1> HIDE DEF k
<1>4. fs \in Seq(W) /\ ToSet(fs) = ToSet(k)
  BY <1>2, <1>3, DistinctFacts
<1>5. DOMAIN fs = 1 .. Len(fs) /\ Len(fs) \in Nat
  BY <1>4, LenProperties
<1>6. ToSet(fs) = {t[i] : i \in P}
  BY <1>2, <1>4
<1>7. ASSUME NEW n \in DOMAIN fs,
             NEW A, A = {i \in DOMAIN t : t[i] = fs[n]}
      PROVE  Min(A) \in DOMAIN t /\ t[Min(A)] = fs[n]
  <2>1. fs[n] \in ToSet(fs)
    BY DEF ToSet
  <2>2. A \in SUBSET (DOMAIN t) /\ A # {}
    BY <1>6, <1>7, <2>1
  <2>3. A \in SUBSET Int /\ IsFiniteSet(A)
    BY <2>2, TextFacts
  <2>4. Min(A) \in A
    BY <2>2, <2>3, Extremes
  <2> QED  BY <1>7, <2>4
<1> QED  BY <1>5, <1>6, <1>7

\* Where the steps of a text begin, one after the other.
LEMMA StepsFacts ==
  ASSUME NEW t \in Text, NEW b, b = Ascending(StepStarts(t))
  PROVE  /\ DOMAIN b = 1 .. Len(b) /\ Len(b) = Cardinality(StepStarts(t)) /\ Len(b) \in Nat
         /\ \A i \in DOMAIN b : b[i] \in 1 .. Len(t)
         /\ \A i, j \in DOMAIN b : i < j => b[i] < b[j]
<1>1. StepStarts(t) \in SUBSET (DOMAIN t)
  BY DEF StepStarts
<1>2. /\ StepStarts(t) \in SUBSET Int /\ IsFiniteSet(StepStarts(t))
      /\ StepStarts(t) \in SUBSET (1 .. Len(t))
  BY <1>1, TextFacts
<1>3. /\ b \in Seq(StepStarts(t)) /\ DOMAIN b = 1 .. Len(b)
      /\ Len(b) = Cardinality(StepStarts(t)) /\ Cardinality(StepStarts(t)) \in Nat
      /\ \A i, j \in DOMAIN b : i < j => b[i] < b[j]
  BY <1>2, AscendingFacts
<1> QED  BY <1>2, <1>3, ElementOfSeq

\* A sub-task of a plan of the rules.
LEMMA SubTaskTyped ==
  ASSUME NEW t \in Text, NEW i \in Nat \ {0}, NEW first \in Int, NEW last \in Int,
         NEW deps, deps = <<>> \/ deps = AfterThePrevious(i)
  PROVE  SubTask(i, deps, first, last, t) \in Tasks
<1>1. deps \in Seq(Int)
  <2>1. <<>> \in Seq(Int)
    BY EmptySeq
  <2>2. i - 1 \in Int
    OBVIOUS
  <2>3. <<i - 1>> \in Seq(Int)
    BY <2>2
  <2> QED  BY <2>1, <2>3 DEF AfterThePrevious
<1> QED  BY <1>1 DEF SubTask, Tasks

\* A plan of the rules is a list of sub-tasks.
LEMMA RulesSplitTyped ==
  ASSUME NEW t \in Text, NEW n \in Int
  PROVE  RulesSplit(t, n) \in Seq(Tasks)
<1>1. Len(t) \in Nat
  BY TextFacts
<1>2. SplitByFile(t) \in Seq(Tasks)
  <2> DEFINE fs == DistinctFiles(t)
             place(f) == Min({i \in DOMAIN t : t[i] = f})
             first(i) == Max({1, place(fs[i]) - Around})
             last(i) == Min({Len(t), place(fs[i]) + Around})
  <2>1. /\ DOMAIN fs = 1 .. Len(fs) /\ Len(fs) \in Nat
        /\ \A i \in DOMAIN fs : place(fs[i]) \in DOMAIN t
    BY FilesFacts
  <2>2. SplitByFile(t) = [i \in DOMAIN fs |-> SubTask(i, <<>>, first(i), last(i), t)]
    BY DEF SplitByFile
  <2> HIDE DEF fs, place
  <2>3. ASSUME NEW i \in DOMAIN fs PROVE first(i) \in Int /\ last(i) \in Int
    <3>1. place(fs[i]) - Around \in Int /\ place(fs[i]) + Around \in Int
      BY <2>1, SplittingAssumption, TextFacts
    <3>2. \A d \in Int : Max({1, d}) = IF 1 >= d THEN 1 ELSE d
      BY OfTwo
    <3>3. \A d \in Int : Min({Len(t), d}) = IF Len(t) <= d THEN Len(t) ELSE d
      BY <1>1, OfTwo
    <3> QED  BY <1>1, <3>1, <3>2, <3>3
  <2> HIDE DEF first, last
  <2>4. \A i \in DOMAIN fs : SubTask(i, <<>>, first(i), last(i), t) \in Tasks
    BY <2>1, <2>3, SubTaskTyped
  <2>5. SplitByFile(t) \in [1 .. Len(fs) -> Tasks]
    BY <2>1, <2>2, <2>4
  <2> QED  BY <2>1, <2>5, FunctionIsList
<1>3. SplitBySteps(t) \in Seq(Tasks)
  <2> DEFINE b == Ascending(StepStarts(t))
             last(i) == IF i = Len(b) THEN Len(t) ELSE b[i + 1] - 1
  <2>1. /\ DOMAIN b = 1 .. Len(b) /\ Len(b) \in Nat
        /\ \A i \in DOMAIN b : b[i] \in 1 .. Len(t)
    BY StepsFacts
  <2>2. SplitBySteps(t) = [i \in DOMAIN b |-> SubTask(i, AfterThePrevious(i), b[i], last(i), t)]
    BY DEF SplitBySteps
  <2> HIDE DEF b
  <2>3. ASSUME NEW i \in DOMAIN b PROVE b[i] \in Int /\ last(i) \in Int
    <3>1. i # Len(b) => i + 1 \in DOMAIN b
      BY <2>1
    <3> QED  BY <1>1, <2>1, <3>1
  <2> HIDE DEF last
  <2>4. \A i \in DOMAIN b : SubTask(i, AfterThePrevious(i), b[i], last(i), t) \in Tasks
    BY <2>1, <2>3, SubTaskTyped
  <2>5. SplitBySteps(t) \in [1 .. Len(b) -> Tasks]
    BY <2>1, <2>2, <2>4
  <2> QED  BY <2>1, <2>5, FunctionIsList
<1>4. SplitByTokens(t, Max({1, n})) \in Seq(Tasks)
  <2> DEFINE m == Max({1, n})
             size == Max({1, Len(t) \div m})
             first(i) == (i - 1) * size + 1
             last(i) == IF i = m THEN Len(t) ELSE Min({i * size, Len(t)})
  <2>1. m \in Nat \ {0}
    BY OfTwo
  <2>2. SplitByTokens(t, m) =
          [i \in 1 .. m |-> SubTask(i, AfterThePrevious(i), first(i), last(i), t)]
    BY DEF SplitByTokens
  <2> HIDE DEF m
  <2>3. size \in Int
    <3>1. Len(t) \div m \in Int
      BY <1>1, <2>1
    <3>2. \A d \in Int : Max({1, d}) = IF 1 >= d THEN 1 ELSE d
      BY OfTwo
    <3> QED  BY <3>1, <3>2
  <2> HIDE DEF size
  <2>4. ASSUME NEW i \in 1 .. m PROVE first(i) \in Int /\ last(i) \in Int
    <3>1. i * size \in Int /\ (i - 1) * size \in Int
      BY <2>1, <2>3
    <3>2. Min({i * size, Len(t)}) \in Int
      BY <1>1, <3>1, OfTwo
    <3> QED  BY <1>1, <3>1, <3>2
  <2> HIDE DEF first, last
  <2>5. \A i \in 1 .. m : SubTask(i, AfterThePrevious(i), first(i), last(i), t) \in Tasks
    BY <2>1, <2>4, SubTaskTyped
  <2>6. SplitByTokens(t, m) \in [1 .. m -> Tasks]
    BY <2>2, <2>5
  <2>7. SplitByTokens(t, m) \in Seq(Tasks)
    BY <2>1, <2>6, FunctionIsList
  <2> QED  BY <2>7 DEF m
<1> QED  BY <1>2, <1>3, <1>4 DEF RulesSplit

-----------------------------------------------------------------------------
(* The inductive invariant.                                                *)

\* The plan is well formed, whoever made it, and that of the rules is theirs;
\* the results answer it, the context has recorded them, and the reply was
\* merged from them.
Sound ==
  /\ flow \in {"endpoint", "rules"}
  /\ text \in Text
  /\ plan \in Seq(Tasks)
  /\ at = "split" => flow = "endpoint"
  /\ at = "execute" /\ flow = "rules" =>
       Len(plan) > 1 /\ plan = RulesSplit(text, SuggestedCount(text))
  /\ at \in {"merge", "replied"} =>
       Answered(plan, results) /\ context = RecordAll(results)
  /\ at = "replied" =>
       reply = MergeByRules(results, plan) \/ reply = MergeByLLM(results)

\* The invariant holds before the first request.
LEMMA SoundInit == Init => Sound
<1> SUFFICES ASSUME Init PROVE Sound
  OBVIOUS
<1>1. text \in Text
  BY PipelineAssumption DEF Init
<1>2. plan \in Seq(Tasks)
  BY EmptySeq DEF Init
<1> QED  BY <1>1, <1>2 DEF Init, Sound

\* A plan is made while nothing else changes.
LEMMA PlannedSound ==
  ASSUME Sound, NEW p \in Seq(Tasks), Planned(p),
         flow = "rules" => p = RulesSplit(text, SuggestedCount(text))
  PROVE  Sound'
<1>1. CASE Len(p) > 1
  BY <1>1 DEF Planned, Sound
<1>2. CASE ~(Len(p) > 1)
  BY <1>2 DEF Planned, Sound
<1> QED  BY <1>1, <1>2

\* So is the plan the hybrid splitter asks the rules for.
LEMMA HybridTyped ==
  ASSUME NEW t \in Text
  PROVE  HybridRulesSplit(t) \in Seq(Tasks)
<1>1. NoText \in Text
  BY EmptySeq DEF NoText, Text
<1>2. SuggestedCount(t) \in Int
  BY SuggestedFacts
<1>3. RulesSplit(NoText, SuggestedCount(t)) \in Seq(Tasks)
  BY <1>1, <1>2, RulesSplitTyped
<1> QED  BY <1>3 DEF HybridRulesSplit

\* What the aggregator reads of a plan is a plan with the same identifiers.
LEMMA OutlineTyped ==
  ASSUME NEW p \in Seq(Tasks)
  PROVE  /\ Outline(p) \in Seq(Tasks)
         /\ DOMAIN Outline(p) = DOMAIN p /\ Len(Outline(p)) = Len(p)
         /\ \A i \in DOMAIN p : Outline(p)[i].id = p[i].id
<1> DEFINE o == Outline(p)
<1>1. DOMAIN p = 1 .. Len(p) /\ Len(p) \in Nat /\ \A i \in DOMAIN p : p[i] \in Tasks
  BY LenProperties, ElementOfSeq
<1>2. o = [i \in 1 .. Len(p) |-> [id |-> p[i].id, deps |-> p[i].deps]]
  BY <1>1 DEF Outline
<1>3. \A i \in 1 .. Len(p) : [id |-> p[i].id, deps |-> p[i].deps] \in Tasks
  BY <1>1 DEF Tasks
<1>4. o \in [1 .. Len(p) -> Tasks]
  BY <1>2, <1>3
<1>5. \A i \in DOMAIN p : o[i].id = p[i].id
  BY <1>1, <1>2
<1> HIDE DEF o
<1>6. o \in Seq(Tasks) /\ Len(o) = Len(p) /\ DOMAIN o = 1 .. Len(p)
  BY <1>1, <1>4, FunctionIsList
<1> QED  BY <1>1, <1>5, <1>6 DEF o

\* The results of the executor answer the plan, and all of them are recorded.
LEMMA ExecuteSound ==
  ASSUME Sound, ExecuteReturns
  PROVE  Sound'
<1>1. PICK outcome \in [Ids(plan) -> Contents \cup {Silent, Malformed, Failure}] :
        LET rs == [i \in DOMAIN plan |-> [id |-> plan[i].id, content |-> outcome[plan[i].id]]]
        IN  IF Readable(rs)
            THEN Executed(rs)
            ELSE /\ at' = "chain"
                 /\ UNCHANGED <<flow, text, plan, results, context, reply>>
  BY DEF ExecuteReturns
<1> DEFINE rs == [i \in DOMAIN plan |-> [id |-> plan[i].id, content |-> outcome[plan[i].id]]]
<1>2. CASE ~Readable(rs)
  BY <1>1, <1>2 DEF Sound
<1>3. CASE Readable(rs)
  <2>1. Executed(rs)
    BY <1>1, <1>3
  <2>2. /\ plan \in Seq(Tasks) /\ DOMAIN plan = 1 .. Len(plan) /\ Len(plan) \in Nat
        /\ \A i \in DOMAIN plan : plan[i] \in Tasks
    BY LenProperties, ElementOfSeq DEF Sound
  <2>3. ASSUME NEW i \in DOMAIN plan
        PROVE  rs[i] \in Outcomes /\ rs[i].id = plan[i].id
    <3>1. plan[i].id \in Int /\ plan[i].id \in Ids(plan)
      BY <2>2 DEF Tasks, Ids
    <3>2. rs[i].content # Malformed
      BY <1>3 DEF Readable
    <3> QED  BY <3>1, <3>2 DEF Outcomes
  <2>4. DOMAIN rs = 1 .. Len(plan) /\ rs \in [1 .. Len(plan) -> Outcomes]
    BY <2>2, <2>3
  <2>5. \A i, j \in DOMAIN rs : rs[i].id = rs[j].id => rs[i] = rs[j]
    OBVIOUS
  <2> HIDE DEF rs
  <2>6. rs \in Seq(Outcomes) /\ Len(rs) = Len(plan)
    BY <2>2, <2>4, FunctionIsList
  <2>7. Outline(plan) \in Seq(Tasks) /\ Answered(Outline(plan), rs)
    BY <2>2, <2>3, <2>4, <2>5, <2>6, OutlineTyped DEF Answered
  <2>8. NoText \in Text
    BY EmptySeq DEF NoText, Text
  <2>9. CASE at' = "merge"
    BY <2>1, <2>7, <2>8, <2>9 DEF Executed, Sound
  <2>10. CASE at' = "replied" /\ reply' = MergeByRules(rs, Outline(plan))
    BY <2>1, <2>7, <2>8, <2>10 DEF Executed, Sound
  <2> QED  BY <2>1, <2>9, <2>10 DEF Executed
<1> QED  BY <1>2, <1>3

\* The plan of an LLM is a list of sub-tasks.
LEMMA AnswerTyped ==
  ASSUME NEW t \in Text, NEW answer \in Answers,
         NEW p, p = [i \in DOMAIN answer |-> SubTask(answer[i].id, answer[i].deps, 1, Len(t), t)]
  PROVE  p \in Seq(Tasks)
<1>1. answer \in Seq([id : Int, deps : Seq(Int)])
  BY PipelineAssumption
<1>2. /\ DOMAIN answer = 1 .. Len(answer) /\ Len(answer) \in Nat
      /\ \A i \in DOMAIN answer : answer[i] \in [id : Int, deps : Seq(Int)]
  BY <1>1, LenProperties, ElementOfSeq
<1>3. Len(t) \in Int
  BY TextFacts
<1>4. \A i \in DOMAIN answer : SubTask(answer[i].id, answer[i].deps, 1, Len(t), t) \in Tasks
  BY <1>2, <1>3 DEF SubTask, Tasks
<1>5. p \in [1 .. Len(answer) -> Tasks]
  BY <1>2, <1>4
<1> QED  BY <1>2, <1>5, FunctionIsList

\* Every step keeps the invariant.
LEMMA SoundStep ==
  ASSUME Sound, [Next]_vars
  PROVE  Sound'
<1>1. CASE Detect
  <2>1. RulesSplit(text, SuggestedCount(text)) \in Seq(Tasks)
    BY SuggestedFacts, RulesSplitTyped DEF Sound
  <2>2. HybridRulesSplit(text) \in Seq(Tasks)
    BY HybridTyped DEF Sound
  <2>3. CASE at' = "chain" /\ UNCHANGED <<flow, text, plan, results, context, reply>>
    BY <2>3 DEF Sound
  <2>4. CASE flow = "rules" /\ Planned(RulesSplit(text, SuggestedCount(text)))
    BY <2>1, <2>4, PlannedSound
  <2>5. CASE flow = "endpoint" /\ Planned(HybridRulesSplit(text))
    BY <2>2, <2>5, PlannedSound
  <2>6. CASE /\ flow = "endpoint" /\ at' = "split"
             /\ UNCHANGED <<flow, text, plan, results, context, reply>>
    BY <2>6 DEF Sound
  <2> QED  BY <1>1, <2>3, <2>4, <2>5, <2>6 DEF Detect
<1>2. CASE LLMSplits
  <2>1. PICK answer \in Answers :
          Planned([i \in DOMAIN answer |->
                     SubTask(answer[i].id, answer[i].deps, 1, Len(text), text)])
    BY <1>2 DEF LLMSplits
  <2> DEFINE p == [i \in DOMAIN answer |->
                     SubTask(answer[i].id, answer[i].deps, 1, Len(text), text)]
  <2>2. p \in Seq(Tasks)
    BY AnswerTyped DEF Sound
  <2>3. flow = "endpoint"
    BY <1>2 DEF LLMSplits, Sound
  <2>4. Planned(p)
    BY <2>1
  <2> HIDE DEF p
  <2> QED  BY <2>2, <2>3, <2>4, PlannedSound
<1>3. CASE LLMSplitFails
  <2>1. HybridRulesSplit(text) \in Seq(Tasks)
    BY HybridTyped DEF Sound
  <2>2. flow = "endpoint" /\ Planned(HybridRulesSplit(text))
    BY <1>3 DEF LLMSplitFails, Sound
  <2> QED  BY <2>1, <2>2, PlannedSound
<1>4. CASE ExecuteReturns
  BY <1>4, ExecuteSound
<1>5. CASE ExecuteRaises
  BY <1>5 DEF ExecuteRaises, Sound
<1>6. CASE LLMMerges
  BY <1>6 DEF LLMMerges, Sound
<1>7. CASE LLMMergeFails
  BY <1>7 DEF LLMMergeFails, Sound
<1>8. CASE NextRequest
  <2>1. text' \in Text
    BY <1>8, PipelineAssumption DEF NextRequest
  <2>2. plan' \in Seq(Tasks)
    BY <1>8, EmptySeq DEF NextRequest
  <2> QED  BY <1>8, <2>1, <2>2 DEF NextRequest, Sound
<1>9. CASE UNCHANGED vars
  BY <1>9 DEF vars, Sound
<1> QED  BY <1>1, <1>2, <1>3, <1>4, <1>5, <1>6, <1>7, <1>8, <1>9 DEF Next

\* The invariant holds in every state, for any texts, answers and outcomes.
THEOREM PipelineSound == Spec => []Sound
<1>1. Init => Sound
  BY SoundInit
<1>2. Sound /\ [Next]_vars => Sound'
  BY SoundStep
<1> QED  BY <1>1, <1>2, PTL DEF Spec

-----------------------------------------------------------------------------
(* The properties.                                                         *)

\* The context of a request knows each result it recorded, and every file any
\* of them mentions, once (ContextManager.record_result).
THEOREM ContextIsKept == Spec => []ContextKept
<1>1. Sound => ContextKept
  <2> SUFFICES ASSUME Sound, at \in {"merge", "replied"} PROVE ContextKept
    BY DEF ContextKept
  <2>1. plan \in Seq(Tasks) /\ Answered(plan, results) /\ context = RecordAll(results)
    BY DEF Sound
  <2>2. Holds(context, results, Len(results)) /\ DOMAIN results = 1 .. Len(results)
    BY <2>1, RecordAllHolds, AnsweredIds
  <2> QED  BY <2>2 DEF Holds, ContextKept
<1> QED  BY <1>1, PipelineSound, PTL

\* Whatever the plan and whoever merges: the reply lists every sub-task, those
\* that failed as failed, what has a text is in its text, and it is complete
\* only if nothing failed (execute, aggregate, format_response).
THEOREM AllAreTold == Spec => []AllTold
<1>1. Sound => AllTold
  <2> SUFFICES ASSUME Sound, at = "replied" PROVE AllTold
    BY DEF AllTold
  <2>1. /\ plan \in Seq(Tasks) /\ Answered(plan, results)
        /\ reply = MergeByRules(results, plan) \/ reply = MergeByLLM(results)
    BY DEF Sound
  <2>2. /\ ToSet(reply.listed) = Ids(plan)
        /\ reply.failed = Failed(results)
        /\ reply.finish = "stop" <=> Failed(results) = {}
        /\ \A i \in DOMAIN results : HasText(results[i]) => results[i].id \in ToSet(reply.text)
    BY <2>1, MergeTellsAll
  <2> QED  BY <2>2 DEF Failed, AllTold
<1> QED  BY <1>1, PipelineSound, PTL

\* Distinct identifiers are those of distinct results.
LEMMA IdsApart ==
  ASSUME NEW p \in Seq(Tasks), NEW rs, Answered(p, rs), Cardinality(Ids(p)) = Len(p),
         NEW i \in DOMAIN rs, NEW j \in DOMAIN rs, i # j
  PROVE  rs[i].id # rs[j].id
<1>1. /\ DOMAIN rs = DOMAIN p /\ DOMAIN p = 1 .. Len(p) /\ Len(p) \in Nat
      /\ \A k \in DOMAIN p : rs[k].id = p[k].id
  BY AnsweredIds, LenProperties DEF Answered
<1> SUFFICES ASSUME p[i].id = p[j].id PROVE FALSE
  BY <1>1
<1> DEFINE D == DOMAIN p \ {j}
           g == [k \in D |-> p[k].id]
<1>2. IsFiniteSet(DOMAIN p) /\ Cardinality(DOMAIN p) = Len(p) /\ j \in DOMAIN p
  <2>1. /\ IsFiniteSet(1 .. Len(p))
        /\ Cardinality(1 .. Len(p)) = IF 1 > Len(p) THEN 0 ELSE Len(p) - 1 + 1
    BY <1>1, FS_Interval
  <2>2. (IF 1 > Len(p) THEN 0 ELSE Len(p) - 1 + 1) = Len(p)
    BY <1>1
  <2> QED  BY <1>1, <2>1, <2>2
<1>3. IsFiniteSet(D) /\ Cardinality(D) = Len(p) - 1
  BY <1>2, FS_RemoveElement
<1>4. Ids(p) = {p[k].id : k \in D}
  BY <1>1 DEF Ids
<1>5. Cardinality({p[k].id : k \in D}) <= Cardinality(D)
  <2>1. g \in Surjection(D, {p[k].id : k \in D})
    BY DEF Surjection
  <2> HIDE DEF g, D
  <2> QED  BY <1>3, <2>1, FS_Surjection
<1>6. Cardinality(Ids(p)) <= Len(p) - 1
  BY <1>3, <1>4, <1>5
<1> QED  BY <1>1, <1>6

\* With distinct identifiers the reply names exactly the conflicts there are,
\* whoever merges and in whichever order (ConflictDetector).
THEOREM ConflictsAreTold == Spec => []ConflictsTold
<1>1. Sound => ConflictsTold
  <2> SUFFICES ASSUME Sound, at = "replied", UniqueIds,
                      NEW i \in DOMAIN results, NEW j \in DOMAIN results, i # j,
                      HasText(results[i]), HasText(results[j])
               PROVE
        LET both == {results[i].id, results[j].id}
            one   == results[i].content
            other == results[j].content
        IN  /\ \A f \in Files :
                 (one.modifies /\ other.modifies /\ f \in ToSet(one.files) \cap ToSet(other.files))
                   <=> \E c \in reply.conflicts :
                         "file" \in DOMAIN c /\ c.file = f /\ both \subseteq c.ids
            /\ \A p \in Opposites :
                 ((p[1] \in one.says /\ p[2] \in other.says) \/ (p[2] \in one.says /\ p[1] \in other.says))
                   <=> [pair |-> p, ids |-> both] \in reply.conflicts
    BY DEF ConflictsTold
  <2> DEFINE both == {results[i].id, results[j].id}
  <2>1. /\ plan \in Seq(Tasks) /\ Answered(plan, results)
        /\ reply = MergeByRules(results, plan) \/ reply = MergeByLLM(results)
    BY DEF Sound
  <2>2. results[i].id # results[j].id
    BY <2>1, IdsApart DEF UniqueIds
  <2>3. results \in Seq(Outcomes)
    BY <2>1 DEF Answered
  <2>4. \A k, l \in DOMAIN results : results[k].id = results[l].id => results[k] = results[l]
    BY <2>1 DEF Answered
  \* The results merged, in the order they are merged in.
  <2>5. PICK q \in Seq(Outcomes) :
          ToSet(q) = ToSet(results) /\ reply.conflicts = Conflicts(q)
    <3>1. CASE reply = MergeByLLM(results)
      BY <2>3, <3>1 DEF MergeByLLM, Reply
    <3>2. CASE reply = MergeByRules(results, plan)
      <4> DEFINE o == OrderByDependencies(results, plan)
      <4>1. o \in Seq(Outcomes) /\ ToSet(o) = ToSet(results)
        BY <2>1, OrderedFacts
      <4>2. reply.conflicts = Conflicts(o)
        BY <3>2 DEF MergeByRules, Reply
      <4> QED  BY <4>1, <4>2
    <3> QED  BY <2>1, <3>1, <3>2
  <2>6. \A k \in DOMAIN q : q[k] \in ToSet(results)
    BY <2>5 DEF ToSet
  <2>7. \A k, l \in DOMAIN q : q[k].id = q[l].id => q[k] = q[l]
    BY <2>4, <2>6 DEF ToSet
  <2>8. results[i] \in ToSet(q) /\ results[j] \in ToSet(q)
    BY <2>5 DEF ToSet
  <2>9. PICK m \in DOMAIN q : q[m] = results[i]
    BY <2>8 DEF ToSet
  <2>10. PICK n \in DOMAIN q : q[n] = results[j]
    BY <2>8 DEF ToSet
  <2>11. q[m].id # q[n].id /\ HasText(q[m]) /\ HasText(q[n]) /\ both = {q[m].id, q[n].id}
    BY <2>2, <2>9, <2>10
  <2> HIDE DEF both
  <2>12. Told(Conflicts(q), q[m], q[n], both)
    BY <2>7, <2>11, ConflictsExact
  <2> QED  BY <2>5, <2>9, <2>10, <2>12 DEF both, Told
<1> QED  BY <1>1, PipelineSound, PTL

\* A list of all identifiers, each once, is as long as there are identifiers.
LEMMA OnceEach ==
  ASSUME NEW X, NEW s \in Seq(X), \A i, j \in DOMAIN s : s[i] = s[j] => i = j
  PROVE  Len(s) = Cardinality(ToSet(s))
<1>1. DOMAIN s = 1 .. Len(s) /\ Len(s) \in Nat /\ IsFiniteSet(1 .. Len(s))
  BY LenProperties, FS_Interval
<1>2. s \in [DOMAIN s -> ToSet(s)]
  <2>1. s \in [1 .. Len(s) -> X]
    BY LenProperties
  <2> QED  BY <1>1, <2>1 DEF ToSet
<1>3. s \in Bijection(1 .. Len(s), ToSet(s))
  <2>1. \A x \in ToSet(s) : \E i \in 1 .. Len(s) : s[i] = x
    BY <1>1 DEF ToSet
  <2> QED  BY <1>1, <1>2, <2>1 DEF Bijection, Injection, Surjection, IsInjective
<1>4. Cardinality(ToSet(s)) = Cardinality(1 .. Len(s))
  BY <1>1, <1>3, FS_Bijection DEF ExistsBijection
<1>5. Cardinality(1 .. Len(s)) = IF 1 > Len(s) THEN 0 ELSE Len(s) - 1 + 1
  BY <1>1, FS_Interval
<1>6. (IF 1 > Len(s) THEN 0 ELSE Len(s) - 1 + 1) = Len(s)
  BY <1>1
<1> QED  BY <1>4, <1>5, <1>6

\* With distinct identifiers a sub-task is released when what it depends on,
\* and is in the plan, is done.
LEMMA ReleasedExact ==
  ASSUME NEW p \in Seq(Tasks), \A i, j \in DOMAIN p : p[i].id = p[j].id => i = j,
         NEW x \in DOMAIN p, NEW done \in SUBSET Ids(p)
  PROVE  Released(p, done, p[x].id) <=> ToSet(p[x].deps) \cap Ids(p) \subseteq done
<1> DEFINE t == p[x].id
           own == {i \in DOMAIN p : p[i].id = t}
           counted(i) == {k \in DOMAIN p[i].deps : p[i].deps[k] \in done}
           all == {k \in DOMAIN p[x].deps : p[x].deps[k] \in Ids(p)}
<1>1. DOMAIN p = 1 .. Len(p) /\ x \in Int /\ p[x] \in Tasks
  BY LenProperties, ElementOfSeq
<1>2. own = {x}
  OBVIOUS
<1>3. Max({x}) = x
  <2>1. {x} \in SUBSET Int /\ IsFiniteSet({x}) /\ {x} # {}
    BY <1>1, FS_Singleton
  <2>2. Max({x}) \in {x}
    BY <2>1, Extremes
  <2> QED  BY <2>2
<1>4. InDegree(p, t) = Cardinality(all)
  BY <1>2, <1>3 DEF InDegree
<1>5. IsFiniteSet(all) /\ Cardinality(all) \in Nat
  <2>1. p[x].deps \in Seq(Int)
    BY <1>1 DEF Tasks
  <2>2. DOMAIN p[x].deps = 1 .. Len(p[x].deps) /\ Len(p[x].deps) \in Nat
    BY <2>1, LenProperties
  <2>3. IsFiniteSet(DOMAIN p[x].deps)
    BY <2>2, FS_Interval
  <2>4. all \in SUBSET (DOMAIN p[x].deps)
    OBVIOUS
  <2> HIDE DEF all
  <2> QED  BY <2>3, <2>4, FS_Subset, FS_CardinalityType
<1>6. counted(x) \in SUBSET all
  OBVIOUS
<1>7. UNION {{i} \X counted(i) : i \in own} = {x} \X counted(x)
  BY <1>2
<1>8. Released(p, done, t) <=> Cardinality({x} \X counted(x)) >= Cardinality(all)
  BY <1>4, <1>7 DEF Released
<1>9. (ToSet(p[x].deps) \cap Ids(p) \subseteq done) <=> counted(x) = all
  BY DEF ToSet
<1> DEFINE c == counted(x)
<1> HIDE DEF all
<1>10. c \in SUBSET all
  BY <1>6
<1> HIDE DEF counted, c
<1>11. IsFiniteSet(c) /\ Cardinality(c) \in Nat /\ Cardinality(c) <= Cardinality(all)
  BY <1>5, <1>10, FS_Subset, FS_CardinalityType
<1>12. Cardinality({x} \X c) = Cardinality(c)
  <2>1. IsFiniteSet({x}) /\ Cardinality({x}) = 1
    BY FS_Singleton
  <2>2. Cardinality({x} \X c) = Cardinality({x}) * Cardinality(c)
    BY <1>11, <2>1, FS_Product
  <2> QED  BY <1>11, <2>1, <2>2
<1>13. Cardinality(c) >= Cardinality(all) => c = all
  BY <1>5, <1>10, <1>11, FS_Subset
<1>14. Released(p, done, t) <=> Cardinality(c) >= Cardinality(all)
  BY <1>8, <1>12 DEF c
<1>15. Cardinality(c) >= Cardinality(all) <=> c = all
  BY <1>5, <1>13
<1> QED  BY <1>9, <1>14, <1>15 DEF c

\* What a sub-task depends on in a plan.
Needs(p, t) ==
  UNION {ToSet(p[i].deps) \cap Ids(p) : i \in {j \in DOMAIN p : p[j].id = t}}

\* The same, by the identifier of the sub-task.
LEMMA ReleasedNeeds ==
  ASSUME NEW p \in Seq(Tasks), \A i, j \in DOMAIN p : p[i].id = p[j].id => i = j,
         NEW t \in Ids(p), NEW done \in SUBSET Ids(p)
  PROVE  Released(p, done, t) <=> Needs(p, t) \subseteq done
<1>1. PICK x \in DOMAIN p : p[x].id = t
  BY DEF Ids
<1>2. {j \in DOMAIN p : p[j].id = t} = {x}
  BY <1>1
<1>3. Needs(p, t) = ToSet(p[x].deps) \cap Ids(p)
  BY <1>2 DEF Needs
<1>4. Released(p, done, p[x].id) <=> ToSet(p[x].deps) \cap Ids(p) \subseteq done
  BY ReleasedExact
<1> QED  BY <1>1, <1>3, <1>4

\* A plan without a cycle is sorted to its end.
LEMMA AcyclicSorted ==
  ASSUME NEW p \in Seq(Tasks), \A i, j \in DOMAIN p : p[i].id = p[j].id => i = j,
         \A S \in SUBSET Ids(p) : S # {} => \E t \in S : Needs(p, t) \cap S = {}
  PROVE  Sorted(p, OrderIds(p))
<1> DEFINE k == KahnOrder(p)
           S == Ids(p) \ ToSet(k)
<1>1. Sorted(p, k) /\ Ready(p, k) = {}
  BY KahnFacts
<1>2. ToSet(k) \in SUBSET Ids(p)
  <2>1. k \in Seq(Ids(p))
    BY <1>1 DEF Sorted
  <2>2. DOMAIN k = 1 .. Len(k) /\ \A i \in DOMAIN k : k[i] \in Ids(p)
    BY <2>1, LenProperties, ElementOfSeq
  <2> HIDE DEF k
  <2> QED  BY <2>2 DEF ToSet
<1>3. S = {}
  <2> SUFFICES ASSUME S # {} PROVE FALSE
    OBVIOUS
  <2>1. PICK t \in S : Needs(p, t) \cap S = {}
    OBVIOUS
  <2>2. Needs(p, t) \subseteq ToSet(k)
    BY <2>1 DEF Needs
  <2>3. Released(p, ToSet(k), t)
    BY <1>2, <2>2, ReleasedNeeds
  <2> QED  BY <1>1, <2>3 DEF Ready
<1>4. Ascending({}) = <<>>
  <2>1. {} \in SUBSET Int /\ IsFiniteSet({}) /\ Cardinality({}) = 0
    BY FS_EmptySet
  <2>2. Ascending({}) \in Seq({}) /\ Len(Ascending({})) = 0
    BY <2>1, AscendingFacts
  <2> QED  BY <2>2, EmptySeq
<1>5. OrderIds(p) = k \o <<>>
  BY <1>3, <1>4 DEF OrderIds
<1>6. k \o <<>> = k
  <2>1. k \in Seq(Ids(p))
    BY <1>1 DEF Sorted
  <2> QED  BY <2>1, ConcatEmptySeq
<1> QED  BY <1>1, <1>5, <1>6

\* In a sorted plan nothing comes before what it depends on, and a larger
\* identifier comes before a smaller one only while that waits.
LEMMA SortedInOrder ==
  ASSUME NEW p \in Seq(Tasks), \A i, j \in DOMAIN p : p[i].id = p[j].id => i = j,
         NEW s, Sorted(p, s), NEW j \in DOMAIN s, NEW i \in 1 .. (j - 1)
  PROVE  /\ s[j] \notin Needs(p, s[i])
         /\ s[j] < s[i] => \E k \in i .. (j - 1) : s[k] \in Needs(p, s[j])
<1>1. /\ s \in Seq(Ids(p)) /\ \A m, n \in DOMAIN s : s[m] = s[n] => m = n
      /\ DOMAIN s = 1 .. Len(s) /\ Len(s) \in Nat
      /\ \A m \in DOMAIN s : s[m] \in Ids(p)
  BY LenProperties, ElementOfSeq DEF Sorted
<1>2. i \in DOMAIN s /\ i < j
  BY <1>1
<1>3. \A m \in DOMAIN s : Before(s, m) \in SUBSET Ids(p)
  BY <1>1 DEF Before
<1>4. \A m \in DOMAIN s : Needs(p, s[m]) \subseteq Before(s, m)
  <2> TAKE m \in DOMAIN s
  <2>1. Released(p, Before(s, m), s[m])
    BY DEF Sorted
  <2> QED  BY <1>1, <1>3, <2>1, ReleasedNeeds
<1>5. s[j] \notin Before(s, i)
  BY <1>1, <1>2 DEF Before
<1>6. ASSUME s[j] < s[i] PROVE \E k \in i .. (j - 1) : s[k] \in Needs(p, s[j])
  <2>1. ~Released(p, Before(s, i), s[j])
    <3> SUFFICES ASSUME Released(p, Before(s, i), s[j]) PROVE FALSE
      OBVIOUS
    <3>1. s[i] <= s[j]
      BY <1>1, <1>2, <1>5 DEF Sorted
    <3>2. s[i] \in Int /\ s[j] \in Int
      BY <1>1, <1>2, IdsFinite
    <3> QED  BY <1>6, <3>1, <3>2
  <2>2. ~(Needs(p, s[j]) \subseteq Before(s, i))
    BY <1>1, <1>2, <1>3, <2>1, ReleasedNeeds
  <2>3. PICK d \in Needs(p, s[j]) : d \notin Before(s, i)
    BY <2>2
  <2>4. d \in Before(s, j)
    BY <1>4, <2>3
  <2>5. PICK k \in 1 .. (j - 1) : s[k] = d
    BY <2>4 DEF Before
  <2>6. ~(k < i)
    BY <1>1, <1>2, <2>3, <2>5 DEF Before
  <2>7. k \in i .. (j - 1)
    BY <1>1, <1>2, <2>5, <2>6
  <2> QED  BY <2>3, <2>5, <2>7
<1> QED  BY <1>2, <1>4, <1>5, <1>6

\* The sections of a reply of the rules: each result once and, in a plan
\* without a cycle, none before one it depends on, a larger identifier before a
\* smaller one only while that waits (_order_by_dependencies).
THEOREM PartsAreInOrder == Spec => []PartsInOrder
<1>1. Sound => PartsInOrder
  <2> SUFFICES ASSUME Sound, at = "replied", reply.by = "rules", UniqueIds
               PROVE  PartsInOrder
    BY DEF PartsInOrder
  <2> DEFINE o == OrderIds(plan)
  <2>1. /\ plan \in Seq(Tasks) /\ Answered(plan, results)
        /\ reply = MergeByRules(results, plan) \/ reply = MergeByLLM(results)
    BY DEF Sound
  <2>2. reply = MergeByRules(results, plan)
    <3>1. MergeByLLM(results).by = "llm"
      BY DEF MergeByLLM, Reply
    <3> QED  BY <2>1, <3>1
  <2>3. reply.listed = o
    <3>1. reply.listed = IdsOf(OrderByDependencies(results, plan))
      BY <2>2 DEF MergeByRules, Reply
    <3> QED  BY <2>1, <3>1, OrderedFacts
  <2>4. /\ o \in Seq(Ids(plan)) /\ ToSet(o) = Ids(plan)
        /\ \A i, j \in DOMAIN o : o[i] = o[j] => i = j
    BY <2>1, OrderFacts
  <2>5. Len(o) = Len(plan)
    BY <2>1, <2>4, OnceEach DEF UniqueIds
  <2>6. \A i, j \in DOMAIN plan : plan[i].id = plan[j].id => i = j
    <3> TAKE i, j \in DOMAIN plan
    <3>1. DOMAIN results = DOMAIN plan /\ \A k \in DOMAIN plan : results[k].id = plan[k].id
      BY <2>1, AnsweredIds DEF Answered
    <3> QED  BY <2>1, <3>1, IdsApart DEF UniqueIds
  <2>7. \A t : Dependencies(t) = Needs(plan, t)
    BY DEF Dependencies, Known, Needs
  <2>8. ASSUME Acyclic, NEW j \in DOMAIN o, NEW i \in 1 .. (j - 1)
        PROVE  /\ o[j] \notin Dependencies(o[i])
               /\ o[j] < o[i] => \E k \in i .. (j - 1) : o[k] \in Dependencies(o[j])
    <3>1. Sorted(plan, o)
      BY <2>1, <2>6, <2>7, <2>8, AcyclicSorted DEF Acyclic
    <3> HIDE DEF o
    <3>2. /\ o[j] \notin Needs(plan, o[i])
          /\ o[j] < o[i] => \E k \in i .. (j - 1) : o[k] \in Needs(plan, o[j])
      BY <2>1, <2>6, <3>1, SortedInOrder
    <3> QED  BY <2>7, <3>2
  <2> HIDE DEF o
  <2> QED  BY <2>3, <2>4, <2>5, <2>8 DEF PartsInOrder
<1> QED  BY <1>1, PipelineSound, PTL

-----------------------------------------------------------------------------
(* The plans of the rules run as they stand.                               *)

\* Each sub-task has its place for an identifier and waits for earlier ones.
Chained(p) ==
  \A i \in DOMAIN p : p[i].id = i /\ ToSet(p[i].deps) \subseteq 1 .. (i - 1)

\* The sub-tasks that are told the word at a position.
ToldTo(p, i) == {t \in DOMAIN p : i \in p[t].first .. p[t].last}

\* Numbered sub-tasks that wait for nothing or for the previous one.
LEMMA ChainedPlan ==
  ASSUME NEW t, NEW n \in Nat, NEW p, DOMAIN p = 1 .. n,
         \A i \in 1 .. n : /\ p[i].id = i
                           /\ p[i].deps = <<>> \/ p[i].deps = AfterThePrevious(i)
  PROVE  Chained(p)
<1> SUFFICES ASSUME NEW i \in 1 .. n PROVE ToSet(p[i].deps) \subseteq 1 .. (i - 1)
  BY DEF Chained
<1>1. ToSet(<<>>) \subseteq 1 .. (i - 1)
  BY DEF ToSet
<1>2. i # 1 => ToSet(<<i - 1>>) \subseteq 1 .. (i - 1)
  BY DEF ToSet
<1> QED  BY <1>1, <1>2 DEF AfterThePrevious

\* The pieces that hold a position, when n of them begin at e.
Pieces(n, e, x) == {k \in 1 .. n : e[k] <= x /\ (k = n \/ x < e[k + 1])}

\* Of pieces that begin one after the other and end where the next begins,
\* exactly one holds a position that the first or a later one holds.
LEMMA OnePiece ==
  ASSUME NEW n \in Nat, NEW e \in [1 .. n -> Int],
         \A i, j \in 1 .. n : i < j => e[i] < e[j],
         NEW x \in Int, n > 0, e[1] <= x
  PROVE  Cardinality(Pieces(n, e, x)) = 1
<1> DEFINE T == Pieces(n, e, x)
           B == {k \in 1 .. n : e[k] <= x}
<1>1. B \in SUBSET Int /\ B # {}
  OBVIOUS
<1>2. IsFiniteSet(B)
  <2>1. IsFiniteSet(1 .. n) /\ B \in SUBSET (1 .. n)
    BY FS_Interval
  <2> HIDE DEF B
  <2> QED  BY <2>1, FS_Subset
<1>3. PICK m \in B : \A y \in B : y <= m
  <2> HIDE DEF B
  <2>1. Max(B) \in B /\ \A y \in B : Max(B) >= y
    BY <1>1, <1>2, Extremes
  <2> QED  BY <1>1, <2>1
<1>4. m \in 1 .. n /\ e[m] <= x
  OBVIOUS
<1> USE DEF Pieces
<1>5. m \in T
  <2>1. m # n => m + 1 \in 1 .. n /\ m + 1 \notin B
    BY <1>3, <1>4
  <2>2. m # n => x < e[m + 1]
    BY <2>1
  <2> QED  BY <1>4, <2>2
<1>6. ASSUME NEW k \in T PROVE k = m
  <2>1. k \in B /\ k <= m
    BY <1>3
  <2>2. ASSUME k < m PROVE FALSE
    <3>1. k + 1 \in 1 .. n /\ k # n /\ x < e[k + 1]
      BY <1>4, <2>1, <2>2
    <3>2. e[k + 1] <= e[m]
      BY <1>4, <2>1, <2>2
    <3>3. e[k + 1] \in Int /\ e[m] \in Int
      BY <1>4, <3>1
    <3> QED  BY <1>4, <3>1, <3>2, <3>3
  <2> QED  BY <1>4, <2>1, <2>2
<1>7. T = {m}
  BY <1>5, <1>6
<1> QED  BY <1>7, FS_Singleton

\* The sub-tasks by step: TaskSplitter._split_by_steps.
LEMMA StepsRun ==
  ASSUME NEW t \in Text, NEW p, p = SplitBySteps(t), Cardinality(StepStarts(t)) >= 3
  PROVE  /\ Chained(p)
         /\ \A x \in p[1].first .. Len(t) : Cardinality(ToldTo(p, x)) = 1
<1> DEFINE b == Ascending(StepStarts(t))
           n == Len(b)
           last(i) == IF i = n THEN Len(t) ELSE b[i + 1] - 1
<1>1. /\ DOMAIN b = 1 .. n /\ n = Cardinality(StepStarts(t)) /\ n \in Nat
      /\ \A i \in DOMAIN b : b[i] \in 1 .. Len(t)
      /\ \A i, j \in DOMAIN b : i < j => b[i] < b[j]
  BY StepsFacts
<1>2. p = [i \in 1 .. n |-> SubTask(i, AfterThePrevious(i), b[i], last(i), t)]
  BY <1>1 DEF SplitBySteps
<1>3. Len(t) \in Nat /\ n > 0
  BY <1>1, TextFacts
<1>4. b \in Seq(StepStarts(t))
  <2>1. StepStarts(t) \in SUBSET (DOMAIN t)
    BY DEF StepStarts
  <2>2. StepStarts(t) \in SUBSET Int /\ IsFiniteSet(StepStarts(t))
    BY <2>1, TextFacts
  <2> QED  BY <2>2, AscendingFacts
<1>5. b \in [1 .. n -> StepStarts(t)]
  BY <1>4, LenProperties
<1> HIDE DEF b, n
<1>6. b \in [1 .. n -> Int]
  BY <1>1, <1>3, <1>5
<1>7. /\ DOMAIN p = 1 .. n
      /\ \A i \in 1 .. n : /\ p[i].id = i /\ p[i].deps = AfterThePrevious(i)
                           /\ p[i].first = b[i] /\ p[i].last = last(i)
  BY <1>2 DEF SubTask
<1>8. Chained(p)
  BY <1>1, <1>7, ChainedPlan
<1>9. ASSUME NEW x \in p[1].first .. Len(t) PROVE Cardinality(ToldTo(p, x)) = 1
  <2> DEFINE T == Pieces(n, b, x)
  <2>1. p[1].first = b[1] /\ b[1] \in Int
    BY <1>1, <1>3, <1>7
  <2>2. b[1] <= x /\ x <= Len(t) /\ x \in Int
    BY <1>3, <2>1
  <2>3. ASSUME NEW k \in 1 .. n
        PROVE  x \in p[k].first .. p[k].last <=> (b[k] <= x /\ (k = n \/ x < b[k + 1]))
    <3>1. p[k].first = b[k] /\ b[k] \in Int
      BY <1>1, <1>3, <1>7
    <3>2. k = n => p[k].last = Len(t)
      BY <1>7
    <3>3. k # n => p[k].last = b[k + 1] - 1 /\ b[k + 1] \in Int
      <4>1. k # n => k + 1 \in 1 .. n
        BY <1>1
      <4> QED  BY <1>6, <1>7, <4>1
    <3> QED  BY <1>3, <2>2, <3>1, <3>2, <3>3
  <2>4. ToldTo(p, x) = T
    BY <1>7, <2>3 DEF ToldTo, Pieces
  <2>5. \A i, j \in 1 .. n : i < j => b[i] < b[j]
    BY <1>1
  <2>6. Cardinality(T) = 1
    BY <1>1, <1>3, <1>6, <2>2, <2>5, OnePiece
  <2> QED  BY <2>4, <2>6
<1> QED  BY <1>8, <1>9

\* Chunks of a size begin one after the other.
LEMMA ChunksRise ==
  ASSUME NEW size \in Nat \ {0}, NEW i \in Int, NEW j \in Int, i < j
  PROVE  (i - 1) * size + 1 < (j - 1) * size + 1
<1>1. (j - 1) * size = (i - 1) * size + (j - i) * size
  OBVIOUS
<1>2. (j - i) * size > 0
  OBVIOUS
<1>3. (i - 1) * size \in Int /\ (j - 1) * size \in Int /\ (j - i) * size \in Int
  OBVIOUS
<1> QED  BY <1>1, <1>2, <1>3

\* The chunks of a text: TaskSplitter._split_by_tokens.
LEMMA TokensRun ==
  ASSUME NEW t \in Text, NEW n \in Nat, n >= 2, NEW p, p = SplitByTokens(t, n)
  PROVE  /\ Chained(p)
         /\ \A x \in p[1].first .. Len(t) : Cardinality(ToldTo(p, x)) = 1
<1> DEFINE size == Max({1, Len(t) \div n})
           first(i) == (i - 1) * size + 1
           last(i) == IF i = n THEN Len(t) ELSE Min({i * size, Len(t)})
           e == [i \in 1 .. n |-> (i - 1) * size + 1]
<1>1. Len(t) \in Nat
  BY TextFacts
<1>2. size \in Nat \ {0}
  <2>1. Len(t) \div n \in Int
    BY <1>1
  <2>2. \A d \in Int : Max({1, d}) = IF 1 >= d THEN 1 ELSE d
    BY OfTwo
  <2> QED  BY <2>1, <2>2
<1>3. p = [i \in 1 .. n |-> SubTask(i, AfterThePrevious(i), first(i), last(i), t)]
  BY DEF SplitByTokens
<1> HIDE DEF size
<1>4. \A i \in 1 .. n : first(i) \in Int /\ i * size \in Int
  BY <1>2
<1>5. /\ e \in [1 .. n -> Int]
      /\ \A i \in 1 .. n : e[i] = first(i)
  BY <1>4
<1>6. \A i, j \in 1 .. n : i < j => e[i] < e[j]
  <2> SUFFICES ASSUME NEW i \in 1 .. n, NEW j \in 1 .. n, i < j PROVE e[i] < e[j]
    OBVIOUS
  <2>1. first(i) < first(j)
    BY <1>2, ChunksRise
  <2> QED  BY <1>5, <2>1
<1>7. \A i \in 1 .. n : i # n => i + 1 \in 1 .. n /\ e[i + 1] = i * size + 1
  <2> SUFFICES ASSUME NEW i \in 1 .. n, i # n
               PROVE  i + 1 \in 1 .. n /\ e[i + 1] = i * size + 1
    OBVIOUS
  <2>1. i + 1 \in 1 .. n /\ (i + 1) - 1 = i
    OBVIOUS
  <2> QED  BY <1>5, <2>1
<1> HIDE DEF e, first, last
<1>8. /\ DOMAIN p = 1 .. n
      /\ \A i \in 1 .. n : /\ p[i].id = i /\ p[i].deps = AfterThePrevious(i)
                           /\ p[i].first = e[i] /\ p[i].last = last(i)
  BY <1>3, <1>5 DEF SubTask
<1>9. Chained(p)
  BY <1>8, ChainedPlan
<1>10. ASSUME NEW x \in p[1].first .. Len(t) PROVE Cardinality(ToldTo(p, x)) = 1
  <2>1. p[1].first = e[1] /\ e[1] \in Int
    BY <1>5, <1>8
  <2>2. e[1] <= x /\ x <= Len(t) /\ x \in Int /\ n > 0
    BY <1>1, <2>1
  <2>3. ASSUME NEW k \in 1 .. n
        PROVE  x \in p[k].first .. p[k].last <=> (e[k] <= x /\ (k = n \/ x < e[k + 1]))
    <3>1. p[k].first = e[k] /\ e[k] \in Int
      BY <1>5, <1>8
    <3>2. k = n => p[k].last = Len(t)
      BY <1>8 DEF last
    <3>3. k # n => p[k].last = Min({k * size, Len(t)}) /\ e[k + 1] = k * size + 1
      BY <1>7, <1>8 DEF last
    <3>4. Min({k * size, Len(t)}) = IF k * size <= Len(t) THEN k * size ELSE Len(t)
      <4>1. \A d \in Int : Min({d, Len(t)}) = IF d <= Len(t) THEN d ELSE Len(t)
        BY <1>1, OfTwo
      <4> QED  BY <1>4, <4>1
    <3> QED  BY <1>1, <1>4, <2>2, <3>1, <3>2, <3>3, <3>4
  <2>4. ToldTo(p, x) = Pieces(n, e, x)
    BY <1>8, <2>3 DEF ToldTo, Pieces
  <2>5. Cardinality(Pieces(n, e, x)) = 1
    BY <1>5, <1>6, <2>2, OnePiece
  <2> QED  BY <2>4, <2>5
<1> QED  BY <1>9, <1>10

\* The sub-tasks by file: TaskSplitter._split_by_file.
LEMMA FilesRun ==
  ASSUME NEW t \in Text, NEW p, p = SplitByFile(t)
  PROVE  /\ Chained(p)
         /\ \A i \in DOMAIN t :
              t[i] \in Files => \E j \in DOMAIN t : t[j] = t[i] /\ ToldTo(p, j) # {}
<1> DEFINE fs == DistinctFiles(t)
           place(f) == Min({i \in DOMAIN t : t[i] = f})
           first(i) == Max({1, place(fs[i]) - Around})
           last(i) == Min({Len(t), place(fs[i]) + Around})
<1>1. /\ DOMAIN fs = 1 .. Len(fs) /\ Len(fs) \in Nat
      /\ ToSet(fs) = {t[i] : i \in {j \in DOMAIN t : t[j] \in Files}}
      /\ \A i \in DOMAIN fs : place(fs[i]) \in DOMAIN t /\ t[place(fs[i])] = fs[i]
  BY FilesFacts
<1>2. p = [i \in DOMAIN fs |-> SubTask(i, <<>>, first(i), last(i), t)]
  BY DEF SplitByFile
<1> HIDE DEF fs, place
<1>3. Len(t) \in Nat /\ DOMAIN t = 1 .. Len(t)
  BY TextFacts
<1>4. ASSUME NEW i \in DOMAIN fs
      PROVE  place(fs[i]) \in first(i) .. last(i)
  <2> DEFINE m == place(fs[i])
  <2>1. m \in 1 .. Len(t)
    BY <1>1, <1>3
  <2> HIDE DEF m
  <2>2. m - Around \in Int /\ m + Around \in Int /\ m - Around <= m /\ m <= m + Around
    BY <2>1, SplittingAssumption
  <2>3. Max({1, m - Around}) = IF 1 >= m - Around THEN 1 ELSE m - Around
    <3>1. \A d \in Int : Max({1, d}) = IF 1 >= d THEN 1 ELSE d
      BY OfTwo
    <3> QED  BY <2>2, <3>1
  <2>4. Min({Len(t), m + Around}) = IF Len(t) <= m + Around THEN Len(t) ELSE m + Around
    BY <1>3, <2>2, OfTwo
  <2>5. m \in Max({1, m - Around}) .. Min({Len(t), m + Around})
    BY <1>3, <2>1, <2>2, <2>3, <2>4
  <2> QED  BY <2>5 DEF m
<1> HIDE DEF first, last
<1>5. /\ DOMAIN p = 1 .. Len(fs)
      /\ \A i \in 1 .. Len(fs) : /\ p[i].id = i /\ p[i].deps = <<>>
                                 /\ p[i].first = first(i) /\ p[i].last = last(i)
  BY <1>1, <1>2 DEF SubTask
<1>6. Chained(p)
  BY <1>1, <1>5, ChainedPlan
<1>7. ASSUME NEW i \in DOMAIN t, t[i] \in Files
      PROVE  \E j \in DOMAIN t : t[j] = t[i] /\ ToldTo(p, j) # {}
  <2>1. t[i] \in ToSet(fs)
    BY <1>1, <1>7
  <2>2. PICK n \in DOMAIN fs : fs[n] = t[i]
    BY <2>1 DEF ToSet
  <2>3. place(fs[n]) \in p[n].first .. p[n].last /\ n \in DOMAIN p
    BY <1>1, <1>4, <1>5
  <2>4. n \in ToldTo(p, place(fs[n]))
    BY <2>3 DEF ToldTo
  <2> QED  BY <1>1, <2>2, <2>4
<1> QED  BY <1>6, <1>7

\* A plan of the rules that had the request has two sub-tasks or more, each
\* after earlier ones only.  By step and by size, every word from the first
\* sub-task's on is told to exactly one of them; by file, every file is told
\* (TaskSplitter.split).
THEOREM PlansAreRunnable == Spec => []PlansRunnable
<1>1. Sound => PlansRunnable
  <2> SUFFICES ASSUME Sound, flow = "rules", at = "execute" PROVE PlansRunnable
    BY DEF PlansRunnable
  <2> DEFINE n == SuggestedCount(text)
  <2>1. text \in Text /\ Len(plan) > 1 /\ plan = RulesSplit(text, n)
    BY DEF Sound
  <2>2. n \in Nat /\ n >= 2
    BY <2>1, SuggestedFacts
  <2> HIDE DEF n
  <2>3. Max({1, n}) = n
    BY <2>2, OfTwo
  <2>4. Len(plan) >= 2
    <3>1. plan \in Seq(Tasks)
      BY DEF Sound
    <3> QED  BY <2>1, <3>1, LenProperties
  <2>5. ASSUME Len(DistinctFiles(text)) >= 2
        PROVE  /\ Chained(plan)
               /\ \A i \in DOMAIN text :
                    text[i] \in Files => \E j \in DOMAIN text :
                                           text[j] = text[i] /\ ToldTo(plan, j) # {}
    <3>1. plan = SplitByFile(text)
      BY <2>1, <2>5 DEF RulesSplit
    <3> QED  BY <2>1, <3>1, FilesRun
  <2>6. ASSUME ~(Len(DistinctFiles(text)) >= 2)
        PROVE  /\ Chained(plan)
               /\ \A i \in plan[1].first .. Len(text) : Cardinality(ToldTo(plan, i)) = 1
    <3>1. CASE Cardinality(StepStarts(text)) >= 3
      <4>1. plan = SplitBySteps(text)
        BY <2>1, <2>6, <3>1 DEF RulesSplit
      <4> QED  BY <2>1, <3>1, <4>1, StepsRun
    <3>2. CASE ~(Cardinality(StepStarts(text)) >= 3)
      <4>1. plan = SplitByTokens(text, n)
        BY <2>1, <2>3, <2>6, <3>2 DEF RulesSplit
      <4> QED  BY <2>1, <2>2, <4>1, TokensRun
    <3> QED  BY <3>1, <3>2
  <2> QED  BY <2>4, <2>5, <2>6 DEF PlansRunnable, Chained, ToldTo
<1> QED  BY <1>1, PipelineSound, PTL
=============================================================================
