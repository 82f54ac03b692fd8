-------------------------- MODULE SearchResults_proofs -------------------------
(***************************************************************************)
(* Proofs about SearchResults for any results, indexers, scores, titles,   *)
(* columns, choices and page sizes. First sorting: a stable sort lists a   *)
(* set completely and once. Then what the server merged, from one place to *)
(* another, and the grouping, in which a result determines its bucket and  *)
(* its group. The inductive invariant says that the groups which were kept *)
(* are those of the results, filters and choices there are now, and that   *)
(* the cursor stands behind what is loaded.                                *)
(***************************************************************************)
EXTENDS SearchResults, FiniteSetTheorems, SequenceTheorems, TLAPS

-----------------------------------------------------------------------------
(* Sorting                                                                 *)

\* A relation in which any two elements can be compared, antisymmetric and transitive.
IsTotalOrder(R, K) ==
    /\ \A j, k \in K : <<j, k>> \in R \/ <<k, j>> \in R
    /\ \A j, k \in K : <<j, k>> \in R /\ <<k, j>> \in R => j = k
    /\ \A j, k, l \in K : <<j, k>> \in R /\ <<k, l>> \in R => <<j, l>> \in R

\* How many elements come before one, itself included.
Rank(R, K, k) == Cardinality({j \in K : <<j, k>> \in R})

\* In a finite set with a total order the ranks are 1 to the number of elements, each taken once.
LEMMA Ranks ==
    ASSUME NEW K, IsFiniteSet(K), NEW R, IsTotalOrder(R, K)
    PROVE  /\ Cardinality(K) \in Nat
           /\ \A k \in K : Rank(R, K, k) \in 1..Cardinality(K)
           /\ \A j, k \in K : Rank(R, K, j) = Rank(R, K, k) => j = k
           /\ \A r \in 1..Cardinality(K) : \E k \in K : Rank(R, K, k) = r
           /\ \A j, k \in K : <<j, k>> \in R /\ j # k => Rank(R, K, j) < Rank(R, K, k)
<1> DEFINE rank(k) == Cardinality({j \in K : <<j, k>> \in R})
           m == Cardinality(K)
<1>1. m \in Nat
  BY FS_CardinalityType
<1>2. ASSUME NEW k \in K
      PROVE  rank(k) \in 1..m /\ IsFiniteSet({j \in K : <<j, k>> \in R})
  <2> DEFINE T == {j \in K : <<j, k>> \in R}
  <2>1. T \in SUBSET K /\ k \in T
    BY DEF IsTotalOrder
  <2> HIDE DEF T
  <2>2. IsFiniteSet(T) /\ Cardinality(T) <= m /\ Cardinality(T) \in Nat
    BY <1>1, <2>1, FS_Subset, FS_CardinalityType
  <2>3. Cardinality(T) # 0
    BY <2>1, <2>2, FS_EmptySet
  <2>4. Cardinality(T) \in 1..m
    BY <1>1, <2>2, <2>3
  <2>5. QED BY <2>2, <2>4 DEF T
<1>3. ASSUME NEW j \in K, NEW k \in K, <<j, k>> \in R, j # k
      PROVE  rank(j) < rank(k)
  <2> DEFINE T == {l \in K : <<l, k>> \in R}
             S == {l \in K : <<l, j>> \in R}
  <2>1. S \in SUBSET T /\ k \in T /\ k \notin S
    <3>1. \A l \in K : <<l, j>> \in R => <<l, k>> \in R
      BY <1>3 DEF IsTotalOrder
    <3>2. S \subseteq T
      BY <3>1
    <3>3. k \in T /\ k \notin S
      BY <1>3 DEF IsTotalOrder
    <3>4. QED BY <3>2, <3>3
  <2>2. IsFiniteSet(T) /\ Cardinality(T) \in Nat /\ Cardinality(S) \in Nat
    BY <1>2
  <2> HIDE DEF T, S
  <2>3. Cardinality(S) <= Cardinality(T) /\ Cardinality(S) # Cardinality(T)
    BY <2>1, <2>2, FS_Subset
  <2>4. Cardinality(S) < Cardinality(T)
    BY <2>2, <2>3
  <2>5. QED BY <2>4 DEF T, S
<1> DEFINE f == [k \in K |-> rank(k)]
<1> HIDE DEF rank
<1>4. ASSUME NEW j \in K, NEW k \in K, rank(j) = rank(k) PROVE j = k
  <2>1. rank(j) \in 1..m /\ rank(k) \in 1..m
    BY <1>2
  <2>2. ~ (rank(j) < rank(k)) /\ ~ (rank(k) < rank(j))
    BY <1>1, <1>4, <2>1
  <2>3. QED BY <1>3, <2>2 DEF IsTotalOrder
<1>5. f \in Injection(K, 1..m)
  <2>1. f \in [K -> 1..m]
    BY <1>2
  <2>2. \A k \in K : f[k] = rank(k)
    OBVIOUS
  <2> HIDE DEF f
  <2>3. QED BY <1>4, <2>1, <2>2 DEF Injection, IsInjective
<1>6. IsFiniteSet(1..m) /\ Cardinality(1..m) = m
  BY <1>1, FS_Interval
<1>7. f \in Surjection(K, 1..m)
  <2> HIDE DEF f, m
  <2>1. Cardinality(K) = Cardinality(1..m)
    BY <1>6 DEF m
  <2>2. QED BY <1>5, <1>6, <2>1, FS_Injection
<1>8. \A r \in 1..m : \E k \in K : rank(k) = r
  BY <1>7 DEF Surjection
<1>9. QED BY <1>1, <1>2, <1>3, <1>4, <1>8 DEF rank, Rank

\* What a stable sort puts before an element, itself included.
UpTo(set, value, place, x) ==
    {y \in set : value[y] < value[x] \/ (value[y] = value[x] /\ place[y] <= place[x])}

\* The element with a number of them.
Nth(set, value, place, n) == CHOOSE x \in set : Cardinality(UpTo(set, value, place, x)) = n

\* A sequence which has every element of a set once.
Lists(s, set) ==
    /\ Cardinality(set) \in Nat
    /\ s \in [1..Cardinality(set) -> set]
    /\ \A m, n \in 1..Cardinality(set) : s[m] = s[n] => m = n
    /\ \A x \in set : \E n \in 1..Cardinality(set) : s[n] = x

\* A stable sort neither loses nor repeats anything, and sorts.
LEMMA StableSorted ==
    ASSUME NEW set, IsFiniteSet(set), NEW value \in [set -> Int], NEW place \in [set -> Int],
           \A x, y \in set : place[x] = place[y] => x = y
    PROVE  /\ Lists(StableSort(set, value, place), set)
           /\ \A n \in 1..Cardinality(set) :
                  Cardinality(UpTo(set, value, place, StableSort(set, value, place)[n])) = n
           /\ \A m, n \in 1..Cardinality(set) :
                  m < n => StableSort(set, value, place)[m]
                               \in UpTo(set, value, place, StableSort(set, value, place)[n])
<1> DEFINE R == {p \in set \X set : p[1] \in UpTo(set, value, place, p[2])}
           f == StableSort(set, value, place)
           c == Cardinality(set)
<1>1. \A x, y \in set :
          <<x, y>> \in R <=> value[x] < value[y] \/ (value[x] = value[y] /\ place[x] <= place[y])
  BY DEF UpTo
<1>2. \A x \in set : Rank(R, set, x) = Cardinality(UpTo(set, value, place, x))
  <2>1. \A x \in set : {y \in set : <<y, x>> \in R} = UpTo(set, value, place, x)
    BY DEF UpTo
  <2>2. QED BY <2>1 DEF Rank
<1>3. \A x, y \in set : <<x, y>> \in R <=> x \in UpTo(set, value, place, y)
  OBVIOUS
<1> HIDE DEF R
<1>4. IsTotalOrder(R, set)
  <2>1. ASSUME NEW x \in set, NEW y \in set PROVE <<x, y>> \in R \/ <<y, x>> \in R
    BY <1>1
  <2>2. ASSUME NEW x \in set, NEW y \in set, <<x, y>> \in R, <<y, x>> \in R PROVE x = y
    <3>1. place[x] = place[y]
      BY <1>1, <2>2
    <3>2. QED BY <3>1
  <2>3. ASSUME NEW x \in set, NEW y \in set, NEW z \in set, <<x, y>> \in R, <<y, z>> \in R
        PROVE  <<x, z>> \in R
    BY <1>1, <2>3
  <2>4. QED BY <2>1, <2>2, <2>3 DEF IsTotalOrder
<1>5. /\ c \in Nat
      /\ \A x \in set : Rank(R, set, x) \in 1..c
      /\ \A x, y \in set : Rank(R, set, x) = Rank(R, set, y) => x = y
      /\ \A r \in 1..c : \E x \in set : Rank(R, set, x) = r
      /\ \A x, y \in set : <<x, y>> \in R /\ x # y => Rank(R, set, x) < Rank(R, set, y)
  BY <1>4, Ranks
<1>6. f = [n \in 1..c |-> Nth(set, value, place, n)]
  BY DEF StableSort, Nth, UpTo
<1> HIDE DEF c, f
<1>7. \A n \in 1..c : Nth(set, value, place, n) \in set /\ Rank(R, set, Nth(set, value, place, n)) = n
  BY <1>2, <1>5 DEF Nth
<1>8. f \in [1..c -> set] /\ \A n \in 1..c : f[n] \in set /\ Rank(R, set, f[n]) = n
  BY <1>6, <1>7
<1>9. \A m, n \in 1..c : f[m] = f[n] => m = n
  BY <1>8
<1>10. \A x \in set : \E n \in 1..c : f[n] = x
  <2>1. ASSUME NEW x \in set PROVE \E n \in 1..c : f[n] = x
    <3>1. Rank(R, set, x) \in 1..c /\ f[Rank(R, set, x)] \in set
      BY <1>5, <1>8
    <3>2. f[Rank(R, set, x)] = x
      BY <1>5, <1>8, <3>1
    <3>3. QED BY <3>1, <3>2
  <2>2. QED BY <2>1
<1>11. ASSUME NEW m \in 1..c, NEW n \in 1..c, m < n PROVE f[m] \in UpTo(set, value, place, f[n])
  <2>1. f[m] \in set /\ f[n] \in set /\ Rank(R, set, f[m]) = m /\ Rank(R, set, f[n]) = n
    BY <1>8
  <2>2. CASE <<f[m], f[n]>> \in R
    BY <1>3, <2>1, <2>2
  <2>3. CASE <<f[n], f[m]>> \in R
    <3>1. f[n] # f[m]
      BY <1>9, <1>11
    <3>2. n < m
      BY <1>5, <2>1, <2>3, <3>1
    <3>3. QED BY <1>5, <1>11, <3>2
  <2>4. QED BY <1>4, <2>1, <2>2, <2>3 DEF IsTotalOrder
<1>12. Lists(f, set)
  BY <1>5, <1>8, <1>9, <1>10 DEF Lists, c
<1>13. QED BY <1>2, <1>8, <1>11, <1>12 DEF c, f

-----------------------------------------------------------------------------
(* What the server merged, from one place to another                       *)

\* What is listed is a sequence.
LEMMA Listed ==
    ASSUME NEW set, NEW s, Lists(s, set)
    PROVE  /\ s \in Seq(set) /\ Len(s) = Cardinality(set) /\ Len(s) \in Nat
           /\ DOMAIN s = 1..Len(s)
           /\ \A n \in DOMAIN s : s[n] \in set
           /\ \A m, n \in DOMAIN s : s[m] = s[n] => m = n
           /\ \A x \in set : \E n \in DOMAIN s : s[n] = x
           /\ ToSet(s) = set
<1>1. Cardinality(set) \in Nat /\ s \in [1..Cardinality(set) -> set] /\ DOMAIN s = 1..Cardinality(set)
  BY DEF Lists
<1>2. s \in Seq(set)
  BY <1>1, SeqDef
<1>3. Len(s) = Cardinality(set)
  BY <1>1, <1>2, LenProperties
<1>4. ToSet(s) = set
  BY <1>1 DEF Lists, ToSet
<1>5. QED BY <1>1, <1>2, <1>3, <1>4 DEF Lists

\* The image of a finite set is finite.
LEMMA FiniteImage ==
    ASSUME NEW S, IsFiniteSet(S), NEW f, DOMAIN f = S
    PROVE  IsFiniteSet({f[x] : x \in S})
<1> DEFINE g == [x \in S |-> f[x]]
<1>1. g \in Surjection(S, {f[x] : x \in S})
  BY DEF Surjection
<1>2. QED BY <1>1, FS_Surjection

\* The results of a sequence are finitely many, and each has its place.
LEMMA PlacesOfResults ==
    ASSUME NEW set, NEW s \in Seq(set)
    PROVE  /\ IsFiniteSet(ToSet(s))
           /\ ToSet(s) \subseteq set
           /\ \A r \in ToSet(s) : Place(r, s) \in 1..Len(s) /\ s[Place(r, s)] = r
<1>1. DOMAIN s = 1..Len(s) /\ Len(s) \in Nat /\ s \in [1..Len(s) -> set]
  BY LenProperties
<1>2. IsFiniteSet(ToSet(s))
  <2>1. IsFiniteSet(1..Len(s))
    BY <1>1, FS_Interval
  <2>2. ToSet(s) = {s[k] : k \in 1..Len(s)}
    BY <1>1 DEF ToSet
  <2>3. QED BY <1>1, <2>1, <2>2, FiniteImage
<1>3. \A r \in ToSet(s) : \E k \in DOMAIN s : s[k] = r
  BY DEF ToSet
<1>4. \A r \in ToSet(s) : Place(r, s) \in DOMAIN s /\ s[Place(r, s)] = r
  BY <1>3 DEF Place
<1>5. ToSet(s) \subseteq set
  BY <1>1 DEF ToSet
<1>6. QED BY <1>1, <1>2, <1>4, <1>5

\* The places of results differ.
LEMMA PlaceInjective ==
    ASSUME NEW S, NEW s \in Seq(S), NEW set \in SUBSET ToSet(s)
    PROVE  /\ PlaceIn(s, set) \in [set -> Int]
           /\ \A r \in set : PlaceIn(s, set)[r] = Place(r, s)
           /\ \A x, y \in set : PlaceIn(s, set)[x] = PlaceIn(s, set)[y] => x = y
<1>1. \A r \in set : Place(r, s) \in 1..Len(s) /\ s[Place(r, s)] = r /\ Len(s) \in Nat
  BY PlacesOfResults, LenProperties
<1>2. \A r \in set : PlaceIn(s, set)[r] = Place(r, s)
  BY DEF PlaceIn
<1>3. PlaceIn(s, set) \in [set -> Int]
  BY <1>1 DEF PlaceIn
<1>4. QED BY <1>1, <1>2, <1>3

LEMMA AcceptedOnce ==
    /\ Len(Accepted) \in Nat
    /\ Accepted \in [1..Len(Accepted) -> Results]
    /\ \A j, k \in 1..Len(Accepted) : Accepted[j] = Accepted[k] => j = k
<1>1. Accepted \in Seq(Results) /\ DOMAIN Accepted = 1..Len(Accepted)
  BY ResultsAssumption, LenProperties
<1>2. QED BY <1>1, ResultsAssumption, LenProperties DEF IsInjective

LEMMA PartOfAccepted ==
    ASSUME NEW m \in 0..Len(Accepted), NEW n \in m..Len(Accepted)
    PROVE  /\ Part(m, n) \subseteq Results
           /\ IsFiniteSet(Part(m, n)) /\ Cardinality(Part(m, n)) = n - m
<1>1. m \in Nat /\ n \in Nat /\ m <= n /\ n <= Len(Accepted)
  BY AcceptedOnce
<1>2. \A k \in m + 1..n : k \in 1..Len(Accepted)
  BY <1>1
<1>3. Part(m, n) \subseteq Results
  BY <1>2, AcceptedOnce DEF Part
<1> DEFINE f == [k \in m + 1..n |-> Accepted[k]]
<1>4. \A j, k \in m + 1..n : Accepted[j] = Accepted[k] => j = k
  BY <1>2, AcceptedOnce
<1>5. f \in Bijection(m + 1..n, Part(m, n))
  BY <1>4 DEF Part, Bijection, Injection, Surjection, IsInjective
<1>6. IsFiniteSet(m + 1..n) /\ Cardinality(m + 1..n) = n - m
  <2>1. m + 1 \in Int /\ n \in Int /\ n - (m + 1) + 1 = n - m /\ (m + 1 > n => n - m = 0)
    BY <1>1
  <2>2. QED BY <2>1, FS_Interval
<1> HIDE DEF f
<1>7. QED BY <1>3, <1>5, <1>6, FS_Bijection DEF ExistsBijection

\* A sequence of results which has those of a set, each of them once.
ListedResults(s, set) ==
    /\ s \in Seq(Results) /\ Len(s) = Cardinality(set)
    /\ ToSet(s) = set /\ IsInjective(s)

LEMMA ListsResults ==
    ASSUME NEW set \in SUBSET Results, NEW s, Lists(s, set)
    PROVE  ListedResults(s, set)
<1>1. /\ s \in Seq(set) /\ Len(s) = Cardinality(set) /\ ToSet(s) = set
      /\ \A j, k \in DOMAIN s : s[j] = s[k] => j = k
  BY Listed
<1>2. s \in Seq(Results)
  BY <1>1, SeqMonotonic
<1>3. QED BY <1>1, <1>2 DEF ListedResults, IsInjective

\* An answer has what was accepted, each result once.
LEMMA AnswerLists ==
    ASSUME NEW m \in 0..Len(Accepted), NEW n \in m..Len(Accepted)
    PROVE  ListedResults(NewestFirst(Part(m, n)), Part(m, n))
<1> DEFINE set == Part(m, n)
           value == [r \in set |-> -EpochOf[r]]
           place == PlaceIn(Accepted, set)
<1>1. set \in SUBSET Results /\ IsFiniteSet(set)
  BY PartOfAccepted
<1>2. set \in SUBSET ToSet(Accepted) /\ Accepted \in Seq(Results)
  BY <1>1, ResultsAssumption DEF Results
<1>3. place \in [set -> Int] /\ \A x, y \in set : place[x] = place[y] => x = y
  BY <1>2, PlaceInjective
<1>4. value \in [set -> Int]
  <2>1. \A r \in set : EpochOf[r] \in Int
    BY <1>1, ResultsAssumption
  <2>2. \A r \in set : -EpochOf[r] \in Int
    BY <2>1
  <2>3. QED BY <2>2
<1>5. NewestFirst(set) = StableSort(set, value, place)
  BY DEF NewestFirst
<1> HIDE DEF value, place, set
<1>6. Lists(NewestFirst(set), set)
  BY <1>1, <1>3, <1>4, <1>5, StableSorted
<1>7. QED BY <1>1, <1>6, ListsResults DEF set

\* What an answer adds keeps the places it has there.
LEMMA AdditionLists ==
    ASSUME NEW s \in Seq(Results), NEW set \in SUBSET ToSet(s)
    PROVE  ListedResults(ByPlace(set, PlaceIn(s, set)), set)
<1> DEFINE place == PlaceIn(s, set)
<1>1. set \in SUBSET Results /\ IsFiniteSet(set)
  BY PlacesOfResults, FS_Subset
<1>2. place \in [set -> Int] /\ \A x, y \in set : place[x] = place[y] => x = y
  BY PlaceInjective
<1> HIDE DEF place
<1>3. Lists(ByPlace(set, place), set)
  BY <1>1, <1>2, StableSorted DEF ByPlace
<1>4. QED BY <1>1, <1>3, ListsResults DEF place

\* Lists of different results, one after the other.
LEMMA Continued ==
    ASSUME NEW s \in Seq(Results), IsInjective(s), NEW t \in Seq(Results), IsInjective(t),
           ToSet(s) \cap ToSet(t) = {}
    PROVE  /\ s \o t \in Seq(Results) /\ Len(s \o t) = Len(s) + Len(t)
           /\ ToSet(s \o t) = ToSet(s) \cup ToSet(t) /\ IsInjective(s \o t)
<1> DEFINE u == s \o t
           m == Len(s)
           n == Len(t)
<1>1. /\ m \in Nat /\ DOMAIN s = 1..m /\ n \in Nat /\ DOMAIN t = 1..n
      /\ ToSet(s) = {s[k] : k \in 1..m} /\ ToSet(t) = {t[k] : k \in 1..n}
  BY LenProperties DEF ToSet
<1>2. /\ u \in Seq(Results) /\ Len(u) = m + n
      /\ \A k \in 1..m + n : u[k] = IF k <= m THEN s[k] ELSE t[k - m]
  BY ConcatProperties
<1>3. DOMAIN u = 1..m + n /\ ToSet(u) = {u[k] : k \in 1..m + n}
  BY <1>2, LenProperties DEF ToSet
<1>4. /\ \A j, k \in 1..m : s[j] = s[k] => j = k
      /\ \A j, k \in 1..n : t[j] = t[k] => j = k
      /\ \A j \in 1..m, k \in 1..n : s[j] # t[k]
  <2>1. \A j, k \in 1..m : s[j] = s[k] => j = k
    BY <1>1 DEF IsInjective
  <2>2. \A j, k \in 1..n : t[j] = t[k] => j = k
    BY <1>1 DEF IsInjective
  <2>3. \A j \in 1..m, k \in 1..n : s[j] \in ToSet(s) /\ t[k] \in ToSet(t)
    BY <1>1
  <2>4. QED BY <2>1, <2>2, <2>3
<1> HIDE DEF u, m, n
<1>5. /\ \A k \in 1..m : k \in 1..m + n /\ u[k] = s[k]
      /\ \A k \in 1..n : m + k \in 1..m + n /\ u[m + k] = t[k]
  <2>1. \A k \in 1..n : m + k \in 1..m + n /\ ~(m + k <= m) /\ (m + k) - m = k
    BY <1>1
  <2>2. \A k \in 1..m : k \in 1..m + n /\ k <= m
    BY <1>1
  <2>3. QED BY <1>2, <2>1, <2>2
<1>6. \A k \in 1..m + n : \/ k \in 1..m /\ u[k] = s[k]
                          \/ k - m \in 1..n /\ u[k] = t[k - m]
  BY <1>1, <1>2
<1>7. ToSet(u) = ToSet(s) \cup ToSet(t)
  BY <1>1, <1>3, <1>5, <1>6
<1>8. ASSUME NEW j \in 1..m + n, NEW k \in 1..m + n, u[j] = u[k] PROVE j = k
  <2>1. CASE j \in 1..m /\ k \in 1..m /\ u[j] = s[j] /\ u[k] = s[k]
    BY <1>4, <1>8, <2>1
  <2>2. CASE j - m \in 1..n /\ k - m \in 1..n /\ u[j] = t[j - m] /\ u[k] = t[k - m]
    <3>1. j - m = k - m
      BY <1>4, <1>8, <2>2
    <3>2. QED BY <1>1, <3>1
  <2>3. QED BY <1>4, <1>6, <1>8, <2>1, <2>2
<1>9. IsInjective(u)
  BY <1>3, <1>8 DEF IsInjective
<1>10. QED BY <1>2, <1>7, <1>9 DEF u, m, n

-----------------------------------------------------------------------------
(* Grouping                                                                *)

\* The results in the bucket of a result, and those in its group.
Duplicates(r, sorted, byTitle) ==
    {q \in ToSet(sorted) : KeyOf(q, byTitle) = KeyOf(r, byTitle) /\ IdentityOf[q] = IdentityOf[r]}
Titled(r, sorted, byTitle) == {q \in ToSet(sorted) : KeyOf(q, byTitle) = KeyOf(r, byTitle)}

Score(r) == ScoreOf[IndexerOf[r]]

LEMMA ScoresAreInt == \A r \in Results : Score(r) \in Int
BY ResultsAssumption DEF Score

\* A bucket has every duplicate once, that with the best score first.
LEMMA Bucket ==
    ASSUME NEW sorted \in Seq(Results), NEW byTitle, NEW r \in ToSet(sorted)
    PROVE  /\ Lists(BucketOf(r, sorted, byTitle), Duplicates(r, sorted, byTitle))
           /\ 1 \in DOMAIN BucketOf(r, sorted, byTitle)
           /\ \A q \in Duplicates(r, sorted, byTitle) : Score(BucketOf(r, sorted, byTitle)[1]) >= Score(q)
<1> DEFINE set == Duplicates(r, sorted, byTitle)
           value == [q \in set |-> -ScoreOf[IndexerOf[q]]]
           place == PlaceIn(sorted, set)
           b == BucketOf(r, sorted, byTitle)
           c == Cardinality(set)
<1>1. IsFiniteSet(ToSet(sorted)) /\ set \in SUBSET ToSet(sorted) /\ r \in set /\ set \subseteq Results
  BY PlacesOfResults DEF Duplicates
<1>2. IsFiniteSet(set)
  BY <1>1, FS_Subset
<1>3. b = StableSort(set, value, place)
  BY DEF BucketOf, ByIndexerScore, Duplicates
<1>4. place \in [set -> Int] /\ \A x, y \in set : place[x] = place[y] => x = y
  BY <1>1, PlaceInjective
<1> HIDE DEF set, place, b
<1>5. value \in [set -> Int] /\ \A q \in set : value[q] = - Score(q) /\ Score(q) \in Int
  <2>1. \A q \in set : Score(q) \in Int
    BY <1>1, ScoresAreInt
  <2>2. \A q \in set : value[q] = - Score(q)
    BY DEF Score
  <2>3. value \in [set -> Int]
    BY <2>1 DEF Score
  <2>4. QED BY <2>1, <2>2, <2>3
<1> HIDE DEF value
<1>6. /\ Lists(b, set)
      /\ \A m, n \in 1..c : m < n => b[m] \in UpTo(set, value, place, b[n])
  BY <1>2, <1>3, <1>4, <1>5, StableSorted
<1>7. 1 \in DOMAIN b
  <2>1. \E n \in DOMAIN b : b[n] = r
    BY <1>1, <1>6, Listed
  <2>2. DOMAIN b = 1..Len(b) /\ Len(b) \in Nat
    BY <1>6, Listed
  <2>3. QED BY <2>1, <2>2
<1>8. ASSUME NEW q \in set PROVE Score(b[1]) >= Score(q)
  <2>1. PICK n \in DOMAIN b : b[n] = q
    BY <1>6, Listed
  <2>2. DOMAIN b = 1..c /\ c \in Nat /\ b[1] \in set
    BY <1>6, <1>7, Listed
  <2>3. CASE n = 1
    BY <1>5, <2>1, <2>3
  <2>4. CASE n # 1
    <3>1. n \in 1..c /\ 1 \in 1..c /\ 1 < n
      BY <1>7, <2>1, <2>2, <2>4
    <3>2. b[1] \in UpTo(set, value, place, q)
      BY <1>6, <2>1, <3>1
    <3>3. value[b[1]] <= value[q]
      BY <1>5, <2>2, <3>2 DEF UpTo
    <3>4. QED BY <1>5, <2>2, <3>3
  <2>5. QED BY <2>3, <2>4
<1>9. QED BY <1>6, <1>7, <1>8 DEF b, set

\* What a bucket has is in the bucket of each of its results.
LEMMA BucketOfEach ==
    ASSUME NEW sorted \in Seq(Results), NEW byTitle, NEW r \in ToSet(sorted),
           NEW n \in DOMAIN BucketOf(r, sorted, byTitle)
    PROVE  LET x == BucketOf(r, sorted, byTitle)[n]
           IN  /\ x \in ToSet(sorted)
               /\ KeyOf(x, byTitle) = KeyOf(r, byTitle)
               /\ BucketOf(x, sorted, byTitle) = BucketOf(r, sorted, byTitle)
<1> DEFINE x == BucketOf(r, sorted, byTitle)[n]
<1>1. x \in Duplicates(r, sorted, byTitle)
  BY Bucket, Listed
<1>2. x \in ToSet(sorted) /\ KeyOf(x, byTitle) = KeyOf(r, byTitle) /\ IdentityOf[x] = IdentityOf[r]
  BY <1>1 DEF Duplicates
<1> HIDE DEF x
<1>3. BucketOf(x, sorted, byTitle) = BucketOf(r, sorted, byTitle)
  BY <1>2 DEF BucketOf
<1>4. QED BY <1>2, <1>3 DEF x

\* A group has every bucket of its results once.
LEMMA Group ==
    ASSUME NEW sorted \in Seq(Results), NEW byTitle, NEW r \in ToSet(sorted)
    PROVE  /\ Lists(GroupOf(r, sorted, byTitle), BucketsWith(r, sorted, byTitle))
           /\ 1 \in DOMAIN GroupOf(r, sorted, byTitle)
<1> DEFINE set == Titled(r, sorted, byTitle)
           bucket == [q \in set |-> BucketOf(q, sorted, byTitle)]
           buckets == BucketsWith(r, sorted, byTitle)
           lead == [b \in buckets |-> Place(b[1], sorted)]
           g == GroupOf(r, sorted, byTitle)
<1>1. IsFiniteSet(set) /\ set \subseteq ToSet(sorted) /\ r \in set
  <2>1. set \in SUBSET ToSet(sorted) /\ r \in set
    BY DEF Titled
  <2>2. QED BY <2>1, PlacesOfResults, FS_Subset
<1>2. buckets = {bucket[q] : q \in set}
  BY DEF BucketsWith, Titled
<1>3. IsFiniteSet(buckets)
  <2> HIDE DEF buckets
  <2>1. DOMAIN bucket = set
    OBVIOUS
  <2> HIDE DEF bucket
  <2>2. QED BY <1>1, <1>2, <2>1, FiniteImage
<1>4. g = ByPlace(buckets, lead)
  BY DEF GroupOf
<1>5. \A b \in buckets : \E q \in set : b = BucketOf(q, sorted, byTitle)
  BY <1>2
<1> HIDE DEF set, bucket, buckets
<1>6. ASSUME NEW b \in buckets
      PROVE  b[1] \in ToSet(sorted) /\ b = BucketOf(b[1], sorted, byTitle) /\ Place(b[1], sorted) \in Int
             /\ sorted[Place(b[1], sorted)] = b[1]
  <2>1. PICK q \in set : b = BucketOf(q, sorted, byTitle)
    BY <1>5
  <2>2. q \in ToSet(sorted)
    BY <1>1
  <2>3. 1 \in DOMAIN BucketOf(q, sorted, byTitle)
    BY <2>2, Bucket
  <2>4. b[1] \in ToSet(sorted) /\ b = BucketOf(b[1], sorted, byTitle)
    BY <2>1, <2>2, <2>3, BucketOfEach
  <2>5. QED BY <2>4, PlacesOfResults, LenProperties
<1>7. lead \in [buckets -> Int]
  BY <1>6
<1>8. \A a, b \in buckets : lead[a] = lead[b] => a = b
  <2>1. \A b \in buckets : lead[b] = Place(b[1], sorted)
    OBVIOUS
  <2> HIDE DEF lead
  <2>2. SUFFICES ASSUME NEW a \in buckets, NEW b \in buckets, lead[a] = lead[b] PROVE a = b
    OBVIOUS
  <2>3. a[1] = b[1]
    BY <1>6, <2>1, <2>2
  <2>4. QED BY <1>6, <2>3
<1> HIDE DEF lead, g
<1>9. Lists(g, buckets)
  BY <1>3, <1>4, <1>7, <1>8, StableSorted DEF ByPlace
<1>10. 1 \in DOMAIN g
  <2>1. BucketOf(r, sorted, byTitle) \in buckets
    BY <1>1, <1>2 DEF bucket
  <2>2. \E n \in DOMAIN g : g[n] = BucketOf(r, sorted, byTitle)
    BY <1>9, <2>1, Listed
  <2>3. DOMAIN g = 1..Len(g) /\ Len(g) \in Nat
    BY <1>9, Listed
  <2>4. QED BY <2>2, <2>3
<1>11. QED BY <1>9, <1>10 DEF g, buckets

\* What a group has is in the group and in the bucket of each of its results.
LEMMA GroupOfEach ==
    ASSUME NEW sorted \in Seq(Results), NEW byTitle, NEW r \in ToSet(sorted),
           NEW b \in DOMAIN GroupOf(r, sorted, byTitle)
    PROVE  LET bucket == GroupOf(r, sorted, byTitle)[b]
           IN  /\ 1 \in DOMAIN bucket
               /\ \A n \in DOMAIN bucket :
                      /\ bucket[n] \in ToSet(sorted)
                      /\ KeyOf(bucket[n], byTitle) = KeyOf(r, byTitle)
                      /\ bucket = BucketOf(bucket[n], sorted, byTitle)
                      /\ GroupOf(bucket[n], sorted, byTitle) = GroupOf(r, sorted, byTitle)
<1> DEFINE bucket == GroupOf(r, sorted, byTitle)[b]
<1>1. bucket \in BucketsWith(r, sorted, byTitle)
  BY Group, Listed
<1> HIDE DEF bucket
<1>2. PICK q \in ToSet(sorted) :
          KeyOf(q, byTitle) = KeyOf(r, byTitle) /\ bucket = BucketOf(q, sorted, byTitle)
  BY <1>1 DEF BucketsWith
<1>3. 1 \in DOMAIN bucket
  BY <1>2, Bucket
<1>4. ASSUME NEW n \in DOMAIN bucket
      PROVE  /\ bucket[n] \in ToSet(sorted)
             /\ KeyOf(bucket[n], byTitle) = KeyOf(r, byTitle)
             /\ bucket = BucketOf(bucket[n], sorted, byTitle)
             /\ GroupOf(bucket[n], sorted, byTitle) = GroupOf(r, sorted, byTitle)
  <2>1. /\ bucket[n] \in ToSet(sorted)
        /\ KeyOf(bucket[n], byTitle) = KeyOf(r, byTitle)
        /\ bucket = BucketOf(bucket[n], sorted, byTitle)
    BY <1>2, BucketOfEach
  <2>2. BucketsWith(bucket[n], sorted, byTitle) = BucketsWith(r, sorted, byTitle)
    BY <2>1 DEF BucketsWith
  <2>3. GroupOf(bucket[n], sorted, byTitle) = GroupOf(r, sorted, byTitle)
    BY <2>2 DEF GroupOf
  <2>4. QED BY <2>1, <2>3
<1>5. QED BY <1>3, <1>4 DEF bucket

\* The groups are all groups of results, each once.
LEMMA Groups ==
    ASSUME NEW sorted \in Seq(Results), NEW byTitle
    PROVE  Lists(GroupResults(sorted, byTitle), {GroupOf(r, sorted, byTitle) : r \in ToSet(sorted)})
<1> DEFINE group == [r \in ToSet(sorted) |-> GroupOf(r, sorted, byTitle)]
           all == {GroupOf(r, sorted, byTitle) : r \in ToSet(sorted)}
           lead == [g \in all |-> Place(g[1][1], sorted)]
           gs == GroupResults(sorted, byTitle)
<1>1. all = {group[r] : r \in ToSet(sorted)}
  OBVIOUS
<1>2. IsFiniteSet(all)
  <2>1. DOMAIN group = ToSet(sorted)
    OBVIOUS
  <2> HIDE DEF group, all
  <2>2. QED BY <1>1, <2>1, FiniteImage, PlacesOfResults
<1>3. gs = ByPlace(all, lead)
  BY DEF GroupResults
<1>4. ASSUME NEW g \in all
      PROVE  /\ g[1][1] \in ToSet(sorted) /\ g = GroupOf(g[1][1], sorted, byTitle)
             /\ Place(g[1][1], sorted) \in Int /\ sorted[Place(g[1][1], sorted)] = g[1][1]
  <2>1. PICK r \in ToSet(sorted) : g = GroupOf(r, sorted, byTitle)
    OBVIOUS
  <2>2. 1 \in DOMAIN GroupOf(r, sorted, byTitle)
    BY Group
  <2>3. 1 \in DOMAIN GroupOf(r, sorted, byTitle)[1]
    BY <2>2, GroupOfEach
  <2>4. g[1][1] \in ToSet(sorted) /\ g = GroupOf(g[1][1], sorted, byTitle)
    BY <2>1, <2>2, <2>3, GroupOfEach
  <2>5. QED BY <2>4, PlacesOfResults, LenProperties
<1> HIDE DEF all
<1>5. lead \in [all -> Int]
  BY <1>4
<1>6. \A g, h \in all : lead[g] = lead[h] => g = h
  <2>1. \A g \in all : lead[g] = Place(g[1][1], sorted)
    OBVIOUS
  <2> HIDE DEF lead
  <2>2. SUFFICES ASSUME NEW g \in all, NEW h \in all, lead[g] = lead[h] PROVE g = h
    OBVIOUS
  <2>3. g[1][1] = h[1][1]
    BY <1>4, <2>1, <2>2
  <2>4. QED BY <1>4, <2>3
<1> HIDE DEF lead, gs
<1>7. Lists(gs, all)
  BY <1>2, <1>3, <1>5, <1>6, StableSorted DEF ByPlace
<1>8. QED BY <1>7 DEF gs, all

\* Where a group, a bucket in it and a place in this one can be.
IsPlace(gs, k, b, n) == k \in DOMAIN gs /\ b \in DOMAIN gs[k] /\ n \in DOMAIN gs[k][b]

\* Groups in which everything of a set has its place, behind nothing of less priority.
Arranged(gs, set) ==
    /\ Len(gs) \in Nat /\ DOMAIN gs = 1..Len(gs)
    /\ gs # <<>> => Len(gs) # 0
    /\ set # {} => gs # <<>>
    /\ \A k \in DOMAIN gs : /\ 1 \in DOMAIN gs[k]
                            /\ \A b \in DOMAIN gs[k] : 1 \in DOMAIN gs[k][b]
    /\ \A k, b, n : IsPlace(gs, k, b, n) => /\ gs[k][b][n] \in set
                                            /\ Score(gs[k][b][1]) >= Score(gs[k][b][n])
    /\ \A k, b, n, i, c, m : IsPlace(gs, k, b, n) /\ IsPlace(gs, i, c, m) /\ gs[k][b][n] = gs[i][c][m]
           => k = i /\ b = c /\ n = m
    /\ \A r \in set : \E k, b, n : IsPlace(gs, k, b, n) /\ gs[k][b][n] = r

\* Grouping loses nothing, repeats nothing, and hides nothing behind less priority.
LEMMA GroupsArranged ==
    ASSUME NEW sorted \in Seq(Results), NEW byTitle
    PROVE  Arranged(GroupResults(sorted, byTitle), ToSet(sorted))
<1> DEFINE gs == GroupResults(sorted, byTitle)
           set == ToSet(sorted)
           all == {GroupOf(r, sorted, byTitle) : r \in set}
<1>1. Lists(gs, all)
  BY Groups
<1> HIDE DEF gs
<1>2. /\ Len(gs) \in Nat /\ DOMAIN gs = 1..Len(gs)
      /\ \A k \in DOMAIN gs : gs[k] \in all
      /\ \A k, i \in DOMAIN gs : gs[k] = gs[i] => k = i
      /\ \A g \in all : \E k \in DOMAIN gs : gs[k] = g
  BY <1>1, Listed
<1>3. ASSUME NEW k \in DOMAIN gs
      PROVE  \E r \in set : gs[k] = GroupOf(r, sorted, byTitle)
  BY <1>2
<1>4. ASSUME NEW r \in set
      PROVE  \E k \in DOMAIN gs : gs[k] = GroupOf(r, sorted, byTitle)
  BY <1>2
<1> HIDE DEF all, set
<1>5. ASSUME NEW k \in DOMAIN gs
      PROVE  /\ 1 \in DOMAIN gs[k]
             /\ \A b \in DOMAIN gs[k] : 1 \in DOMAIN gs[k][b]
             /\ \A b \in DOMAIN gs[k] : \A n \in DOMAIN gs[k][b] :
                    /\ gs[k][b][n] \in set
                    /\ gs[k][b] = BucketOf(gs[k][b][n], sorted, byTitle)
                    /\ gs[k] = GroupOf(gs[k][b][n], sorted, byTitle)
             /\ \A b, c \in DOMAIN gs[k] : gs[k][b] = gs[k][c] => b = c
  <2>1. PICK r \in set : gs[k] = GroupOf(r, sorted, byTitle)
    BY <1>3
  <2>2. Lists(gs[k], BucketsWith(r, sorted, byTitle)) /\ 1 \in DOMAIN gs[k]
    BY <2>1, Group DEF set
  <2>3. \A b, c \in DOMAIN gs[k] : gs[k][b] = gs[k][c] => b = c
    BY <2>2, Listed
  <2>4. ASSUME NEW b \in DOMAIN gs[k]
        PROVE  /\ 1 \in DOMAIN gs[k][b]
               /\ \A n \in DOMAIN gs[k][b] :
                    /\ gs[k][b][n] \in set
                    /\ gs[k][b] = BucketOf(gs[k][b][n], sorted, byTitle)
                    /\ gs[k] = GroupOf(gs[k][b][n], sorted, byTitle)
    BY <2>1, GroupOfEach DEF set
  <2>5. QED BY <2>2, <2>3, <2>4
<1>6. ASSUME NEW k, NEW b, NEW n, IsPlace(gs, k, b, n)
      PROVE  /\ gs[k][b][n] \in set
             /\ Score(gs[k][b][1]) >= Score(gs[k][b][n])
             /\ Lists(gs[k][b], Duplicates(gs[k][b][n], sorted, byTitle))
  <2>1. k \in DOMAIN gs /\ b \in DOMAIN gs[k] /\ n \in DOMAIN gs[k][b]
    BY <1>6 DEF IsPlace
  <2> DEFINE x == gs[k][b][n]
  <2>2. x \in set /\ gs[k][b] = BucketOf(x, sorted, byTitle)
    BY <1>5, <2>1
  <2>3. /\ Lists(gs[k][b], Duplicates(x, sorted, byTitle))
        /\ \A q \in Duplicates(x, sorted, byTitle) : Score(gs[k][b][1]) >= Score(q)
    BY <2>2, Bucket DEF set
  <2>4. x \in Duplicates(x, sorted, byTitle)
    BY <2>1, <2>3, Listed
  <2>5. QED BY <2>2, <2>3, <2>4
<1>7. ASSUME NEW k, NEW b, NEW n, NEW i, NEW c, NEW m,
             IsPlace(gs, k, b, n), IsPlace(gs, i, c, m), gs[k][b][n] = gs[i][c][m]
      PROVE  k = i /\ b = c /\ n = m
  <2>1. /\ k \in DOMAIN gs /\ b \in DOMAIN gs[k] /\ n \in DOMAIN gs[k][b]
        /\ i \in DOMAIN gs /\ c \in DOMAIN gs[i] /\ m \in DOMAIN gs[i][c]
    BY <1>7 DEF IsPlace
  <2>2. gs[k] = GroupOf(gs[k][b][n], sorted, byTitle) /\ gs[i] = GroupOf(gs[i][c][m], sorted, byTitle)
    BY <1>5, <2>1
  <2>3. k = i
    BY <1>2, <1>7, <2>1, <2>2
  <2>4. gs[k][b] = BucketOf(gs[k][b][n], sorted, byTitle) /\ gs[i][c] = BucketOf(gs[i][c][m], sorted, byTitle)
    BY <1>5, <2>1
  <2>5. gs[k][b] = gs[k][c]
    BY <1>7, <2>3, <2>4
  <2>6. b = c
    BY <1>5, <2>1, <2>3, <2>5
  <2>7. \A u, v \in DOMAIN gs[k][b] : gs[k][b][u] = gs[k][b][v] => u = v
    BY <1>6, <1>7, Listed
  <2>8. n = m
    BY <1>7, <2>1, <2>3, <2>6, <2>7
  <2>9. QED BY <2>3, <2>6, <2>8
<1>8. ASSUME NEW r \in set PROVE \E k, b, n : IsPlace(gs, k, b, n) /\ gs[k][b][n] = r
  <2>1. PICK k \in DOMAIN gs : gs[k] = GroupOf(r, sorted, byTitle)
    BY <1>4
  <2>2. /\ Lists(gs[k], BucketsWith(r, sorted, byTitle))
        /\ Lists(BucketOf(r, sorted, byTitle), Duplicates(r, sorted, byTitle))
    BY <2>1, Group, Bucket DEF set
  <2>3. /\ BucketOf(r, sorted, byTitle) \in BucketsWith(r, sorted, byTitle)
        /\ r \in Duplicates(r, sorted, byTitle)
    BY DEF BucketsWith, Duplicates, set
  <2>4. PICK b \in DOMAIN gs[k] : gs[k][b] = BucketOf(r, sorted, byTitle)
    BY <2>2, <2>3, Listed
  <2>5. PICK n \in DOMAIN gs[k][b] : gs[k][b][n] = r
    BY <2>2, <2>3, <2>4, Listed
  <2>6. QED BY <2>1, <2>4, <2>5 DEF IsPlace
<1>9. set # {} => gs # <<>>
  <2>1. SUFFICES ASSUME NEW r \in set, gs = <<>> PROVE FALSE
    OBVIOUS
  <2>2. DOMAIN gs = {}
    BY <2>1
  <2>3. QED BY <1>4, <2>2
<1>95. gs # <<>> => Len(gs) # 0
  <2>1. gs \in Seq(all)
    BY <1>1, Listed
  <2>2. QED BY <2>1, EmptySeq
<1>10. Arranged(gs, set)
  <2>1. \A k \in DOMAIN gs : 1 \in DOMAIN gs[k] /\ \A b \in DOMAIN gs[k] : 1 \in DOMAIN gs[k][b]
    BY <1>5
  <2>2. \A k, b, n : IsPlace(gs, k, b, n) => /\ gs[k][b][n] \in set
                                             /\ Score(gs[k][b][1]) >= Score(gs[k][b][n])
    BY <1>6
  <2>3. \A k, b, n, i, c, m : IsPlace(gs, k, b, n) /\ IsPlace(gs, i, c, m) /\ gs[k][b][n] = gs[i][c][m]
           => k = i /\ b = c /\ n = m
    BY <1>7
  <2>4. \A r \in set : \E k, b, n : IsPlace(gs, k, b, n) /\ gs[k][b][n] = r
    BY <1>8
  <2>5. QED BY <1>2, <1>9, <1>95, <2>1, <2>2, <2>3, <2>4 DEF Arranged
<1>11. QED BY <1>10 DEF gs, set

\* The filtered results in the order of a column.
LEMMA SortedLists ==
    ASSUME NEW loaded \in Seq(Results), NEW filtered \in SUBSET ToSet(loaded),
           NEW column \in Columns, NEW descending \in BOOLEAN
    PROVE  /\ Sorted(filtered, loaded, column, descending) \in Seq(Results)
           /\ ToSet(Sorted(filtered, loaded, column, descending)) = filtered
<1> DEFINE value == [r \in filtered |-> IF descending THEN -ValueOf[column][r] ELSE ValueOf[column][r]]
           place == PlaceIn(loaded, filtered)
           s == Sorted(filtered, loaded, column, descending)
<1>1. filtered \subseteq Results /\ IsFiniteSet(filtered)
  BY PlacesOfResults, FS_Subset
<1>2. value \in [filtered -> Int]
  <2>1. \A r \in filtered : ValueOf[column][r] \in Int
    BY <1>1, ResultsAssumption
  <2>2. \A r \in filtered : (IF descending THEN -ValueOf[column][r] ELSE ValueOf[column][r]) \in Int
    BY <2>1
  <2>3. QED BY <2>2
<1>3. place \in [filtered -> Int] /\ \A x, y \in filtered : place[x] = place[y] => x = y
  BY PlaceInjective
<1>4. s = StableSort(filtered, value, place)
  BY DEF Sorted
<1> HIDE DEF value, place, s
<1>5. Lists(s, filtered)
  BY <1>1, <1>2, <1>3, <1>4, StableSorted
<1>6. s \in Seq(filtered) /\ ToSet(s) = filtered
  BY <1>5, Listed
<1>7. s \in Seq(Results)
  BY <1>1, <1>6, SeqMonotonic
<1>8. QED BY <1>6, <1>7 DEF s

\* What the memoized groups have, for any results, filters and choices.
LEMMA GroupedArranged ==
    ASSUME NEW d, d.results \in Seq(Results), NEW f, NEW c \in DisplayChoices
    PROVE  Arranged(Grouped(d, f, c), FilterResults(d, f, c))
<1>1. FilterResults(d, f, c) \in SUBSET ToSet(d.results)
  BY DEF FilterResults
<1>2. c.column \in Columns /\ c.descending \in BOOLEAN
  BY DEF DisplayChoices
<1>3. QED BY <1>1, <1>2, SortedLists, GroupsArranged DEF Grouped

-----------------------------------------------------------------------------
(* Pages                                                                   *)

LEMMA Division ==
    ASSUME NEW n \in Nat, NEW d \in Nat \ {0}
    PROVE  /\ n \div d \in Nat
           /\ d * (n \div d) <= n
           /\ n < d * (n \div d) + d
OBVIOUS

\* The quotient is determined by its bounds.
LEMMA Quotient ==
    ASSUME NEW n \in Nat, NEW d \in Nat \ {0}, NEW q \in Nat, d * q <= n, n < d * q + d
    PROVE  n \div d = q
<1> DEFINE p == n \div d
<1>1. p \in Nat /\ d * p <= n /\ n < d * p + d
  BY Division
<1> HIDE DEF p
<1>2. ~ (p < q)
  <2>1. SUFFICES ASSUME p < q PROVE FALSE
    OBVIOUS
  <2>2. p + 1 <= q
    BY <1>1, <2>1
  <2>3. d * (p + 1) <= d * q
    BY <1>1, <2>2
  <2>4. d * (p + 1) = d * p + d
    BY <1>1
  <2>5. QED BY <1>1, <2>3, <2>4
<1>3. ~ (q < p)
  <2>1. SUFFICES ASSUME q < p PROVE FALSE
    OBVIOUS
  <2>2. q + 1 <= p
    BY <1>1, <2>1
  <2>3. d * (q + 1) <= d * p
    BY <1>1, <2>2
  <2>4. d * (q + 1) = d * q + d
    BY <1>1
  <2>5. QED BY <1>1, <2>3, <2>4
<1>4. QED BY <1>1, <1>2, <1>3 DEF p

\* The pages of groups begin with page 1, and end with that of the last group.
LEMMA PageCounted ==
    ASSUME NEW gs, Len(gs) \in Nat, gs # <<>> => Len(gs) # 0
    PROVE  /\ PageCount(gs) \in Nat \ {0}
           /\ \A k \in 1..Len(gs) : gs # <<>> => PageOf(k) \in 1..PageCount(gs)
           /\ \A page \in 1..PageCount(gs) : gs # <<>> =>
                  (page - 1) * PageSize + 1 \in 1..Len(gs) /\ PageOf((page - 1) * PageSize + 1) = page
<1>1. CASE gs = <<>>
  BY <1>1 DEF PageCount
<1>2. CASE gs # <<>>
  <2> DEFINE l == Len(gs)
             n == l + PageSize - 1
             q == n \div PageSize
  <2>1. PageSize \in Nat \ {0} /\ n \in Nat /\ PageSize <= n /\ l \in Nat /\ n = l + PageSize - 1
    BY <1>2, BoundsAssumption
  <2>2. q \in Nat /\ PageSize * q <= n /\ n < PageSize * q + PageSize
    BY <2>1, Division
  <2>3. q # 0
    BY <2>1, <2>2
  <2>4. PageCount(gs) = q
    BY <1>2 DEF PageCount
  <2> HIDE DEF l, n, q
  <2>5. ASSUME NEW k \in 1..l PROVE PageOf(k) \in 1..q
    <3> DEFINE p == (k - 1) \div PageSize
    <3>1. k - 1 \in Nat /\ k <= l
      BY <2>1
    <3>2. p \in Nat /\ PageSize * p <= k - 1
      BY <2>1, <3>1, Division
    <3>3. PageOf(k) = p + 1
      BY DEF PageOf
    <3> HIDE DEF p
    <3>4. PageSize * p < PageSize * q
      BY <2>1, <2>2, <3>1, <3>2
    <3>5. ~ (q <= p)
      <4>1. SUFFICES ASSUME q <= p PROVE FALSE
        OBVIOUS
      <4>2. PageSize * q <= PageSize * p
        BY <2>1, <2>2, <3>2, <4>1
      <4>3. PageSize * q \in Int /\ PageSize * p \in Int
        BY <2>1, <2>2, <3>2
      <4>4. QED BY <3>4, <4>2, <4>3
    <3>6. QED BY <2>2, <3>2, <3>3, <3>5
  <2>6. ASSUME NEW page \in 1..q
        PROVE  (page - 1) * PageSize + 1 \in 1..l /\ PageOf((page - 1) * PageSize + 1) = page
    <3> DEFINE p == page - 1
    <3>1. p \in Nat /\ p + 1 <= q /\ p + 1 = page
      BY <2>2
    <3> HIDE DEF p
    <3>2. PageSize * (p + 1) <= PageSize * q
      BY <2>1, <2>2, <3>1
    <3>3. PageSize * (p + 1) = PageSize * p + PageSize /\ PageSize * p \in Nat /\ p * PageSize = PageSize * p
      BY <2>1, <3>1
    <3>4. p * PageSize + 1 \in 1..l
      BY <2>1, <2>2, <3>2, <3>3
    <3>5. (p * PageSize) \div PageSize = p
      BY <2>1, <3>1, <3>3, Quotient
    <3>6. (p * PageSize + 1) - 1 = p * PageSize
      BY <3>3
    <3>7. PageOf(p * PageSize + 1) = page
      BY <3>1, <3>5, <3>6 DEF PageOf
    <3>8. QED BY <3>4, <3>7 DEF p
  <2>7. QED BY <2>2, <2>3, <2>4, <2>5, <2>6 DEF l
<1>3. QED BY <1>1, <1>2

-----------------------------------------------------------------------------
(* The inductive invariant                                                 *)

\* What an answer of the server is, also one with others merged into it.
Answer == [results : Seq(Results), offset : Nat, limit : Nat, available : Nat, processed : Nat,
           hasMore : BOOLEAN, downloaded : SUBSET Results]

Typing ==
    /\ data \in Answer /\ sent \subseteq Results
    /\ data.downloaded \subseteq Loaded \cap sent
    /\ filters \subseteq Indexers /\ choices \in DisplayChoices
    /\ lastSelected \subseteq Results
    /\ loading \in {"no", "more", "all"} /\ error \in {"none", "failed", "stuck"}

\* The groups which were kept are those of the results, filters and choices there are now, and
\* the page which was asked for exists.
RowsCurrent ==
    /\ groups = Grouped(data, filters, choices)
    /\ requestedPage \in 1..PageCount(groups)

\* Nothing is loaded once paging has ended.
CursorCurrent ==
    /\ Len(data.results) \in 0..Len(Accepted)
    /\ loading # "no" => ~exhausted
    /\ exhausted \in BOOLEAN

IInv == Typing /\ RowsCurrent /\ CursorCurrent /\ SelectionPassesFilters /\ LoadedWithoutGap

-----------------------------------------------------------------------------
(* What is on the pages                                                    *)

LEMMA ArePlaces == \A k, b, n : <<k, b, n>> \in Places <=> IsPlace(groups, k, b, n)
<1> SUFFICES ASSUME NEW k, NEW b, NEW n PROVE <<k, b, n>> \in Places <=> IsPlace(groups, k, b, n)
  OBVIOUS
<1>1. ASSUME IsPlace(groups, k, b, n) PROVE <<k, b, n>> \in Places
  BY <1>1 DEF Places, IsPlace
<1>2. ASSUME <<k, b, n>> \in Places PROVE IsPlace(groups, k, b, n)
  <2>1. PICK i \in DOMAIN groups :
            <<k, b, n>> \in UNION {{<<i, c, m>> : m \in DOMAIN groups[i][c]} : c \in DOMAIN groups[i]}
    BY <1>2 DEF Places
  <2>2. PICK c \in DOMAIN groups[i] : <<k, b, n>> \in {<<i, c, m>> : m \in DOMAIN groups[i][c]}
    BY <2>1
  <2>3. PICK m \in DOMAIN groups[i][c] : <<k, b, n>> = <<i, c, m>>
    BY <2>2
  <2>4. k = i /\ b = c /\ n = m
    BY <2>3
  <2>5. QED BY <2>4 DEF IsPlace
<1>3. QED BY <1>1, <1>2

LEMMA PlaceForm ==
    \A p \in Places : /\ p = <<p[1], p[2], p[3]>>
                      /\ IsPlace(groups, p[1], p[2], p[3])
                      /\ ResultAt(p) = groups[p[1]][p[2]][p[3]]
<1>1. SUFFICES ASSUME NEW p \in Places PROVE p = <<p[1], p[2], p[3]>>
  BY ArePlaces DEF ResultAt
<1>2. PICK i \in DOMAIN groups :
          p \in UNION {{<<i, c, m>> : m \in DOMAIN groups[i][c]} : c \in DOMAIN groups[i]}
  BY DEF Places
<1>3. PICK c \in DOMAIN groups[i] : p \in {<<i, c, m>> : m \in DOMAIN groups[i][c]}
  BY <1>2
<1>4. PICK m \in DOMAIN groups[i][c] : p = <<i, c, m>>
  BY <1>3
<1>5. QED BY <1>4

\* The groups which are kept are arranged.
LEMMA GroupsAre ==
    ASSUME IInv
    PROVE  Arranged(groups, Filtered)
<1>1. data.results \in Seq(Results) /\ choices \in DisplayChoices
  BY DEF IInv, Typing, Answer
<1>2. QED BY <1>1, GroupedArranged DEF IInv, RowsCurrent, Filtered

\* What is visible or on a page passes the filters.
LEMMA ShownPass ==
    ASSUME IInv
    PROVE  /\ \A p \in Places : ResultAt(p) \in Filtered
           /\ ResultsAt(Visible) \subseteq IdsOn(requestedPage)
           /\ IdsOn(requestedPage) \subseteq Filtered
           /\ Filtered \subseteq Loaded /\ Loaded \subseteq Results
<1>1. \A p \in Places : ResultAt(p) \in Filtered
  BY GroupsAre, PlaceForm DEF Arranged
<1>2. ResultsAt(Visible) \subseteq IdsOn(requestedPage)
  BY DEF ResultsAt, Visible, VisibleOn, IdsOn
<1>3. IdsOn(requestedPage) \subseteq Filtered
  BY <1>1 DEF IdsOn, ResultsAt
<1>4. Filtered \subseteq Loaded
  BY DEF Filtered, FilterResults, Loaded
<1>5. Loaded \subseteq Results
  <2>1. data.results \in Seq(Results)
    BY DEF IInv, Typing, Answer
  <2>2. QED BY <2>1, PlacesOfResults DEF Loaded
<1>6. QED BY <1>1, <1>2, <1>3, <1>4, <1>5

LEMMA TypesFollow == IInv => TypeOK
<1>1. SUFFICES ASSUME IInv PROVE TypeOK
  OBVIOUS
<1>2. /\ data.results \in Seq(Results) /\ data.offset \in Nat /\ data.limit \in Nat
  BY <1>1 DEF IInv, Typing, Answer
<1>3. requestedPage \in Nat \ {0}
  <2>1. PageCount(groups) \in Nat
    BY <1>1, GroupsAre, PageCounted DEF Arranged
  <2>2. requestedPage \in 1..PageCount(groups)
    BY <1>1 DEF IInv, RowsCurrent
  <2>3. QED BY <2>1, <2>2
<1>4. QED BY <1>1, <1>2, <1>3 DEF IInv, Typing, TypeOK

\* Everything can be reached, whatever the overrides and expanded duplicates are.
LEMMA Reachable == IInv => NothingUnreachable
<1>1. SUFFICES ASSUME IInv PROVE NothingUnreachable
  OBVIOUS
<1>2. /\ Len(groups) \in Nat /\ DOMAIN groups = 1..Len(groups)
      /\ groups # <<>> => Len(groups) # 0
      /\ Filtered # {} => groups # <<>>
      /\ \A k \in DOMAIN groups : /\ 1 \in DOMAIN groups[k]
                                  /\ \A b \in DOMAIN groups[k] : 1 \in DOMAIN groups[k][b]
      /\ \A k, b, n : IsPlace(groups, k, b, n) => /\ groups[k][b][n] \in Filtered
                                                  /\ Score(groups[k][b][1]) >= Score(groups[k][b][n])
      /\ \A r \in Filtered : \E k, b, n : IsPlace(groups, k, b, n) /\ groups[k][b][n] = r
  BY <1>1, GroupsAre DEF Arranged
<1>3. \A k, b, n, i, c, m : IsPlace(groups, k, b, n) /\ IsPlace(groups, i, c, m)
                                /\ groups[k][b][n] = groups[i][c][m]
           => k = i /\ b = c /\ n = m
  BY <1>1, GroupsAre DEF Arranged
<1>4. /\ \A k \in 1..Len(groups) : groups # <<>> => PageOf(k) \in 1..PageCount(groups)
      /\ \A page \in 1..PageCount(groups) : groups # <<>> =>
             (page - 1) * PageSize + 1 \in 1..Len(groups) /\ PageOf((page - 1) * PageSize + 1) = page
  BY <1>2, PageCounted
<1>5. \A k \in DOMAIN groups : <<k, 1, 1>> \in VisibleOn(PageOf(k))
  <2>1. SUFFICES ASSUME NEW k \in DOMAIN groups PROVE <<k, 1, 1>> \in VisibleOn(PageOf(k))
    OBVIOUS
  <2>2. IsPlace(groups, k, 1, 1)
    BY <1>2 DEF IsPlace
  <2>3. <<k, 1, 1>> \in Places
    BY <2>2, ArePlaces
  <2>4. QED BY <2>3 DEF VisibleOn
<1>6. Filtered # {} => Visible # {}
  <2>1. SUFFICES ASSUME Filtered # {} PROVE Visible # {}
    OBVIOUS
  <2>2. requestedPage \in 1..PageCount(groups)
    BY <1>1 DEF IInv, RowsCurrent
  <2> DEFINE k == (requestedPage - 1) * PageSize + 1
  <2>3. k \in DOMAIN groups /\ PageOf(k) = requestedPage
    BY <1>2, <1>4, <2>1, <2>2
  <2> HIDE DEF k
  <2>4. <<k, 1, 1>> \in Visible
    BY <1>5, <2>3 DEF Visible
  <2>5. QED BY <2>4
<1>7. \A p, q \in Places : ResultAt(p) = ResultAt(q) => p = q
  <2>1. SUFFICES ASSUME NEW p \in Places, NEW q \in Places, ResultAt(p) = ResultAt(q) PROVE p = q
    OBVIOUS
  <2>2. p[1] = q[1] /\ p[2] = q[2] /\ p[3] = q[3]
    BY <1>3, <2>1, PlaceForm
  <2>3. p = <<p[1], p[2], p[3]>> /\ q = <<q[1], q[2], q[3]>>
    BY PlaceForm
  <2>4. QED BY <2>2, <2>3
<1>8. ASSUME NEW r \in Filtered
      PROVE  \E p \in Places :
                 /\ ResultAt(p) = r
                 /\ PageOf(p[1]) \in 1..PageCount(groups)
                 /\ <<p[1], 1, 1>> \in VisibleOn(PageOf(p[1]))
                 /\ ScoreOf[IndexerOf[groups[p[1]][p[2]][1]]] >= ScoreOf[IndexerOf[r]]
  <2>1. PICK k, b, n : IsPlace(groups, k, b, n) /\ groups[k][b][n] = r
    BY <1>2
  <2> DEFINE p == <<k, b, n>>
  <2>2. p \in Places /\ p[1] = k /\ p[2] = b /\ p[3] = n
    BY <2>1, ArePlaces
  <2> HIDE DEF p
  <2>3. ResultAt(p) = r
    BY <2>1, <2>2 DEF ResultAt
  <2>4. k \in DOMAIN groups /\ groups # <<>>
    BY <1>2, <2>1 DEF IsPlace
  <2>5. PageOf(k) \in 1..PageCount(groups)
    BY <1>2, <1>4, <2>4
  <2>6. Score(groups[k][b][1]) >= Score(r)
    BY <1>2, <2>1
  <2>7. QED BY <1>5, <2>2, <2>3, <2>4, <2>5, <2>6 DEF Score
<1>9. QED BY <1>1, <1>6, <1>7, <1>8, TypesFollow, ShownPass DEF NothingUnreachable

-----------------------------------------------------------------------------
(* Answers                                                                 *)

LEMMA AnswerForm ==
    ASSUME sent \subseteq Results, NEW n \in 0..Len(Accepted), NEW from \in 0..n,
           NEW offset \in Nat, NEW limit \in Nat, NEW next \in Answers(from, offset, limit, n)
    PROVE  /\ next \in Answer
           /\ ListedResults(next.results, Part(from, n))
           /\ next.offset = offset /\ next.limit = limit
           /\ next.downloaded \subseteq Part(from, n) \cap sent
<1> DEFINE total == IF counted THEN Len(Accepted) + RejectedUpTo[Len(Accepted)] ELSE n
           done == n - from + RejectedUpTo[n]
           listed == NewestFirst(Part(from, n))
<1>1. PICK more \in BOOLEAN :
        next = [results |-> listed, offset |-> offset, limit |-> limit, available |-> total,
                processed |-> done, hasMore |-> more, downloaded |-> sent \cap Part(from, n)]
  BY DEF Answers
<1>2. from \in Nat /\ n \in Nat /\ from <= n /\ n <= Len(Accepted) /\ Len(Accepted) \in Nat
      /\ from \in 0..Len(Accepted) /\ n \in from..Len(Accepted) /\ Len(Accepted) \in 0..Len(Accepted)
  BY AcceptedOnce
<1>3. ListedResults(listed, Part(from, n))
  BY <1>2, AnswerLists
<1>4. total \in Nat /\ done \in Nat
  <2>1. RejectedUpTo[n] \in Nat /\ RejectedUpTo[Len(Accepted)] \in Nat
    BY <1>2, ResultsAssumption
  <2>2. QED BY <1>2, <2>1
<1> HIDE DEF total, done, listed
<1>5. next \in Answer
  <2>1. listed \in Seq(Results)
    BY <1>3 DEF ListedResults
  <2>2. sent \cap Part(from, n) \in SUBSET Results
    OBVIOUS
  <2>3. QED BY <1>1, <1>4, <2>1, <2>2 DEF Answer
<1>6. QED BY <1>1, <1>3, <1>5

\* What merging answers gives, field by field.
LEMMA MergedFields ==
    ASSUME NEW next \in Answer
    PROVE  /\ MergeResponses(next).results
                  = data.results \o ByPlace(ToSet(next.results) \ Loaded,
                                            PlaceIn(next.results, ToSet(next.results) \ Loaded))
           /\ MergeResponses(next).downloaded = (data.downloaded \ ToSet(next.results)) \cup next.downloaded
           /\ MergeResponses(next).offset = IF data.offset > next.offset THEN data.offset ELSE next.offset
           /\ MergeResponses(next).limit = next.limit
           /\ MergeResponses(next).available = next.available
           /\ MergeResponses(next).processed = next.processed
           /\ MergeResponses(next).hasMore = next.hasMore
BY DEF MergeResponses, Answer

LEMMA MergedIsAnswer ==
    ASSUME NEW next \in Answer, MergeResponses(next).results \in Seq(Results),
           MergeResponses(next).downloaded \in SUBSET Results, MergeResponses(next).offset \in Nat
    PROVE  MergeResponses(next) \in Answer
BY DEF MergeResponses, Answer

\* Results of the server up to a place are those up to an earlier one and those which follow.
LEMMA PartsJoin ==
    ASSUME NEW j \in Int, NEW m \in Int, NEW n \in Int, j <= m, m <= n
    PROVE  /\ Part(j, n) = Part(j, m) \cup Part(m, n)
           /\ Part(m, n) \subseteq Part(j, n) /\ Part(j, m) \subseteq Part(j, n)
<1>1. \A k \in Int : k \in j + 1..n <=> k \in j + 1..m \/ k \in m + 1..n
  OBVIOUS
<1>2. j + 1..n = (j + 1..m) \cup (m + 1..n)
  BY <1>1
<1>3. QED BY <1>2 DEF Part

\* Different parts have no result in common.
LEMMA PartsDisjoint ==
    ASSUME NEW m \in 0..Len(Accepted), NEW n \in m..Len(Accepted)
    PROVE  Part(0, m) \cap Part(m, n) = {}
<1>1. SUFFICES ASSUME NEW k \in 0 + 1..m, NEW l \in m + 1..n, Accepted[k] = Accepted[l] PROVE FALSE
  BY DEF Part
<1>2. m \in Nat /\ n \in Nat /\ n <= Len(Accepted)
  BY AcceptedOnce
<1>3. k \in 1..Len(Accepted) /\ l \in 1..Len(Accepted) /\ k # l
  BY <1>2
<1>4. QED BY <1>1, <1>3, AcceptedOnce

\* What an answer adds to what is loaded: all that the server has merged, and nothing twice.
LEMMA Merging ==
    ASSUME IInv, loading # "no", NEW next \in Continuations
    PROVE  LET d == MergeResponses(next)
           IN  /\ d \in Answer
               /\ d.downloaded \subseteq ToSet(d.results) \cap sent
               /\ ToSet(d.results) = Part(0, Len(d.results)) /\ IsInjective(d.results)
               /\ Len(d.results) \in 0..Len(Accepted)
               /\ loading # "all" => CursorOf(d) = Len(d.results)
               /\ Loaded \subseteq ToSet(d.results)
<1> DEFINE m == CursorOf(data)
           d == MergeResponses(next)
<1>1. /\ Loaded = Part(0, m) /\ IsInjective(data.results) /\ data.results \in Seq(Results)
      /\ m = Len(data.results) /\ m \in 0..Len(Accepted)
      /\ data.offset \in Nat /\ data.limit \in Nat /\ m = data.offset + data.limit
      /\ sent \subseteq Results /\ data.downloaded \subseteq Loaded \cap sent
  <2>1. ~exhausted /\ Len(data.results) \in 0..Len(Accepted)
    BY DEF IInv, CursorCurrent
  <2>2. /\ Loaded = Part(0, Len(data.results)) /\ IsInjective(data.results)
        /\ CursorOf(data) = Len(data.results)
    BY <2>1 DEF IInv, LoadedWithoutGap
  <2>3. data \in Answer /\ sent \subseteq Results /\ data.downloaded \subseteq Loaded \cap sent
    BY DEF IInv, Typing
  <2>4. data.offset \in Nat /\ data.limit \in Nat /\ data.results \in Seq(Results)
    BY <2>3 DEF Answer
  <2>5. QED BY <2>1, <2>2, <2>3, <2>4 DEF CursorOf
<1>2. m \in Nat /\ Len(Accepted) \in Nat /\ m <= Len(Accepted)
  BY <1>1, AcceptedOnce
<1>3. Remaining \in Nat
  <2>1. data.available \in Nat /\ data.processed \in Nat
    BY DEF IInv, Typing, Answer
  <2>2. QED BY <2>1 DEF Remaining
<1>4. PICK n \in m..Len(Accepted) :
          IF loading = "all" THEN next \in Answers(0, m, Remaining, n) ELSE next \in Answers(m, m, n - m, n)
  BY DEF Continuations
<1> DEFINE j == IF loading = "all" THEN 0 ELSE m
<1> HIDE DEF m
<1>5. /\ n \in Nat /\ m <= n /\ n <= Len(Accepted) /\ n - m \in Nat
      /\ n \in 0..Len(Accepted) /\ 0 \in 0..n /\ m \in 0..n
      /\ j \in 0..Len(Accepted) /\ m \in j..Len(Accepted) /\ n \in j..Len(Accepted)
      /\ j \in Int /\ 0 <= j /\ j <= m /\ m \in Int /\ n \in Int /\ 0 <= m
  BY <1>2
<1>6. /\ next \in Answer
      /\ ListedResults(next.results, Part(j, n))
      /\ next.offset = m
      /\ loading # "all" => next.limit = n - m
      /\ next.downloaded \subseteq Part(j, n) \cap sent
  <2>1. CASE loading = "all"
    <3>1. next \in Answers(0, m, Remaining, n)
      BY <1>4, <2>1
    <3>2. /\ next \in Answer
          /\ ListedResults(next.results, Part(0, n))
          /\ next.offset = m
          /\ next.downloaded \subseteq Part(0, n) \cap sent
      <4>1. /\ sent \subseteq Results /\ n \in 0..Len(Accepted) /\ 0 \in 0..n
            /\ m \in Nat /\ Remaining \in Nat
        BY <1>1, <1>2, <1>3, <1>5
      <4>2. QED BY ONLY <3>1, <4>1, AnswerForm
    <3>3. QED BY <2>1, <3>2 DEF j
  <2>2. CASE loading # "all"
    <3>1. next \in Answers(m, m, n - m, n)
      BY <1>4, <2>2
    <3>2. /\ next \in Answer
          /\ ListedResults(next.results, Part(m, n))
          /\ next.offset = m /\ next.limit = n - m
          /\ next.downloaded \subseteq Part(m, n) \cap sent
      <4>1. /\ sent \subseteq Results /\ n \in 0..Len(Accepted) /\ m \in 0..n
            /\ m \in Nat /\ n - m \in Nat
        BY <1>1, <1>2, <1>5
      <4>2. QED BY ONLY <3>1, <4>1, AnswerForm
    <3>3. QED BY <2>2, <3>2 DEF j
  <2>3. QED BY <2>1, <2>2
<1> HIDE DEF j
<1>7. next.results \in Seq(Results) /\ ToSet(next.results) = Part(j, n)
  BY <1>6 DEF ListedResults
<1>8. ToSet(next.results) \ Loaded = Part(m, n)
  <2>1. Part(j, n) = Part(j, m) \cup Part(m, n)
    BY <1>5, PartsJoin
  <2>2. Part(j, m) \subseteq Part(0, m)
    <3>1. 0 \in Int /\ j \in Int /\ m \in Int /\ 0 <= j /\ j <= m
      BY <1>5
    <3>2. QED BY ONLY <3>1, PartsJoin
  <2>3. Part(0, m) \cap Part(m, n) = {}
    BY <1>1, PartsDisjoint
  <2>4. QED BY <1>1, <1>7, <2>1, <2>2, <2>3
<1> DEFINE new == ByPlace(Part(m, n), PlaceIn(next.results, Part(m, n)))
<1>9. new \in Seq(Results) /\ Len(new) = n - m /\ ToSet(new) = Part(m, n) /\ IsInjective(new)
  <2>1. Part(m, n) \in SUBSET ToSet(next.results)
    BY <1>8
  <2>2. ListedResults(new, Part(m, n))
    BY <1>7, <2>1, AdditionLists
  <2>3. Cardinality(Part(m, n)) = n - m
    BY <1>1, PartOfAccepted
  <2> HIDE DEF new
  <2>4. QED BY <2>2, <2>3 DEF ListedResults
<1>10. /\ d.results \in Seq(Results) /\ Len(d.results) = n
       /\ ToSet(d.results) = Part(0, n) /\ IsInjective(d.results)
  <2>1. d.results = data.results \o new
    BY <1>6, <1>8, MergedFields
  <2>2. ToSet(data.results) = Part(0, m) /\ Part(0, m) \cap Part(m, n) = {}
    BY <1>1, PartsDisjoint DEF Loaded
  <2> HIDE DEF new
  <2>3. /\ data.results \o new \in Seq(Results)
        /\ Len(data.results \o new) = m + (n - m)
        /\ ToSet(data.results \o new) = Part(0, m) \cup Part(m, n) /\ IsInjective(data.results \o new)
    BY <1>1, <1>9, <2>2, Continued
  <2>4. m + (n - m) = n /\ Part(0, n) = Part(0, m) \cup Part(m, n)
    BY <1>5, PartsJoin
  <2>5. QED BY <2>1, <2>3, <2>4
<1>11. d.downloaded \subseteq ToSet(d.results) \cap sent
  <2>1. d.downloaded = (data.downloaded \ ToSet(next.results)) \cup next.downloaded
    BY <1>6, MergedFields
  <2>2. Part(0, m) \subseteq Part(0, n) /\ Part(j, n) \subseteq Part(0, n)
    BY <1>5, PartsJoin
  <2>3. QED BY <1>1, <1>6, <1>10, <2>1, <2>2
<1>12. d.offset = m /\ d.limit = next.limit
  <2>1. d.offset = (IF data.offset > m THEN data.offset ELSE m) /\ d.limit = next.limit
    BY <1>6, MergedFields
  <2>2. ~ (data.offset > m)
    BY <1>1, <1>2
  <2>3. QED BY <2>1, <2>2
<1>13. d \in Answer
  <2>1. d.downloaded \in SUBSET Results /\ d.offset \in Nat
    BY <1>1, <1>2, <1>11, <1>12
  <2>2. QED BY <1>6, <1>10, <2>1, MergedIsAnswer
<1>14. loading # "all" => CursorOf(d) = Len(d.results)
  <2>1. SUFFICES ASSUME loading # "all" PROVE CursorOf(d) = Len(d.results)
    OBVIOUS
  <2>2. CursorOf(d) = m + (n - m)
    BY <1>6, <1>12, <2>1 DEF CursorOf
  <2>3. QED BY <1>5, <1>10, <2>2
<1>15. Loaded \subseteq ToSet(d.results)
  BY <1>1, <1>5, <1>10, PartsJoin
<1> HIDE DEF d
<1>16. /\ ToSet(d.results) = Part(0, Len(d.results)) /\ IsInjective(d.results)
       /\ Len(d.results) \in 0..Len(Accepted)
  BY <1>5, <1>10
<1>17. QED BY <1>11, <1>13, <1>14, <1>15, <1>16 DEF d

-----------------------------------------------------------------------------
(* Choices and filters                                                     *)

LEMMA SwitchedChoice ==
    ASSUME NEW c \in DisplayChoices,
           NEW choice \in {"hideDownloaded", "groupTitles", "expandGroups", "duplicateControls"}
    PROVE  [c EXCEPT ![choice] = ~@] \in DisplayChoices
BY DEF DisplayChoices

LEMMA SortedChoice ==
    ASSUME NEW c \in DisplayChoices, NEW column \in Columns, NEW descending \in BOOLEAN
    PROVE  [c EXCEPT !.column = column, !.descending = descending] \in DisplayChoices
BY DEF DisplayChoices

\* What does not rearrange the results: expanding.
LEMMA ExpansionChoice ==
    ASSUME NEW c \in DisplayChoices, NEW choice \in {"expandGroups", "duplicateControls"}
    PROVE  LET e == [c EXCEPT ![choice] = ~@]
           IN  /\ e.hideDownloaded = c.hideDownloaded /\ e.groupTitles = c.groupTitles
               /\ e.column = c.column /\ e.descending = c.descending
BY DEF DisplayChoices

LEMMA FiltersAreIndexers ==
    ASSUME NEW d \in Answer
    PROVE  DefaultFilters(d) \subseteq Indexers
<1>1. ToSet(d.results) \subseteq Results
  <2>1. d.results \in Seq(Results)
    BY DEF Answer
  <2>2. QED BY <2>1, PlacesOfResults
<1>2. QED BY <1>1, ResultsAssumption DEF DefaultFilters

-----------------------------------------------------------------------------
(* Steps                                                                   *)

\* What a step selects is on the page on screen, and what it deselects as well, unless it is
\* filtered out by the step or was sent.
KeptElsewhere ==
    /\ selected' \ selected \subseteq IdsOn(requestedPage)
    /\ \A r \in selected \ selected' : r \in IdsOn(requestedPage) \/ r \notin Filtered' \/ r \in sent'

LEMMA RowsUnchanged ==
    ASSUME IInv, UNCHANGED rowVars
    PROVE  RowsCurrent' /\ Filtered' = Filtered /\ Loaded' = Loaded
BY DEF IInv, RowsCurrent, rowVars, Filtered, Loaded

\* Selecting something of what is visible, or deselecting something of the page or what was sent.
LEMMA SelectionStep ==
    ASSUME IInv, UNCHANGED rowVars,
           selected' \subseteq selected \cup ResultsAt(Visible),
           selected \ selected' \subseteq IdsOn(requestedPage) \cup sent'
    PROVE  SelectionPassesFilters' /\ KeptElsewhere
<1>1. Filtered' = Filtered
  BY RowsUnchanged
<1>2. ResultsAt(Visible) \subseteq IdsOn(requestedPage) /\ IdsOn(requestedPage) \subseteq Filtered
  BY ShownPass
<1>3. selected \subseteq Filtered
  BY DEF IInv, SelectionPassesFilters
<1>4. SelectionPassesFilters'
  BY <1>1, <1>2, <1>3 DEF SelectionPassesFilters
<1>5. KeptElsewhere
  BY <1>2 DEF KeptElsewhere
<1>6. QED BY <1>4, <1>5

\* Whatever loads nothing and sends nothing leaves the loaded results as they are.
LEMMA LoadedUnchanged ==
    ASSUME IInv, UNCHANGED <<data, loading, exhausted>>
    PROVE  CursorCurrent' /\ LoadedWithoutGap'
<1>1. CursorCurrent /\ LoadedWithoutGap
  BY DEF IInv
<1>2. CursorOf(data)' = CursorOf(data) /\ Loaded' = Loaded
  BY DEF CursorOf, Loaded
<1>3. QED BY <1>1, <1>2 DEF CursorCurrent, LoadedWithoutGap

\* A render leaves the page on one that exists and the selection with what passes the filters.
LEMMA Rendering ==
    ASSUME IInv, NEW d, d.results \in Seq(Results), NEW f, NEW c \in DisplayChoices,
           NEW page \in Nat \ {0}, Rendered(d, f, c, page)
    PROVE  /\ data' = d /\ filters' = f /\ choices' = c
           /\ RowsCurrent' /\ SelectionPassesFilters' /\ KeptElsewhere
<1>1. /\ data' = d /\ filters' = f /\ choices' = c
      /\ groups' = Grouped(d, f, c)
      /\ requestedPage' = ClampedPage(page, groups')
      /\ selected' = selected \cap FilterResults(d, f, c)
  BY DEF Rendered, Pruned
<1> DEFINE gs == Grouped(d, f, c)
<1>2. Len(gs) \in Nat /\ (gs # <<>> => Len(gs) # 0)
  BY GroupedArranged DEF Arranged
<1> HIDE DEF gs
<1>3. PageCount(gs) \in Nat \ {0}
  BY <1>2, PageCounted
<1>4. ClampedPage(page, gs) \in 1..PageCount(gs)
  BY <1>3 DEF ClampedPage
<1>5. groups' = gs
  BY <1>1 DEF gs
<1>6. PageCount(groups)' = PageCount(gs)
  BY <1>5 DEF PageCount
<1>7. requestedPage' \in 1..PageCount(groups)'
  <2>1. requestedPage' = ClampedPage(page, gs)
    BY <1>1, <1>5
  <2>2. QED BY <1>4, <1>6, <2>1
<1>8. Grouped(data, filters, choices)' = gs
  BY <1>1 DEF gs
<1>9. RowsCurrent'
  BY <1>5, <1>7, <1>8 DEF RowsCurrent
<1>10. Filtered' = FilterResults(d, f, c)
  BY <1>1 DEF Filtered
<1>11. SelectionPassesFilters'
  BY <1>1, <1>10 DEF SelectionPassesFilters
<1>12. KeptElsewhere
  <2>1. \A r \in selected \ selected' : r \notin Filtered'
    BY <1>1, <1>10
  <2>2. selected' \subseteq selected
    BY <1>1
  <2>3. QED BY <2>1, <2>2 DEF KeptElsewhere
<1>13. QED BY <1>1, <1>9, <1>11, <1>12

LEMMA ClickStep ==
    ASSUME IInv, NEW p \in Visible, NEW shift \in BOOLEAN, Click(ResultAt(p), shift)
    PROVE  IInv' /\ KeptElsewhere
<1> DEFINE r == ResultAt(p)
           previous == {q \in Visible : ResultAt(q) \in lastSelected}
           now == {q \in Visible : ResultAt(q) = r}
           range == ResultsAt({v \in Visible : \E q \in previous, s \in now : Between(v, q, s)})
           clicked == IF shift /\ previous # {} THEN range ELSE {r}
<1>1. /\ selected' = SelectionAfterClick(r, r \notin selected, shift)
      /\ lastSelected' = {r}
      /\ UNCHANGED <<sent, rowVars, data, filters, choices, loading, exhausted, error>>
  BY DEF Click, rowVars, pagingVars
<1>2. r \in ResultsAt(Visible)
  BY DEF ResultsAt
<1>3. range \subseteq ResultsAt(Visible)
  BY DEF ResultsAt
<1>4. clicked \subseteq ResultsAt(Visible)
  BY <1>2, <1>3
<1>5. selected' = IF r \notin selected THEN selected \cup clicked ELSE selected \ clicked
  BY <1>1 DEF SelectionAfterClick
<1> HIDE DEF clicked, range, previous, now, r
<1>6. /\ selected' \subseteq selected \cup ResultsAt(Visible)
      /\ selected \ selected' \subseteq ResultsAt(Visible)
  BY <1>4, <1>5
<1>7. SelectionPassesFilters' /\ KeptElsewhere
  BY <1>1, <1>6, SelectionStep, ShownPass
<1>8. RowsCurrent' /\ CursorCurrent' /\ LoadedWithoutGap'
  BY <1>1, RowsUnchanged, LoadedUnchanged
<1>9. Typing'
  <2>1. r \in Results
    BY <1>2, ShownPass
  <2>2. Loaded' = Loaded
    BY <1>1 DEF Loaded
  <2>3. QED BY <1>1, <2>1, <2>2 DEF IInv, Typing
<1>10. QED BY <1>7, <1>8, <1>9 DEF IInv

LEMMA BulkStep ==
    ASSUME IInv, NEW action \in {"all", "none", "invert"}, Bulk(action)
    PROVE  IInv' /\ KeptElsewhere
<1>1. /\ selected' = SelectVisible(action)
      /\ UNCHANGED <<sent, rowVars, data, filters, choices, lastSelected, loading, exhausted, error>>
  BY DEF Bulk, rowVars, pagingVars
<1>2. selected' \subseteq selected \cup ResultsAt(Visible)
  BY <1>1 DEF SelectVisible
<1>3. selected \ selected' \subseteq IdsOn(requestedPage)
  <2>1. selected \subseteq Filtered
    BY DEF IInv, SelectionPassesFilters
  <2>2. QED BY <1>1, <2>1 DEF SelectVisible, OtherPageIds
<1>4. SelectionPassesFilters' /\ KeptElsewhere
  BY <1>1, <1>2, <1>3, SelectionStep
<1>5. RowsCurrent' /\ CursorCurrent' /\ LoadedWithoutGap' /\ Loaded' = Loaded
  BY <1>1, RowsUnchanged, LoadedUnchanged
<1>6. Typing'
  BY <1>1, <1>5 DEF IInv, Typing
<1>7. QED BY <1>4, <1>5, <1>6 DEF IInv

LEMMA SendStep ==
    ASSUME IInv, NEW added \in SUBSET selected, Send(added)
    PROVE  IInv' /\ KeptElsewhere
<1>1. /\ sent' = sent \cup added /\ selected' = selected \ added
      /\ UNCHANGED <<rowVars, data, filters, choices, lastSelected, loading, exhausted, error>>
  BY DEF Send, rowVars, pagingVars
<1>2. SelectionPassesFilters' /\ KeptElsewhere
  BY <1>1, SelectionStep
<1>3. RowsCurrent' /\ CursorCurrent' /\ LoadedWithoutGap' /\ Loaded' = Loaded
  BY <1>1, RowsUnchanged, LoadedUnchanged
<1>4. selected \subseteq Results
  BY ShownPass DEF IInv, SelectionPassesFilters
<1>5. Typing'
  BY <1>1, <1>3, <1>4 DEF IInv, Typing
<1>6. QED BY <1>2, <1>3, <1>5 DEF IInv

\* What only changes the expanded rows, or that something is being loaded.
LEMMA QuietStep ==
    ASSUME IInv, UNCHANGED <<sent, rowVars, selected, lastSelected>>,
           loading' \in {"no", "more", "all"}, error' \in {"none", "failed", "stuck"},
           UNCHANGED exhausted, loading' # "no" => ~exhausted
    PROVE  IInv' /\ KeptElsewhere
<1>1. UNCHANGED <<data, filters, choices>>
  BY DEF rowVars
<1>2. SelectionPassesFilters' /\ KeptElsewhere
  BY SelectionStep
<1>3. RowsCurrent' /\ Loaded' = Loaded
  BY RowsUnchanged
<1>4. CursorCurrent' /\ LoadedWithoutGap'
  <2>1. CursorCurrent /\ LoadedWithoutGap
    BY DEF IInv
  <2>2. CursorOf(data)' = CursorOf(data)
    BY <1>1 DEF CursorOf
  <2>3. QED BY <1>1, <1>3, <2>1, <2>2 DEF CursorCurrent, LoadedWithoutGap
<1>5. Typing'
  BY <1>1, <1>3 DEF IInv, Typing
<1>6. QED BY <1>2, <1>3, <1>4, <1>5 DEF IInv

LEMMA GoToPageStep ==
    ASSUME IInv, NEW page \in 1..PageCount(groups), GoToPage(page)
    PROVE  IInv' /\ KeptElsewhere
<1>1. /\ requestedPage' = page
      /\ UNCHANGED <<sent, data, filters, choices, groups, selected, lastSelected>>
      /\ UNCHANGED <<loading, exhausted, error>>
  BY DEF GoToPage, pagingVars
<1>2. RowsCurrent'
  <2>1. /\ PageCount(groups)' = PageCount(groups)
        /\ Grouped(data, filters, choices)' = Grouped(data, filters, choices)
    BY <1>1
  <2>2. QED BY <1>1, <2>1 DEF IInv, RowsCurrent
<1>3. Filtered' = Filtered /\ Loaded' = Loaded
  BY <1>1 DEF Filtered, Loaded
<1>4. SelectionPassesFilters'
  BY <1>1, <1>3 DEF IInv, SelectionPassesFilters
<1>5. KeptElsewhere
  BY <1>1 DEF KeptElsewhere
<1>6. CursorCurrent' /\ LoadedWithoutGap'
  BY <1>1, LoadedUnchanged
<1>7. Typing'
  BY <1>1, <1>3 DEF IInv, Typing
<1>8. QED BY <1>2, <1>4, <1>5, <1>6, <1>7 DEF IInv

LEMMA ToggleExpansionStep ==
    ASSUME IInv, NEW choice \in {"expandGroups", "duplicateControls"}, ToggleExpansion(choice)
    PROVE  IInv' /\ KeptElsewhere
<1>1. /\ choices' = [choices EXCEPT ![choice] = ~@]
      /\ UNCHANGED <<sent, data, filters, groups, requestedPage, selected, lastSelected>>
      /\ UNCHANGED <<loading, exhausted, error>>
  BY DEF ToggleExpansion, pagingVars
<1>2. choices \in DisplayChoices
  BY DEF IInv, Typing
<1>3. choices' \in DisplayChoices
  <2>1. choice \in {"hideDownloaded", "groupTitles", "expandGroups", "duplicateControls"}
    OBVIOUS
  <2>2. QED BY <1>1, <1>2, <2>1, SwitchedChoice
<1>4. /\ choices'.hideDownloaded = choices.hideDownloaded /\ choices'.groupTitles = choices.groupTitles
      /\ choices'.column = choices.column /\ choices'.descending = choices.descending
  BY <1>1, <1>2, ExpansionChoice
<1>5. FilterResults(data, filters, choices') = FilterResults(data, filters, choices)
  BY <1>4 DEF FilterResults
<1>6. Grouped(data, filters, choices') = Grouped(data, filters, choices)
  BY <1>4, <1>5 DEF Grouped
<1>7. RowsCurrent'
  <2>1. /\ PageCount(groups)' = PageCount(groups)
        /\ Grouped(data, filters, choices)' = Grouped(data, filters, choices')
    BY <1>1
  <2>2. QED BY <1>1, <1>6, <2>1 DEF IInv, RowsCurrent
<1>8. Filtered' = Filtered /\ Loaded' = Loaded
  <2>1. Filtered' = FilterResults(data, filters, choices')
    BY <1>1 DEF Filtered
  <2>2. QED BY <1>1, <1>5, <2>1 DEF Filtered, Loaded
<1>9. SelectionPassesFilters'
  BY <1>1, <1>8 DEF IInv, SelectionPassesFilters
<1>10. KeptElsewhere
  BY <1>1 DEF KeptElsewhere
<1>11. CursorCurrent' /\ LoadedWithoutGap'
  BY <1>1, LoadedUnchanged
<1>12. Typing'
  BY <1>1, <1>3, <1>8 DEF IInv, Typing
<1>13. QED BY <1>7, <1>9, <1>10, <1>11, <1>12 DEF IInv

\* Filtering or arranging the same results in another way.
LEMMA RearrangeStep ==
    ASSUME IInv, NEW f \in SUBSET Indexers, NEW c \in DisplayChoices,
           NEW page \in Nat \ {0}, Rendered(data, f, c, page), UNCHANGED <<sent, pagingVars, lastSelected>>
    PROVE  IInv' /\ KeptElsewhere
<1>1. data.results \in Seq(Results)
  BY DEF IInv, Typing, Answer
<1>2. /\ data' = data /\ filters' = f /\ choices' = c
      /\ RowsCurrent' /\ SelectionPassesFilters' /\ KeptElsewhere
  BY <1>1, Rendering
<1>3. UNCHANGED <<loading, exhausted, error>>
  BY DEF pagingVars
<1>4. CursorCurrent' /\ LoadedWithoutGap'
  BY <1>2, <1>3, LoadedUnchanged
<1>5. Typing'
  <2>1. Loaded' = Loaded
    BY <1>2 DEF Loaded
  <2>2. QED BY <1>2, <1>3, <2>1 DEF IInv, Typing
<1>6. QED BY <1>2, <1>4, <1>5 DEF IInv

LEMMA AnsweredStep ==
    ASSUME IInv, loading # "no", NEW next \in Continuations, Answered(next)
    PROVE  IInv' /\ KeptElsewhere
<1>1. loading' = "no" /\ UNCHANGED <<sent, lastSelected>>
  BY DEF Answered
<1>2. CASE Stuck(next)
  <2>1. exhausted' = TRUE /\ error' = "stuck" /\ UNCHANGED <<rowVars, data, filters, choices, selected>>
    BY <1>2 DEF Answered, rowVars
  <2>2. SelectionPassesFilters' /\ KeptElsewhere
    BY <2>1, SelectionStep
  <2>3. RowsCurrent' /\ Loaded' = Loaded
    BY <2>1, RowsUnchanged
  <2>4. CursorCurrent' /\ LoadedWithoutGap'
    BY <1>1, <2>1, <2>3 DEF IInv, CursorCurrent, LoadedWithoutGap
  <2>5. Typing'
    BY <1>1, <2>1, <2>3 DEF IInv, Typing
  <2>6. QED BY <2>2, <2>3, <2>4, <2>5 DEF IInv
<1>3. CASE ~Stuck(next)
  <2> DEFINE d == MergeResponses(next)
  <2>1. /\ Rendered(d, filters, choices, requestedPage)
        /\ exhausted' = (loading = "all" \/ next.results = <<>>)
        /\ UNCHANGED error
    BY <1>3 DEF Answered
  <2>2. /\ d \in Answer
        /\ d.downloaded \subseteq ToSet(d.results) \cap sent
        /\ ToSet(d.results) = Part(0, Len(d.results)) /\ IsInjective(d.results)
        /\ Len(d.results) \in 0..Len(Accepted)
        /\ loading # "all" => CursorOf(d) = Len(d.results)
    BY Merging
  <2> HIDE DEF d
  <2>3. requestedPage \in Nat \ {0}
    BY TypesFollow DEF TypeOK
  <2>4. d.results \in Seq(Results) /\ choices \in DisplayChoices
    BY <2>2 DEF Answer, IInv, Typing
  <2>5. /\ data' = d /\ filters' = filters /\ choices' = choices
        /\ RowsCurrent' /\ SelectionPassesFilters' /\ KeptElsewhere
    BY <2>1, <2>3, <2>4, Rendering
  <2>6. CursorCurrent'
    BY <1>1, <2>1, <2>2, <2>5 DEF CursorCurrent
  <2>7. LoadedWithoutGap'
    <3>1. CursorOf(data)' = CursorOf(d)
      BY <2>5 DEF CursorOf
    <3>2. Loaded' = ToSet(d.results)
      BY <2>5 DEF Loaded
    <3>3. QED BY <2>1, <2>2, <2>5, <3>1, <3>2 DEF LoadedWithoutGap
  <2>8. Typing'
    <3>1. Loaded' = ToSet(d.results)
      BY <2>5 DEF Loaded
    <3>2. QED BY <1>1, <2>1, <2>2, <2>5, <3>1 DEF IInv, Typing
  <2>9. QED BY <2>5, <2>6, <2>7, <2>8 DEF IInv
<1>4. QED BY <1>2, <1>3

-----------------------------------------------------------------------------
(* The specification                                                       *)

LEMMA InitHolds == Init => IInv
<1>1. SUFFICES ASSUME Init PROVE IInv
  OBVIOUS
<1>2. PICK n \in 0..Len(Accepted) : data \in Answers(0, 0, n, n)
  BY <1>1 DEF Init
<1>3. sent \subseteq Results
  BY <1>1, ResultsAssumption DEF Init
<1>4. n \in Nat /\ 0 \in 0..n /\ 0 \in Nat /\ 0 \in 0..Len(Accepted) /\ n \in 0..Len(Accepted)
      /\ 0 + 1 = 1 /\ n - 0 = n /\ 0 + n = n
  BY AcceptedOnce
<1>5. /\ data \in Answer
      /\ ListedResults(data.results, Part(0, n))
      /\ data.offset = 0 /\ data.limit = n
      /\ data.downloaded \subseteq Part(0, n) \cap sent
  BY <1>2, <1>3, <1>4, AnswerForm
<1>6. /\ Len(data.results) = n - 0
      /\ ToSet(data.results) = Part(0, n) /\ IsInjective(data.results)
  BY <1>4, <1>5, PartOfAccepted DEF ListedResults
<1>7. choices \in DisplayChoices
  BY <1>1, ResultsAssumption DEF Init
<1>8. filters \subseteq Indexers
  BY <1>1, <1>5, FiltersAreIndexers DEF Init
<1>9. Typing
  BY <1>1, <1>3, <1>5, <1>6, <1>7, <1>8 DEF Init, Typing, Loaded
<1>10. RowsCurrent
  <2>1. groups = Grouped(data, filters, choices) /\ requestedPage = 1
    BY <1>1 DEF Init
  <2>2. data.results \in Seq(Results)
    BY <1>5 DEF Answer
  <2>3. Len(groups) \in Nat /\ (groups # <<>> => Len(groups) # 0)
    BY <1>7, <2>1, <2>2, GroupedArranged DEF Arranged
  <2>4. PageCount(groups) \in Nat \ {0}
    BY <2>3, PageCounted
  <2>5. QED BY <2>1, <2>4 DEF RowsCurrent
<1>11. CursorCurrent
  BY <1>1, <1>4, <1>6 DEF Init, CursorCurrent
<1>12. SelectionPassesFilters
  BY <1>1 DEF Init, SelectionPassesFilters
<1>13. LoadedWithoutGap
  <2>1. CursorOf(data) = Len(data.results)
    BY <1>4, <1>5, <1>6 DEF CursorOf
  <2>2. QED BY <1>4, <1>6, <2>1 DEF LoadedWithoutGap, Loaded
<1>14. QED BY <1>9, <1>10, <1>11, <1>12, <1>13 DEF IInv

LEMMA SelectingStep ==
    ASSUME IInv, Selecting
    PROVE  IInv' /\ KeptElsewhere
<1>1. CASE \E p \in Visible, shift \in BOOLEAN : Click(ResultAt(p), shift)
  BY <1>1, ClickStep
<1>2. CASE \E action \in {"all", "none", "invert"} : Bulk(action)
  BY <1>2, BulkStep
<1>3. CASE \E added \in SUBSET selected \ {{}} : Send(added)
  BY <1>3, SendStep
<1>4. QED BY <1>1, <1>2, <1>3 DEF Selecting

LEMMA LookingStep ==
    ASSUME IInv, Looking
    PROVE  IInv' /\ KeptElsewhere
<1>1. CASE \E page \in 1..PageCount(groups) : GoToPage(page)
  BY <1>1, GoToPageStep
<1>2. ASSUME NEW k, ToggleTitle(k) PROVE IInv' /\ KeptElsewhere
  <2>1. UNCHANGED <<sent, rowVars, selected, lastSelected, loading, error, exhausted>>
    BY <1>2 DEF ToggleTitle, pagingVars
  <2>2. QED BY <2>1, QuietStep DEF IInv, Typing, CursorCurrent
<1>3. ASSUME NEW b, ToggleDuplicates(b) PROVE IInv' /\ KeptElsewhere
  <2>1. UNCHANGED <<sent, rowVars, selected, lastSelected, loading, error, exhausted>>
    BY <1>3 DEF ToggleDuplicates, pagingVars
  <2>2. QED BY <2>1, QuietStep DEF IInv, Typing, CursorCurrent
<1>4. CASE \E choice \in {"expandGroups", "duplicateControls"} : ToggleExpansion(choice)
  BY <1>4, ToggleExpansionStep
<1>5. QED BY <1>1, <1>2, <1>3, <1>4 DEF Looking

\* A change of what is listed leads to a page, whichever it is.
LEMMA ResetPage ==
    ASSUME IInv, NEW f, NEW c \in DisplayChoices
    PROVE  PageAfterReset(Grouped(data, f, c)) \in Nat \ {0}
<1> DEFINE gs == Grouped(data, f, c)
<1>1. data.results \in Seq(Results) /\ requestedPage \in Nat \ {0}
  BY TypesFollow DEF IInv, Typing, Answer, TypeOK
<1>2. Len(gs) \in Nat /\ (gs # <<>> => Len(gs) # 0)
  BY <1>1, GroupedArranged DEF Arranged
<1> HIDE DEF gs
<1>3. PageCount(gs) \in Nat \ {0}
  BY <1>2, PageCounted
<1>4. QED BY <1>1, <1>3 DEF PageAfterReset, ClampedPage, gs

LEMMA ArrangingStep ==
    ASSUME IInv, Arranging
    PROVE  IInv' /\ KeptElsewhere
<1>1. filters \in SUBSET Indexers /\ choices \in DisplayChoices
  BY DEF IInv, Typing
<1>2. DefaultFilters(data) \subseteq Indexers
  BY FiltersAreIndexers DEF IInv, Typing
<1>3. ASSUME NEW c \in DisplayChoices, Rearrange(c) PROVE IInv' /\ KeptElsewhere
  <2>1. /\ Rendered(data, filters, c, PageAfterReset(Grouped(data, filters, c)))
        /\ UNCHANGED <<sent, pagingVars, lastSelected>>
    BY <1>3 DEF Rearrange
  <2>2. QED BY <1>1, <2>1, ResetPage, RearrangeStep
<1>4. ASSUME NEW f \in SUBSET Indexers, SetFilters(f) PROVE IInv' /\ KeptElsewhere
  <2>1. /\ Rendered(data, f, choices, PageAfterReset(Grouped(data, f, choices)))
        /\ UNCHANGED <<sent, pagingVars, lastSelected>>
    BY <1>4 DEF SetFilters
  <2>2. QED BY <1>1, <2>1, ResetPage, RearrangeStep
<1>5. CASE \E choice \in {"hideDownloaded", "groupTitles"} : Rearrange([choices EXCEPT ![choice] = ~@])
  <2>1. PICK choice \in {"hideDownloaded", "groupTitles"} : Rearrange([choices EXCEPT ![choice] = ~@])
    BY <1>5
  <2>2. choice \in {"hideDownloaded", "groupTitles", "expandGroups", "duplicateControls"}
    OBVIOUS
  <2>3. [choices EXCEPT ![choice] = ~@] \in DisplayChoices
    BY <1>1, <2>2, SwitchedChoice
  <2>4. QED BY <1>3, <2>1, <2>3
<1>6. CASE \E column \in Columns, descending \in BOOLEAN :
               Rearrange([choices EXCEPT !.column = column, !.descending = descending])
  <2>1. PICK column \in Columns, descending \in BOOLEAN :
                 Rearrange([choices EXCEPT !.column = column, !.descending = descending])
    BY <1>6
  <2>2. [choices EXCEPT !.column = column, !.descending = descending] \in DisplayChoices
    BY <1>1, SortedChoice
  <2>3. QED BY <1>3, <2>1, <2>2
<1>7. CASE \E i \in DefaultFilters(data) : SetFilters(ToggledIn(i, filters))
  <2>1. PICK i \in DefaultFilters(data) : SetFilters(ToggledIn(i, filters))
    BY <1>7
  <2>2. ToggledIn(i, filters) \in SUBSET Indexers
    BY <1>1, <1>2 DEF ToggledIn
  <2>3. QED BY <1>4, <2>1, <2>2
<1>8. CASE SetFilters(DefaultFilters(data))
  BY <1>2, <1>4, <1>8
<1>9. QED BY <1>5, <1>6, <1>7, <1>8 DEF Arranging

LEMMA PagingStep ==
    ASSUME IInv, Paging
    PROVE  IInv' /\ KeptElsewhere
<1>1. CASE \E what \in {"more", "all"} : Continue(what)
  <2>1. PICK what \in {"more", "all"} : Continue(what)
    BY <1>1
  <2>2. /\ UNCHANGED <<sent, rowVars, selected, lastSelected>>
        /\ loading' = what /\ error' = "none" /\ UNCHANGED exhausted
        /\ ~exhausted
    BY <2>1 DEF Continue, PagingAvailable
  <2>3. QED BY <2>1, <2>2, QuietStep
<1>2. CASE loading # "no" /\ \E next \in Continuations : Answered(next)
  BY <1>2, AnsweredStep
<1>3. CASE ContinuationFails
  <2>1. /\ UNCHANGED <<sent, rowVars, selected, lastSelected>>
        /\ loading' = "no" /\ error' = "failed" /\ UNCHANGED exhausted
    BY <1>3 DEF ContinuationFails
  <2>2. QED BY <2>1, QuietStep
<1>4. QED BY <1>1, <1>2, <1>3 DEF Paging

LEMMA StutterStep ==
    ASSUME IInv, UNCHANGED vars
    PROVE  IInv' /\ KeptElsewhere
<1>1. UNCHANGED <<sent, rowVars, selected, lastSelected, loading, error, exhausted>>
  BY DEF vars, pagingVars
<1>2. QED BY <1>1, QuietStep DEF IInv, Typing, CursorCurrent

LEMMA StepHolds ==
    ASSUME IInv, [Next]_vars
    PROVE  IInv' /\ KeptElsewhere
BY SelectingStep, LookingStep, ArrangingStep, PagingStep, StutterStep DEF Next

LEMMA InvariantHolds == Spec => []IInv
<1>1. IInv /\ [Next]_vars => IInv'
  BY StepHolds
<1>2. QED BY <1>1, InitHolds, PTL DEF Spec

-----------------------------------------------------------------------------
(* The results                                                             *)

\* The type invariant.
THEOREM Typed == Spec => []TypeOK
BY InvariantHolds, TypesFollow, PTL

\* Whatever the user filters, sorts, groups, expands and loads, every result which passes the
\* filters has one place, on a page that exists, behind a row of its group, and behind no result
\* of an indexer with a lower priority, and the page on screen is not blank (groupResults,
\* pageOfGroups, visibleGroupedResults).
THEOREM AllReachable == Spec => []NothingUnreachable
BY InvariantHolds, Reachable, PTL

\* What is selected, so what would be sent to a downloader, passes the filters (the effect which
\* prunes the selection).
THEOREM SelectionIsFiltered == Spec => []SelectionPassesFilters
<1>1. IInv => SelectionPassesFilters
  BY DEF IInv
<1>2. QED BY <1>1, InvariantHolds, PTL

\* What is loaded is what the server merged first, without a gap and without repetition, however
\* "Load more", "Load all results" and failures alternate and however an answer is sorted (loadMore,
\* mergeSearchResponses).
THEOREM LoadedIsPrefix == Spec => []LoadedWithoutGap
<1>1. IInv => LoadedWithoutGap
  BY DEF IInv
<1>2. QED BY <1>1, InvariantHolds, PTL

\* No step selects what is on another page, or deselects what is there, still passes the filters
\* and was not sent (selectVisibleResults, selectionAfterClick, onDownloaded of ResultsToolbar).
THEOREM OnlyThisPage == Spec => OtherPagesKept
<1>1. IInv /\ [Next]_vars => [KeptElsewhere]_vars
  BY StepHolds
<1>2. [KeptElsewhere]_vars =>
          [/\ selected' \ selected \subseteq IdsOn(requestedPage)
           /\ \A r \in selected \ selected' :
                  r \in IdsOn(requestedPage) \/ r \notin Filtered' \/ r \in sent']_vars
  BY DEF KeptElsewhere
<1>3. QED BY <1>1, <1>2, InvariantHolds, PTL DEF Spec, OtherPagesKept

================================================================================
