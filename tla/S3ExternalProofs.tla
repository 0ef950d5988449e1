--------------------------- MODULE S3ExternalProofs ---------------------------
(***************************************************************************)
(* Theorems about S3External: for any inputs, names, regions and buckets,  *)
(* a URL leads to its bucket, the candidates of a seed are those worth     *)
(* probing, what is found is so, and what is not found an error explains.  *)
(***************************************************************************)
EXTENDS S3External, FiniteSetTheorems, WellFoundedInduction, TLAPS

LEMMA NatMinimum ==
  ASSUME NEW T \in SUBSET Nat, T # {}
  PROVE  \E n \in T : \A m \in T : n <= m
<1> DEFINE Less == {p \in Nat \X Nat : p[1] < p[2]}
<1>1. IsWellFoundedOn(Less, Nat)
  BY NatLessThanWellFounded, Zenon DEF OpToRel
<1> SUFFICES \E n \in T : \A m \in T : ~ (m < n)
  OBVIOUS
<1>2. \E n \in T : \A m \in T : <<m, n>> \notin Less
  BY <1>1, WFMin
<1> QED BY <1>2

LEMMA MinOfNats ==
  ASSUME NEW T \in SUBSET Nat, T # {}
  PROVE  Min(T) \in T /\ \A m \in T : Min(T) <= m
BY NatMinimum DEF Min

(***************************************************************************)
(* The n-th place of a finite set of places.                               *)
(***************************************************************************)
LEMMA UpToFacts ==
  ASSUME NEW n \in Nat, NEW P, \A p \in P : p \in 1 .. n, NEW k \in Nat
  PROVE  /\ IsFiniteSet({j \in P : j <= k}) /\ IsFiniteSet(P)
         /\ UpTo(P, k) \in Nat /\ UpTo(P, k) <= Cardinality(P) /\ Cardinality(P) \in Nat
         /\ UpTo(P, 0) = 0 /\ UpTo(P, n) = Cardinality(P)
         /\ k + 1 \in P => UpTo(P, k + 1) = UpTo(P, k) + 1
<1> DEFINE below(m) == {j \in P : j <= m}
<1>0. \A p \in P : p \in Int /\ 1 <= p /\ p <= n
  OBVIOUS
<1>1. IsFiniteSet(P)
  <2>1. IsFiniteSet(1 .. n) /\ P \in SUBSET (1 .. n)
    BY FS_Interval
  <2> QED BY <2>1, FS_Subset
<1>2. \A m : IsFiniteSet(below(m)) /\ Cardinality(below(m)) \in Nat /\ Cardinality(below(m)) <= Cardinality(P)
  <2> TAKE m
  <2> QED BY <1>1, below(m) \in SUBSET P, FS_Subset, FS_CardinalityType
<1>3. below(0) = {} /\ below(n) = P
  BY <1>0
<1>4. below(k + 1) = IF k + 1 \in P THEN below(k) \cup {k + 1} ELSE below(k)
  <2>1. \A p \in P : p <= k + 1 <=> p <= k \/ p = k + 1
    BY <1>0
  <2> QED BY <2>1
<1>5. k + 1 \notin below(k)
  OBVIOUS
<1>6. Cardinality(below(k + 1)) = IF k + 1 \in P THEN Cardinality(below(k)) + 1 ELSE Cardinality(below(k))
  <2> HIDE DEF below
  <2>1. Cardinality(below(k) \cup {k + 1}) = Cardinality(below(k)) + 1
    BY <1>2, <1>5, FS_AddElement
  <2> QED BY <1>4, <2>1
<1>7. \A m : UpTo(P, m) = Cardinality(below(m))
  BY DEF UpTo
<1>8. Cardinality(P) \in Nat
  BY <1>1, FS_CardinalityType
<1> HIDE DEF below
<1>9. UpTo(P, 0) = 0 /\ UpTo(P, n) = Cardinality(P)
  BY <1>3, <1>7, FS_EmptySet
<1>10. UpTo(P, k) \in Nat /\ UpTo(P, k) <= Cardinality(P)
  BY <1>2, <1>7
<1>11. IsFiniteSet({j \in P : j <= k})
  BY <1>2 DEF below
<1> QED BY <1>1, <1>6, <1>7, <1>8, <1>9, <1>10, <1>11

LEMMA UpToSkips ==
  ASSUME NEW n \in Nat, NEW P, \A p \in P : p \in 1 .. n, NEW k \in Nat, k + 1 \notin P
  PROVE  UpTo(P, k + 1) = UpTo(P, k)
<1>1. \A p \in P : p \in Int /\ p # k + 1
  OBVIOUS
<1>2. \A p \in P : p <= k + 1 <=> p <= k
  BY <1>1
<1>3. {j \in P : j <= k + 1} = {j \in P : j <= k}
  BY <1>2
<1> QED BY <1>3 DEF UpTo

LEMMA UpToMonotone ==
  ASSUME NEW n \in Nat, NEW P, \A p \in P : p \in 1 .. n, NEW j \in Nat, NEW k \in P, j < k
  PROVE  UpTo(P, j) < UpTo(P, k)
<1>1. IsFiniteSet({i \in P : i <= k})
  BY UpToFacts
<1>2. {i \in P : i <= j} \in SUBSET {i \in P : i <= k} /\ k \in {i \in P : i <= k} /\ k \notin {i \in P : i <= j}
  <2>1. \A p \in P : p \in Int
    OBVIOUS
  <2>2. \A p \in P : p <= j => p <= k
    BY <2>1
  <2> QED BY <2>1, <2>2
<1>3. Cardinality({i \in P : i <= j}) <= Cardinality({i \in P : i <= k})
      /\ Cardinality({i \in P : i <= j}) # Cardinality({i \in P : i <= k})
  BY <1>1, <1>2, FS_Subset
<1>4. UpTo(P, j) \in Nat /\ UpTo(P, k) \in Nat
  <2>1. k \in Nat
    OBVIOUS
  <2> QED BY <2>1, UpToFacts
<1> QED BY <1>3, <1>4 DEF UpTo

LEMMA NthFacts ==
  ASSUME NEW n \in Nat, NEW P, \A p \in P : p \in 1 .. n, NEW m \in 1 .. Cardinality(P)
  PROVE  Nth(P, m) \in P /\ UpTo(P, Nth(P, m)) = m
<1>0. \A h \in Nat :
        /\ UpTo(P, h) \in Nat
        /\ h + 1 \in P => UpTo(P, h + 1) = UpTo(P, h) + 1
        /\ h + 1 \notin P => UpTo(P, h + 1) = UpTo(P, h)
  <2> TAKE h \in Nat
  <2>1. UpTo(P, h) \in Nat
    BY UpToFacts
  <2>2. h + 1 \in P => UpTo(P, h + 1) = UpTo(P, h) + 1
    BY UpToFacts
  <2>3. h + 1 \notin P => UpTo(P, h + 1) = UpTo(P, h)
    BY UpToSkips
  <2> QED BY <2>1, <2>2, <2>3
<1> DEFINE T == {k \in 0 .. n : m <= UpTo(P, k)}
<1>1. n \in T
  BY UpToFacts
<1>2. PICK k \in 0 .. n : m <= UpTo(P, k) /\ \A j \in 0 .. n : m <= UpTo(P, j) => k <= j
  <2>1. T \in SUBSET Nat /\ T # {}
    BY <1>1
  <2>2. PICK k \in T : \A j \in T : k <= j
    <3> HIDE DEF T
    <3> QED BY <2>1, NatMinimum
  <2> QED BY <2>2
<1> HIDE DEF T
<1>3. k # 0 /\ k \in Nat /\ k <= n
  <2>1. k \in Nat /\ k <= n /\ m <= UpTo(P, k) /\ m \in Int /\ 1 <= m
    BY <1>2
  <2>2. UpTo(P, 0) = 0
    BY UpToFacts
  <2>3. k # 0
    <3> SUFFICES ASSUME k = 0 PROVE FALSE
      OBVIOUS
    <3> QED BY <2>1, <2>2
  <2> QED BY <2>1, <2>3
<1>4. PICK h : h = k - 1
  OBVIOUS
<1>5. h \in Nat /\ h + 1 = k
  BY <1>3, <1>4
<1>6. k \in P /\ UpTo(P, k) = m
  <2>1. /\ UpTo(P, h) \in Nat /\ UpTo(P, k) \in Nat
        /\ k \in P => UpTo(P, k) = UpTo(P, h) + 1
        /\ k \notin P => UpTo(P, k) = UpTo(P, h)
    <3>1. /\ UpTo(P, h) \in Nat
          /\ h + 1 \in P => UpTo(P, h + 1) = UpTo(P, h) + 1
          /\ h + 1 \notin P => UpTo(P, h + 1) = UpTo(P, h)
      BY <1>0, <1>5
    <3>2. UpTo(P, k) \in Nat
      BY <1>0, <1>3
    <3> QED BY <3>1, <3>2, <1>5
  <2>2. UpTo(P, h) < m
    <3>1. h \in 0 .. n /\ ~(k <= h)
      BY <1>3, <1>5
    <3>2. ~(m <= UpTo(P, h))
      BY <3>1, <1>2
    <3> QED BY <3>2, <2>1
  <2>3. m <= UpTo(P, k) /\ m \in Int
    BY <1>2
  <2> QED BY <2>1, <2>2, <2>3
<1> QED BY <1>6 DEF Nth

LEMMA NthOf ==
  ASSUME NEW n \in Nat, NEW P, \A p \in P : p \in 1 .. n, NEW k \in P
  PROVE  UpTo(P, k) \in 1 .. Cardinality(P) /\ Nth(P, UpTo(P, k)) = k
<1>0. \A p \in P : p \in Nat /\ 0 < p
  OBVIOUS
<1>1. UpTo(P, k) \in 1 .. Cardinality(P)
  <2>1. UpTo(P, 0) = 0 /\ UpTo(P, k) \in Nat /\ UpTo(P, k) <= Cardinality(P) /\ Cardinality(P) \in Nat
    BY <1>0, UpToFacts
  <2>2. UpTo(P, 0) < UpTo(P, k)
    BY <1>0, UpToMonotone
  <2> QED BY <2>1, <2>2
<1>2. Nth(P, UpTo(P, k)) \in P /\ UpTo(P, Nth(P, UpTo(P, k))) = UpTo(P, k)
  BY <1>1, NthFacts
<1>3. \A j \in P : UpTo(P, j) = UpTo(P, k) => j = k
  <2> TAKE j \in P
  <2>1. j < k => UpTo(P, j) < UpTo(P, k)
    BY <1>0, UpToMonotone
  <2>2. k < j => UpTo(P, k) < UpTo(P, j)
    BY <1>0, UpToMonotone
  <2>3. UpTo(P, j) \in Nat /\ UpTo(P, k) \in Nat
    BY <1>0, UpToFacts
  <2> QED BY <2>1, <2>2, <2>3
<1> QED BY <1>1, <1>2, <1>3

(***************************************************************************)
(* The places of a list of permuted names: suffix by suffix.               *)
(***************************************************************************)
SuffixCount == Len(PermutationSuffixes)
SuffixAt(variants, k) == ((k - 1) \div Len(variants)) + 1
VariantAt(variants, k) == ((k - 1) % Len(variants)) + 1

LEMMA SuffixesFacts ==
  /\ SuffixCount \in Nat /\ DOMAIN PermutationSuffixes = 1 .. SuffixCount
BY ExternalAssumption DEF IsSequence, SuffixCount

LEMMA PermutedPlaces ==
  ASSUME NEW variants, IsSequence(variants)
  PROVE  /\ Len(variants) * SuffixCount \in Nat
         /\ DOMAIN variants = 1 .. Len(variants) /\ Len(variants) \in Nat
         /\ DOMAIN PermutedNames(variants) = 1 .. Len(variants) * SuffixCount
         /\ \A k \in 1 .. Len(variants) * SuffixCount :
              /\ SuffixAt(variants, k) \in 1 .. SuffixCount
              /\ VariantAt(variants, k) \in 1 .. Len(variants)
              /\ PermutedNames(variants)[k] =
                   Join[<<variants[VariantAt(variants, k)], PermutationSuffixes[SuffixAt(variants, k)]>>]
              /\ \A j \in 1 .. k : SuffixAt(variants, j) <= SuffixAt(variants, k)
<1>1. Len(variants) \in Nat /\ DOMAIN variants = 1 .. Len(variants)
  BY DEF IsSequence
<1> DEFINE n == Len(variants)
<1> HIDE DEF n
<1>2. ASSUME NEW k \in 1 .. n * SuffixCount
      PROVE  /\ ((k - 1) \div n) + 1 \in 1 .. SuffixCount /\ ((k - 1) % n) + 1 \in 1 .. n
             /\ \A j \in 1 .. k : ((j - 1) \div n) + 1 <= ((k - 1) \div n) + 1
  <2>1. n \in Nat \ {0} /\ SuffixCount \in Nat
    BY <1>1, <1>2, SuffixesFacts DEF n
  <2>2. (k - 1) \div n \in 0 .. SuffixCount - 1
    BY <2>1
  <2>3. (k - 1) % n \in 0 .. n - 1
    BY <2>1
  <2>4. \A j \in 1 .. k : (j - 1) \div n <= (k - 1) \div n /\ (j - 1) \div n \in Int
    BY <2>1
  <2> QED BY <2>1, <2>2, <2>3, <2>4
<1>3. n * SuffixCount \in Nat
  BY <1>1, SuffixesFacts DEF n
<1>4. PermutedNames(variants) =
        [k \in 1 .. n * SuffixCount |-> Join[<<variants[((k - 1) % n) + 1], PermutationSuffixes[((k - 1) \div n) + 1]>>]]
  BY DEF PermutedNames, SuffixCount, n
<1> QED BY <1>1, <1>2, <1>3, <1>4 DEF SuffixAt, VariantAt, n

\* Each variant comes with each suffix.
LEMMA EachPermuted ==
  ASSUME NEW variants, IsSequence(variants),
         NEW v \in 1 .. Len(variants), NEW s \in 1 .. SuffixCount
  PROVE  \E k \in 1 .. Len(variants) * SuffixCount :
           SuffixAt(variants, k) = s /\ VariantAt(variants, k) = v
<1> DEFINE n == Len(variants)
           k == n * (s - 1) + v
<1>1. n \in Nat \ {0} /\ SuffixCount \in Nat
  BY SuffixesFacts DEF IsSequence
<1> HIDE DEF n
<1>2. v \in 1 .. n
  BY DEF n
<1>3. k - 1 = n * (s - 1) + (v - 1) /\ k \in Int
  BY <1>1, <1>2
<1>4. (k - 1) \div n = s - 1 /\ (k - 1) % n = v - 1
  BY <1>1, <1>2, <1>3
<1>5. k \in 1 .. n * SuffixCount
  <2>1. n * (s - 1) + n = n * s
    BY <1>1
  <2>2. n * (s - 1) >= 0 /\ n * (s - 1) \in Int
    BY <1>1
  <2>3. n * s <= n * SuffixCount /\ n * s \in Int /\ n * SuffixCount \in Int
    BY <1>1
  <2> QED BY <1>1, <1>2, <2>1, <2>2, <2>3
<1>6. ((k - 1) \div Len(variants)) + 1 = s /\ ((k - 1) % Len(variants)) + 1 = v
  BY <1>4 DEF n
<1>7. k \in 1 .. Len(variants) * SuffixCount
  BY <1>5 DEF n
<1> HIDE DEF k
<1> QED BY <1>6, <1>7 DEF SuffixAt, VariantAt

PermutationCount(variants) == Len(variants) * SuffixCount
FreshIn(variants) == Fresh(PermutedNames(variants))

\* The places where names come for the first time: one for each valid name.
LEMMA FreshFacts ==
  ASSUME NEW variants, IsSequence(variants)
  PROVE  /\ PermutationCount(variants) \in Nat
         /\ \A k \in FreshIn(variants) :
              k \in 1 .. PermutationCount(variants) /\ PermutedNames(variants)[k] \in ValidNames
         /\ \A j, k \in FreshIn(variants) :
              PermutedNames(variants)[j] = PermutedNames(variants)[k] => j = k
         /\ \A k \in 1 .. PermutationCount(variants) :
              PermutedNames(variants)[k] \in ValidNames =>
                \E j \in FreshIn(variants) :
                  j <= k /\ PermutedNames(variants)[j] = PermutedNames(variants)[k]
<1> DEFINE n == PermutationCount(variants)
           list == PermutedNames(variants)
<1>1. n \in Nat /\ DOMAIN list = 1 .. n
  BY PermutedPlaces DEF PermutationCount
<1>2. FreshIn(variants) = {k \in 1 .. n : list[k] \in ValidNames /\ \A j \in 1 .. k - 1 : list[j] # list[k]}
  BY <1>1 DEF FreshIn, Fresh
<1> HIDE DEF n, list
<1>3. \A j, k \in FreshIn(variants) : list[j] = list[k] => j = k
  <2> SUFFICES ASSUME NEW j \in FreshIn(variants), NEW k \in FreshIn(variants), list[j] = list[k], j < k
               PROVE  FALSE
    BY <1>1, <1>2
  <2>1. j \in 1 .. k - 1
    BY <1>1, <1>2
  <2> QED BY <1>2, <2>1
<1>4. ASSUME NEW k \in 1 .. n, list[k] \in ValidNames
      PROVE  \E j \in FreshIn(variants) : j <= k /\ list[j] = list[k]
  <2> DEFINE T == {j \in 1 .. n : list[j] = list[k]}
  <2>1. T \in SUBSET Nat /\ T # {} /\ k \in T
    BY <1>1
  <2>2. PICK j \in T : \A i \in T : j <= i
    <3> HIDE DEF T
    <3> QED BY <2>1, NatMinimum
  <2>3. j \in 1 .. n /\ list[j] = list[k] /\ j <= k
    BY <2>1, <2>2
  <2>4. \A i \in 1 .. j - 1 : list[i] # list[j]
    <3> SUFFICES ASSUME NEW i \in 1 .. j - 1, list[i] = list[j] PROVE FALSE
      OBVIOUS
    <3>1. i \in 1 .. n /\ ~(j <= i)
      BY <1>1, <2>3
    <3> QED BY <2>2, <2>3, <3>1
  <2> QED BY <1>2, <1>4, <2>3, <2>4
<1> QED BY <1>1, <1>2, <1>3, <1>4 DEF n, list

LEMMA ClampFacts ==
  ASSUME NEW max \in Int
  PROVE  Clamp(max) \in 1 .. Cap
BY ExternalAssumption DEF Clamp

\* The candidates are the names of the first places, as many as the cap allows.
LEMMA CandidatesFacts ==
  ASSUME NEW variants, IsSequence(variants), NEW max \in Int
  PROVE  LET found == CandidateNames(variants, max)
             fresh == FreshIn(variants) IN
         /\ Len(found) \in Nat /\ DOMAIN found = 1 .. Len(found) /\ Len(found) <= Clamp(max)
         /\ Len(found) # Clamp(max) => Len(found) = Cardinality(fresh)
         /\ Len(found) <= Cardinality(fresh) /\ Cardinality(fresh) \in Nat
         /\ \A i \in 1 .. Len(found) :
              /\ Nth(fresh, i) \in fresh /\ UpTo(fresh, Nth(fresh, i)) = i
              /\ found[i] = PermutedNames(variants)[Nth(fresh, i)]
<1> DEFINE found == CandidateNames(variants, max)
           fresh == FreshIn(variants)
           m == Min({Clamp(max), Cardinality(fresh)})
<1>1. found = [i \in 1 .. m |-> PermutedNames(variants)[Nth(fresh, i)]]
  BY DEF CandidateNames, FreshIn
<1>2. PermutationCount(variants) \in Nat /\ \A k \in fresh : k \in 1 .. PermutationCount(variants)
  BY FreshFacts
<1>3. Cardinality(fresh) \in Nat
  <2> HIDE DEF fresh
  <2> QED BY <1>2, UpToFacts, 0 \in Nat
<1>4. Clamp(max) \in Nat \ {0} /\ Clamp(max) \in Nat
  BY ClampFacts, ExternalAssumption
<1>5. m \in {Clamp(max), Cardinality(fresh)} /\ m <= Clamp(max) /\ m <= Cardinality(fresh)
  <2> HIDE DEF fresh
  <2>1. {Clamp(max), Cardinality(fresh)} \in SUBSET Nat
    BY <1>3, <1>4
  <2> QED BY <2>1, MinOfNats
<1> HIDE DEF m, fresh
<1>6. m \in Nat
  BY <1>3, <1>4, <1>5
<1>7. Len(found) = m /\ DOMAIN found = 1 .. m
  <2> HIDE DEF found
  <2> QED BY <1>1, <1>6
<1>8. \A i \in 1 .. m : Nth(fresh, i) \in fresh /\ UpTo(fresh, Nth(fresh, i)) = i
  <2> TAKE i \in 1 .. m
  <2>1. i \in 1 .. Cardinality(fresh)
    BY <1>3, <1>5, <1>6
  <2> QED BY <1>2, <2>1, NthFacts
<1>9. \A i \in 1 .. m : found[i] = PermutedNames(variants)[Nth(fresh, i)]
  BY <1>1
<1> HIDE DEF found
<1> QED BY <1>3, <1>5, <1>6, <1>7, <1>8, <1>9 DEF found, fresh

PlacesOf(variants, name) ==
  {s \in DOMAIN PermutationSuffixes : \E v \in ToSet(variants) : Join[<<v, PermutationSuffixes[s]>>] = name}

\* The suffixes a name can be made with are those of its places in the list.
LEMMA PlacesFacts ==
  ASSUME NEW variants, IsSequence(variants)
  PROVE  /\ \A k \in 1 .. PermutationCount(variants) :
              SuffixAt(variants, k) \in PlacesOf(variants, PermutedNames(variants)[k])
         /\ \A name : \A s \in PlacesOf(variants, name) :
              \E k \in 1 .. PermutationCount(variants) :
                SuffixAt(variants, k) = s /\ PermutedNames(variants)[k] = name
<1>1. DOMAIN variants = 1 .. Len(variants) /\ ToSet(variants) = {variants[i] : i \in 1 .. Len(variants)}
  BY PermutedPlaces DEF ToSet
<1>2. ASSUME NEW k \in 1 .. PermutationCount(variants)
      PROVE  SuffixAt(variants, k) \in PlacesOf(variants, PermutedNames(variants)[k])
  <2>1. /\ SuffixAt(variants, k) \in 1 .. SuffixCount /\ VariantAt(variants, k) \in 1 .. Len(variants)
        /\ PermutedNames(variants)[k] =
             Join[<<variants[VariantAt(variants, k)], PermutationSuffixes[SuffixAt(variants, k)]>>]
    BY PermutedPlaces DEF PermutationCount
  <2> QED BY <1>1, <2>1, SuffixesFacts DEF PlacesOf
<1>3. ASSUME NEW name, NEW s \in PlacesOf(variants, name)
      PROVE  \E k \in 1 .. PermutationCount(variants) :
               SuffixAt(variants, k) = s /\ PermutedNames(variants)[k] = name
  <2>1. PICK i \in 1 .. Len(variants) : Join[<<variants[i], PermutationSuffixes[s]>>] = name
    BY <1>1 DEF PlacesOf
  <2>2. s \in 1 .. SuffixCount
    BY SuffixesFacts DEF PlacesOf
  <2>3. PICK k \in 1 .. PermutationCount(variants) : SuffixAt(variants, k) = s /\ VariantAt(variants, k) = i
    BY <2>1, <2>2, EachPermuted DEF PermutationCount
  <2>4. PermutedNames(variants)[k] =
          Join[<<variants[VariantAt(variants, k)], PermutationSuffixes[SuffixAt(variants, k)]>>]
    BY <2>3, PermutedPlaces DEF PermutationCount
  <2> QED BY <2>1, <2>3, <2>4
<1> QED BY <1>2, <1>3

LEMMA PriorityFacts ==
  ASSUME NEW variants, IsSequence(variants), NEW name, PlacesOf(variants, name) # {}
  PROVE  /\ Priority(variants, name) \in PlacesOf(variants, name)
         /\ \A s \in PlacesOf(variants, name) : Priority(variants, name) <= s
<1>1. PlacesOf(variants, name) \in SUBSET Nat
  <2>1. \A s \in 1 .. SuffixCount : s \in Nat
    BY SuffixesFacts
  <2> QED BY <2>1, SuffixesFacts DEF PlacesOf
<1>2. Priority(variants, name) = Min(PlacesOf(variants, name))
  BY DEF Priority, PlacesOf
<1> QED BY <1>1, <1>2, MinOfNats

\* The names worth probing are the valid ones of the list.
LEMMA NamesPermuted ==
  ASSUME NEW variants, IsSequence(variants), NEW name
  PROVE  name \in Names(variants) <=>
           name \in ValidNames /\ \E k \in 1 .. PermutationCount(variants) : PermutedNames(variants)[k] = name
<1>1. DOMAIN PermutationSuffixes = 1 .. SuffixCount
      /\ ToSet(PermutationSuffixes) = {PermutationSuffixes[s] : s \in DOMAIN PermutationSuffixes}
  BY SuffixesFacts DEF ToSet
<1>2. name \in Names(variants) <=> name \in ValidNames /\ PlacesOf(variants, name) # {}
  <2>1. name \in Names(variants) <=>
          name \in ValidNames /\ \E v \in ToSet(variants), t \in ToSet(PermutationSuffixes) : name = Join[<<v, t>>]
    <3> DEFINE all == {Join[<<v, t>>] : v \in ToSet(variants), t \in ToSet(PermutationSuffixes)}
    <3>1. Names(variants) = all \cap ValidNames
      BY DEF Names
    <3>2. name \in all <=> \E v \in ToSet(variants), t \in ToSet(PermutationSuffixes) : name = Join[<<v, t>>]
      OBVIOUS
    <3> HIDE DEF all
    <3> QED BY <3>1, <3>2
  <2>2. ASSUME NEW v \in ToSet(variants), NEW t \in ToSet(PermutationSuffixes), name = Join[<<v, t>>]
        PROVE  PlacesOf(variants, name) # {}
    <3>1. PICK s \in DOMAIN PermutationSuffixes : t = PermutationSuffixes[s]
      BY <1>1
    <3> QED BY <2>2, <3>1 DEF PlacesOf
  <2>3. ASSUME NEW s \in PlacesOf(variants, name)
        PROVE  \E v \in ToSet(variants), t \in ToSet(PermutationSuffixes) : name = Join[<<v, t>>]
    <3>1. PICK v \in ToSet(variants) : Join[<<v, PermutationSuffixes[s]>>] = name
      BY DEF PlacesOf
    <3>2. PermutationSuffixes[s] \in ToSet(PermutationSuffixes)
      BY <1>1 DEF PlacesOf
    <3> QED BY <3>1, <3>2
  <2> QED BY <2>1, <2>2, <2>3
<1>3. PlacesOf(variants, name) # {} <=> \E k \in 1 .. PermutationCount(variants) : PermutedNames(variants)[k] = name
  BY PlacesFacts
<1> QED BY <1>2, <1>3

\* What the cap leaves out comes later in the list than all that it lets in.
LEMMA LeftOutFacts ==
  ASSUME NEW variants, IsSequence(variants), NEW max \in Int,
         NEW k \in FreshIn(variants),
         PermutedNames(variants)[k] \notin ToSet(CandidateNames(variants, max))
  PROVE  /\ Len(CandidateNames(variants, max)) = Clamp(max)
         /\ \A i \in 1 .. Len(CandidateNames(variants, max)) : Nth(FreshIn(variants), i) <= k
<1> DEFINE found == CandidateNames(variants, max)
           fresh == FreshIn(variants)
<1>1. PermutationCount(variants) \in Nat /\ \A j \in fresh : j \in 1 .. PermutationCount(variants)
  BY FreshFacts
<1>2. /\ Len(found) \in Nat /\ DOMAIN found = 1 .. Len(found)
      /\ Len(found) # Clamp(max) => Len(found) = Cardinality(fresh)
      /\ Len(found) <= Cardinality(fresh) /\ Cardinality(fresh) \in Nat
      /\ \A i \in 1 .. Len(found) :
           /\ Nth(fresh, i) \in fresh /\ UpTo(fresh, Nth(fresh, i)) = i
           /\ found[i] = PermutedNames(variants)[Nth(fresh, i)]
  BY CandidatesFacts
<1>3. \A i \in 1 .. Len(found) : found[i] \in ToSet(found)
  BY <1>2 DEF ToSet
<1>4. PermutedNames(variants)[k] \notin ToSet(found)
  OBVIOUS
<1>5. k \in fresh
  OBVIOUS
<1> HIDE DEF found, fresh
<1>6. UpTo(fresh, k) \in 1 .. Cardinality(fresh) /\ Nth(fresh, UpTo(fresh, k)) = k
  BY <1>1, <1>5, NthOf
<1>7. Len(found) < UpTo(fresh, k) /\ UpTo(fresh, k) \in Nat
  <2> SUFFICES ASSUME ~(Len(found) < UpTo(fresh, k)) PROVE FALSE
    BY <1>2, <1>6
  <2>1. UpTo(fresh, k) \in 1 .. Len(found)
    BY <1>2, <1>6
  <2> QED BY <1>2, <1>3, <1>4, <1>6, <2>1
<1>8. Len(found) = Clamp(max)
  BY <1>2, <1>6, <1>7
<1>9. ASSUME NEW i \in 1 .. Len(found) PROVE Nth(fresh, i) <= k
  <2>1. PICK j \in fresh : j = Nth(fresh, i) /\ UpTo(fresh, j) = i
    BY <1>2
  <2>2. j \in Nat /\ k \in Nat
    BY <1>1, <1>5, <2>1
  <2>3. k < j => UpTo(fresh, k) < UpTo(fresh, j)
    BY <1>1, <2>1, <2>2, UpToMonotone
  <2>4. ~(k < j)
    BY <1>2, <1>7, <2>1, <2>3
  <2> QED BY <2>1, <2>2, <2>4
<1> QED BY <1>8, <1>9 DEF found, fresh

\* The names the enumeration goes through are distinct and worth probing.
LEMMA CandidatesDistinct ==
  ASSUME NEW variants, IsSequence(variants), NEW max \in Int
  PROVE  LET found == CandidateNames(variants, max) IN
         /\ ToSet(found) \subseteq Names(variants)
         /\ \A i, j \in DOMAIN found : found[i] = found[j] => i = j
<1> DEFINE found == CandidateNames(variants, max)
           fresh == FreshIn(variants)
<1>1. /\ DOMAIN found = 1 .. Len(found)
      /\ \A i \in 1 .. Len(found) :
           /\ Nth(fresh, i) \in fresh /\ UpTo(fresh, Nth(fresh, i)) = i
           /\ found[i] = PermutedNames(variants)[Nth(fresh, i)]
  BY CandidatesFacts
<1>2. \A k \in fresh : k \in 1 .. PermutationCount(variants) /\ PermutedNames(variants)[k] \in ValidNames
  BY FreshFacts
<1>3. \A j, k \in fresh : PermutedNames(variants)[j] = PermutedNames(variants)[k] => j = k
  BY FreshFacts
<1>4. ToSet(found) = {found[i] : i \in DOMAIN found}
  BY DEF ToSet
<1> HIDE DEF found, fresh
<1>5. \A i \in 1 .. Len(found) : found[i] \in Names(variants)
  BY <1>1, <1>2, NamesPermuted
<1>6. ToSet(found) \subseteq Names(variants)
  BY <1>1, <1>4, <1>5
<1>7. \A i, j \in 1 .. Len(found) : found[i] = found[j] => i = j
  <2> TAKE i, j \in 1 .. Len(found)
  <2> HAVE found[i] = found[j]
  <2>1. Nth(fresh, i) = Nth(fresh, j)
    BY <1>1, <1>3
  <2> QED BY <1>1, <2>1
<1> QED BY <1>1, <1>6, <1>7 DEF found

\* The cap leaves out the names of the least valuable suffixes.
LEMMA CandidatesMostValuable ==
  ASSUME NEW variants, IsSequence(variants), NEW max \in Int,
         NEW name \in Names(variants) \ ToSet(CandidateNames(variants, max))
  PROVE  /\ Len(CandidateNames(variants, max)) = Clamp(max)
         /\ \A c \in ToSet(CandidateNames(variants, max)) :
              Priority(variants, c) <= Priority(variants, name)
<1> DEFINE found == CandidateNames(variants, max)
           fresh == FreshIn(variants)
           list == PermutedNames(variants)
           n == PermutationCount(variants)
<1>1. name \in ValidNames /\ PlacesOf(variants, name) # {}
  BY NamesPermuted, PlacesFacts
<1>2. Priority(variants, name) \in PlacesOf(variants, name)
  BY <1>1, PriorityFacts
<1>3. PICK k \in 1 .. n : SuffixAt(variants, k) = Priority(variants, name) /\ list[k] = name
  BY <1>2, PlacesFacts
<1>4. PICK j \in fresh : j <= k /\ list[j] = name
  BY <1>1, <1>3, FreshFacts
<1>5. Len(found) = Clamp(max) /\ \A i \in 1 .. Len(found) : Nth(fresh, i) <= j
  BY <1>4, LeftOutFacts
<1>6. /\ DOMAIN found = 1 .. Len(found)
      /\ \A i \in 1 .. Len(found) : Nth(fresh, i) \in fresh /\ found[i] = list[Nth(fresh, i)]
  BY CandidatesFacts
<1>7. n \in Nat /\ \A h \in fresh : h \in 1 .. n
  BY FreshFacts
<1>8. \A h \in 1 .. n :
       SuffixAt(variants, h) \in Int /\ \A g \in 1 .. h : SuffixAt(variants, g) <= SuffixAt(variants, h)
  <2>1. \A s \in 1 .. SuffixCount : s \in Int
    BY SuffixesFacts
  <2> QED BY <2>1, PermutedPlaces DEF PermutationCount
<1>9. \A h \in 1 .. n : Priority(variants, list[h]) <= SuffixAt(variants, h) /\ Priority(variants, list[h]) \in Int
  <2> TAKE h \in 1 .. n
  <2>1. SuffixAt(variants, h) \in PlacesOf(variants, list[h])
    BY PlacesFacts
  <2>2. \A s \in PlacesOf(variants, list[h]) : s \in Int
    BY SuffixesFacts DEF PlacesOf
  <2> QED BY <2>1, <2>2, PriorityFacts
<1> HIDE DEF found, fresh, list, n
<1>10. ASSUME NEW i \in 1 .. Len(found)
       PROVE  Priority(variants, found[i]) <= Priority(variants, name)
  <2>1. PICK h \in fresh : h = Nth(fresh, i) /\ found[i] = list[h] /\ h <= j
    BY <1>5, <1>6
  <2>2. h \in 1 .. n /\ h \in 1 .. k /\ k \in 1 .. n
    BY <1>3, <1>4, <1>7, <2>1
  <2>3. Priority(variants, list[h]) <= SuffixAt(variants, h) /\ Priority(variants, list[h]) \in Int
    BY <1>9, <2>2
  <2>4. SuffixAt(variants, h) <= SuffixAt(variants, k) /\ SuffixAt(variants, h) \in Int /\ SuffixAt(variants, k) \in Int
    BY <1>8, <2>2
  <2> QED BY <1>3, <2>1, <2>3, <2>4
<1>11. \A c \in ToSet(found) : \E i \in 1 .. Len(found) : c = found[i]
  BY <1>6 DEF ToSet
<1> QED BY <1>5, <1>10, <1>11 DEF found

(***************************************************************************)
(* The URL of a bucket.                                                    *)
(***************************************************************************)
\* A sequence after another.
LEMMA HostFacts ==
  ASSUME NEW S, NEW b \in Seq(S), NEW t \in Seq(S), t # <<>>
  PROVE  LET host == b \o t IN
         /\ host \in Seq(S) /\ Len(host) = Len(b) + Len(t) /\ Len(b) \in Nat /\ Len(t) \in Nat \ {0}
         /\ \A i \in 1 .. Len(b) : host[i] = b[i]
         /\ host[Len(b) + 1] = t[1]
         /\ SubSeq(host, 1, Len(b)) = b
         /\ SubSeq(host, Len(b) + 2, Len(host)) = SubSeq(t, 2, Len(t))
<1> DEFINE host == b \o t
<1>1. /\ host \in Seq(S) /\ Len(host) = Len(b) + Len(t) /\ Len(b) \in Nat /\ Len(t) \in Nat \ {0}
      /\ \A i \in 1 .. Len(host) : host[i] = IF i <= Len(b) THEN b[i] ELSE t[i - Len(b)]
  OBVIOUS
<1> HIDE DEF host
<1>2. \A i \in 1 .. Len(b) : host[i] = b[i]
  BY <1>1
<1>3. host[Len(b) + 1] = t[1]
  BY <1>1
<1>4. SubSeq(host, 1, Len(b)) = b
  <2>1. SubSeq(host, 1, Len(b)) = [i \in 1 .. Len(b) |-> host[i]]
    BY <1>1
  <2>2. b = [i \in 1 .. Len(b) |-> b[i]]
    OBVIOUS
  <2> QED BY <1>2, <2>1, <2>2
<1>5. SubSeq(host, Len(b) + 2, Len(host)) = SubSeq(t, 2, Len(t))
  <2>1. SubSeq(host, Len(b) + 2, Len(host)) = [i \in 1 .. Len(t) - 1 |-> host[i + (Len(b) + 1)]]
    BY <1>1
  <2>2. SubSeq(t, 2, Len(t)) = [i \in 1 .. Len(t) - 1 |-> t[i + 1]]
    BY <1>1
  <2>3. \A i \in 1 .. Len(t) - 1 : host[i + (Len(b) + 1)] = t[i + 1]
    <3> TAKE i \in 1 .. Len(t) - 1
    <3>1. i + (Len(b) + 1) \in 1 .. Len(host) /\ ~(i + (Len(b) + 1) <= Len(b)) /\ (i + (Len(b) + 1)) - Len(b) = i + 1
      BY <1>1
    <3> QED BY <1>1, <3>1
  <2> QED BY <2>1, <2>2, <2>3
<1> QED BY <1>1, <1>2, <1>3, <1>4, <1>5 DEF host

\* Only the labels of services start an endpoint.
LEMMA OnlyServiceLabels ==
  ASSUME NEW label, label \notin ServiceLabels, NEW trailing
  PROVE  VirtualHostedRegion(label, trailing) = Unrecognized
<1>1. label \notin {"s3", "s3-website", "s3-accelerate"} /\ \A r \in SiteRegions : label # WebsiteLabel[r]
  BY DEF ServiceLabels, FixedLabels
<1> QED BY <1>1 DEF VirtualHostedRegion

\* What follows a bucket's name is its endpoint.
LEMMA VirtualHostedBucket ==
  ASSUME NEW S, NEW b \in Seq(S), NEW t \in Seq(S), t # <<>>, b # <<>>, Unambiguous(b),
         VirtualHostedRegion(t[1], SubSeq(t, 2, Len(t))) # Unrecognized
  PROVE  ParseBucketURL(Virtual(b \o t)) =
           [bucket |-> b, region |-> VirtualHostedRegion(t[1], SubSeq(t, 2, Len(t)))]
<1> DEFINE host == b \o t
           n == Len(b)
<1>1. /\ host \in Seq(S) /\ Len(host) = n + Len(t) /\ n \in Nat /\ Len(t) \in Nat \ {0}
      /\ \A i \in 1 .. n : host[i] = b[i]
      /\ host[n + 1] = t[1] /\ SubSeq(host, 1, n) = b
      /\ SubSeq(host, n + 2, Len(host)) = SubSeq(t, 2, Len(t))
  BY HostFacts
<1>2. n # 0 /\ \A i \in 1 .. n : b[i] \notin ServiceLabels
  <2>1. \A i \in DOMAIN b : b[i] \in ToSet(b)
    BY DEF ToSet
  <2> QED BY <2>1 DEF Unambiguous
<1> HIDE DEF host, n
<1> DEFINE E == EndpointsIn(host)
<1>3. \A i \in E : i \in 2 .. Len(host) /\ VirtualHostedRegion(host[i], SubSeq(host, i + 1, Len(host))) # Unrecognized
  BY DEF EndpointsIn
<1>4. n + 1 \in E
  <2>1. n + 1 \in 2 .. Len(host) /\ (n + 1) + 1 = n + 2
    BY <1>1, <1>2
  <2> QED BY <1>1, <2>1 DEF EndpointsIn
<1>5. \A i \in E : n + 1 <= i
  <2> SUFFICES ASSUME NEW i \in E, ~(n + 1 <= i) PROVE FALSE
    OBVIOUS
  <2>1. i \in 1 .. n
    BY <1>1, <1>3
  <2>2. host[i] \notin ServiceLabels
    BY <1>1, <1>2, <2>1
  <2> QED BY <1>3, <2>2, OnlyServiceLabels
<1>6. Min(E) = n + 1
  <2>1. \A i \in E : i \in Int
    BY <1>1, <1>3
  <2> HIDE DEF E
  <2> QED BY <1>1, <1>4, <1>5, <2>1 DEF Min
<1>7. ParseVirtualHosted(Virtual(host)) =
        [bucket |-> b, region |-> VirtualHostedRegion(t[1], SubSeq(t, 2, Len(t)))]
  <2>1. Virtual(host).host = host
    BY DEF Virtual
  <2>2. EndpointsIn(Virtual(host).host) # {} /\ Min(EndpointsIn(Virtual(host).host)) = n + 1
    BY <1>4, <1>6, <2>1
  <2>3. (n + 1) - 1 = n /\ (n + 1) + 1 = n + 2
    BY <1>1
  <2> QED BY <1>1, <2>1, <2>2, <2>3 DEF ParseVirtualHosted
<1>8. Virtual(host).aws /\ Virtual(host).host[1] \notin {"s3", "s3-external-1", "s3-dualstack"}
  <2>1. host[1] \notin ServiceLabels
    BY <1>1, <1>2
  <2> QED BY <2>1 DEF Virtual, ServiceLabels, FixedLabels
<1> QED BY <1>7, <1>8 DEF ParseBucketURL, host

LabelsOf(b) == ToSet(b) \cup FixedLabels \cup SiteRegions \cup {WebsiteLabel[r] : r \in SiteRegions}

\* What each form adds to the name of the bucket.
EndpointOf(form, region) ==
  CASE form = "virtual global" -> <<"s3">>
    [] form = "virtual" -> <<"s3", region>>
    [] form = "virtual dualstack" -> <<"s3", "dualstack", region>>
    [] form = "website dot" -> <<"s3-website", region>>
    [] form = "website hyphen" -> <<WebsiteLabel[region]>>
    [] form = "accelerate" -> <<"s3-accelerate">>
    [] form = "accelerate dualstack" -> <<"s3-accelerate", "dualstack">>

VirtualForms ==
  {"virtual global", "virtual", "virtual dualstack", "website dot", "website hyphen", "accelerate",
   "accelerate dualstack"}

HintOf(form, region) == IF form \in RegionalForms THEN region ELSE NoRegion

LEMMA RegionFacts ==
  ASSUME NEW region \in SiteRegions
  PROVE  /\ region # Unrecognized /\ NoRegion # Unrecognized
         /\ WebsiteLabel[region] \notin FixedLabels
         /\ \A r \in SiteRegions : WebsiteLabel[r] = WebsiteLabel[region] => r = region
BY LabelAssumption

LEMMA RestOfTuple ==
  ASSUME NEW a, NEW c, NEW d
  PROVE  /\ SubSeq(<<a>>, 2, Len(<<a>>)) = <<>>
         /\ SubSeq(<<a, c>>, 2, Len(<<a, c>>)) = <<c>>
         /\ SubSeq(<<a, c, d>>, 2, Len(<<a, c, d>>)) = <<c, d>>
<1>1. SubSeq(<<a>>, 2, Len(<<a>>)) = <<>>
  OBVIOUS
<1>2. SubSeq(<<a, c>>, 2, Len(<<a, c>>)) = <<c>>
  <2> DEFINE t == <<a, c>>
  <2>1. Len(t) = 2 /\ t[2] = c
    OBVIOUS
  <2> HIDE DEF t
  <2>2. SubSeq(t, 2, 2) = [i \in 1 .. 1 |-> t[i + 1]]
    OBVIOUS
  <2>3. <<c>> = [i \in 1 .. 1 |-> c]
    OBVIOUS
  <2>4. \A i \in 1 .. 1 : t[i + 1] = c
    BY <2>1
  <2> QED BY <2>1, <2>2, <2>3, <2>4 DEF t
<1>3. SubSeq(<<a, c, d>>, 2, Len(<<a, c, d>>)) = <<c, d>>
  <2> DEFINE t == <<a, c, d>>
  <2>1. Len(t) = 3 /\ t[2] = c /\ t[3] = d
    OBVIOUS
  <2> HIDE DEF t
  <2>2. SubSeq(t, 2, 3) = [i \in 1 .. 2 |-> t[i + 1]]
    OBVIOUS
  <2>3. <<c, d>> = [i \in 1 .. 2 |-> IF i = 1 THEN c ELSE d]
    OBVIOUS
  <2>4. \A i \in 1 .. 2 : t[i + 1] = IF i = 1 THEN c ELSE d
    BY <2>1
  <2> QED BY <2>1, <2>2, <2>3, <2>4 DEF t
<1> QED BY <1>1, <1>2, <1>3

LEMMA EndpointFacts ==
  ASSUME NEW b, NEW form \in VirtualForms, NEW region \in SiteRegions
  PROVE  LET t == EndpointOf(form, region) IN
         /\ URLOf(b, form, region) = Virtual(b \o t)
         /\ t \in Seq(LabelsOf(b)) /\ t # <<>>
         /\ VirtualHostedRegion(t[1], SubSeq(t, 2, Len(t))) = HintOf(form, region)
<1>0. /\ region \in LabelsOf(b) /\ WebsiteLabel[region] \in LabelsOf(b)
      /\ \A x \in FixedLabels : x \in LabelsOf(b)
  BY DEF LabelsOf
<1>00. /\ \A r \in SiteRegions : WebsiteLabel[r] \notin FixedLabels
       /\ \A r \in SiteRegions : WebsiteLabel[r] = WebsiteLabel[region] => r = region
  BY LabelAssumption
<1>1. CASE form = "virtual global"
  <2> DEFINE t == <<"s3">>
  <2>1. EndpointOf(form, region) = t /\ URLOf(b, form, region) = Virtual(b \o t) /\ HintOf(form, region) = NoRegion
    BY <1>1 DEF EndpointOf, URLOf, HintOf, RegionalForms
  <2>2. t \in Seq(LabelsOf(b)) /\ t # <<>> /\ t[1] = "s3"
    BY <1>0 DEF FixedLabels
  <2>4. SubSeq(t, 2, Len(t)) = <<>>
    BY RestOfTuple
  <2>3. VirtualHostedRegion("s3", <<>>) = NoRegion
    BY <1>00 DEF VirtualHostedRegion, FixedLabels
  <2> QED BY <2>1, <2>2, <2>3, <2>4
<1>2. CASE form = "virtual"
  <2> DEFINE t == <<"s3", region>>
  <2>1. EndpointOf(form, region) = t /\ URLOf(b, form, region) = Virtual(b \o t) /\ HintOf(form, region) = region
    BY <1>2 DEF EndpointOf, URLOf, HintOf, RegionalForms
  <2>2. t \in Seq(LabelsOf(b)) /\ t # <<>> /\ t[1] = "s3"
    BY <1>0 DEF FixedLabels
  <2>4. SubSeq(t, 2, Len(t)) = <<region>>
    BY RestOfTuple
  <2>3. VirtualHostedRegion("s3", <<region>>) = region
    BY <1>00 DEF VirtualHostedRegion, FixedLabels
  <2> QED BY <2>1, <2>2, <2>3, <2>4
<1>3. CASE form = "virtual dualstack"
  <2> DEFINE t == <<"s3", "dualstack", region>>
  <2>1. EndpointOf(form, region) = t /\ URLOf(b, form, region) = Virtual(b \o t) /\ HintOf(form, region) = region
    BY <1>3 DEF EndpointOf, URLOf, HintOf, RegionalForms
  <2>2. t \in Seq(LabelsOf(b)) /\ t # <<>> /\ t[1] = "s3"
    BY <1>0 DEF FixedLabels
  <2>4. SubSeq(t, 2, Len(t)) = <<"dualstack", region>>
    BY RestOfTuple
  <2>3. VirtualHostedRegion("s3", <<"dualstack", region>>) = region
    BY <1>00 DEF VirtualHostedRegion, FixedLabels
  <2> QED BY <2>1, <2>2, <2>3, <2>4
<1>4. CASE form = "website dot"
  <2> DEFINE t == <<"s3-website", region>>
  <2>1. EndpointOf(form, region) = t /\ URLOf(b, form, region) = Virtual(b \o t) /\ HintOf(form, region) = region
    BY <1>4 DEF EndpointOf, URLOf, HintOf, RegionalForms
  <2>2. t \in Seq(LabelsOf(b)) /\ t # <<>> /\ t[1] = "s3-website"
    BY <1>0 DEF FixedLabels
  <2>4. SubSeq(t, 2, Len(t)) = <<region>>
    BY RestOfTuple
  <2>3. VirtualHostedRegion("s3-website", <<region>>) = region
    BY <1>00 DEF VirtualHostedRegion, FixedLabels
  <2> QED BY <2>1, <2>2, <2>3, <2>4
<1>5. CASE form = "website hyphen"
  <2> DEFINE t == <<WebsiteLabel[region]>>
  <2>1. EndpointOf(form, region) = t /\ URLOf(b, form, region) = Virtual(b \o t) /\ HintOf(form, region) = region
    BY <1>5 DEF EndpointOf, URLOf, HintOf, RegionalForms
  <2>2. t \in Seq(LabelsOf(b)) /\ t # <<>> /\ t[1] = WebsiteLabel[region]
    BY <1>0 DEF FixedLabels
  <2>4. SubSeq(t, 2, Len(t)) = <<>>
    BY RestOfTuple
  <2>3. VirtualHostedRegion(WebsiteLabel[region], <<>>) = region
    BY <1>00 DEF VirtualHostedRegion, FixedLabels
  <2> QED BY <2>1, <2>2, <2>3, <2>4
<1>6. CASE form = "accelerate"
  <2> DEFINE t == <<"s3-accelerate">>
  <2>1. EndpointOf(form, region) = t /\ URLOf(b, form, region) = Virtual(b \o t) /\ HintOf(form, region) = NoRegion
    BY <1>6 DEF EndpointOf, URLOf, HintOf, RegionalForms
  <2>2. t \in Seq(LabelsOf(b)) /\ t # <<>> /\ t[1] = "s3-accelerate"
    BY <1>0 DEF FixedLabels
  <2>4. SubSeq(t, 2, Len(t)) = <<>>
    BY RestOfTuple
  <2>3. VirtualHostedRegion("s3-accelerate", <<>>) = NoRegion
    BY <1>00 DEF VirtualHostedRegion, FixedLabels
  <2> QED BY <2>1, <2>2, <2>3, <2>4
<1>7. CASE form = "accelerate dualstack"
  <2> DEFINE t == <<"s3-accelerate", "dualstack">>
  <2>1. EndpointOf(form, region) = t /\ URLOf(b, form, region) = Virtual(b \o t) /\ HintOf(form, region) = NoRegion
    BY <1>7 DEF EndpointOf, URLOf, HintOf, RegionalForms
  <2>2. t \in Seq(LabelsOf(b)) /\ t # <<>> /\ t[1] = "s3-accelerate"
    BY <1>0 DEF FixedLabels
  <2>4. SubSeq(t, 2, Len(t)) = <<"dualstack">>
    BY RestOfTuple
  <2>3. VirtualHostedRegion("s3-accelerate", <<"dualstack">>) = NoRegion
    BY <1>00 DEF VirtualHostedRegion, FixedLabels
  <2> QED BY <2>1, <2>2, <2>3, <2>4
<1> QED BY <1>1, <1>2, <1>3, <1>4, <1>5, <1>6, <1>7 DEF VirtualForms

LEMMA PathStyleFacts ==
  ASSUME NEW b, b # NoName, NEW form \in Forms \ (VirtualForms \cup {"custom"}), NEW region \in SiteRegions
  PROVE  /\ ParseBucketURL(URLOf(b, form, region)) = [bucket |-> b, region |-> HintOf(form, region)]
         /\ URLOf(b, form, region).host \in Seq(LabelsOf(b))
<1>0. /\ region \in LabelsOf(b) /\ region # Unrecognized /\ NoRegion # Unrecognized
      /\ \A x \in FixedLabels : x \in LabelsOf(b)
  BY RegionFacts DEF LabelsOf
<1>1. CASE form = "path global"
  <2>1. URLOf(b, form, region) = PathStyle(<<"s3">>, b) /\ HintOf(form, region) = NoRegion
    BY <1>1 DEF URLOf, HintOf, RegionalForms
  <2>2. PathStyleRegion(<<"s3">>) = NoRegion
    BY DEF PathStyleRegion
  <2>3. <<"s3">> \in Seq(LabelsOf(b)) /\ <<"s3">>[1] = "s3"
    BY <1>0 DEF FixedLabels
  <2> QED BY <1>0, <2>1, <2>2, <2>3 DEF PathStyle, ParseBucketURL, ParsePathStyle
<1>2. CASE form = "path"
  <2>1. URLOf(b, form, region) = PathStyle(<<"s3", region>>, b) /\ HintOf(form, region) = region
    BY <1>2 DEF URLOf, HintOf, RegionalForms
  <2>2. PathStyleRegion(<<"s3", region>>) = region
    BY DEF PathStyleRegion
  <2>3. <<"s3", region>> \in Seq(LabelsOf(b)) /\ <<"s3", region>>[1] = "s3"
    BY <1>0 DEF FixedLabels
  <2> QED BY <1>0, <2>1, <2>2, <2>3 DEF PathStyle, ParseBucketURL, ParsePathStyle
<1>3. CASE form = "path dualstack"
  <2>1. URLOf(b, form, region) = PathStyle(<<"s3", "dualstack", region>>, b) /\ HintOf(form, region) = region
    BY <1>3 DEF URLOf, HintOf, RegionalForms
  <2>2. PathStyleRegion(<<"s3", "dualstack", region>>) = region
    BY DEF PathStyleRegion
  <2>3. <<"s3", "dualstack", region>> \in Seq(LabelsOf(b)) /\ <<"s3", "dualstack", region>>[1] = "s3"
    BY <1>0 DEF FixedLabels
  <2> QED BY <1>0, <2>1, <2>2, <2>3 DEF PathStyle, ParseBucketURL, ParsePathStyle
<1>4. CASE form = "path legacy dualstack"
  <2>1. URLOf(b, form, region) = PathStyle(<<"s3-dualstack", region>>, b) /\ HintOf(form, region) = region
    BY <1>4 DEF URLOf, HintOf, RegionalForms
  <2>2. PathStyleRegion(<<"s3-dualstack", region>>) = region
    BY DEF PathStyleRegion
  <2>3. <<"s3-dualstack", region>> \in Seq(LabelsOf(b)) /\ <<"s3-dualstack", region>>[1] = "s3-dualstack"
    BY <1>0 DEF FixedLabels
  <2> QED BY <1>0, <2>1, <2>2, <2>3 DEF PathStyle, ParseBucketURL, ParsePathStyle
<1> QED BY <1>1, <1>2, <1>3, <1>4 DEF Forms, GlobalForms, RegionalForms, VirtualForms

\* A URL of any form leads to its bucket and its region, unless labels of the
\* bucket's own are those of services.
LEMMA ParsedURL ==
  ASSUME NEW b, IsSequence(b), b # <<>>, b # NoName, Unambiguous(b),
         NEW form \in Forms, NEW region \in SiteRegions
  PROVE  ParseBucketURL(URLOf(b, form, region)) = [bucket |-> b, region |-> HintOf(form, region)]
<1>1. CASE form \in VirtualForms
  <2> DEFINE t == EndpointOf(form, region)
  <2>1. /\ URLOf(b, form, region) = Virtual(b \o t)
        /\ t \in Seq(LabelsOf(b)) /\ t # <<>>
        /\ VirtualHostedRegion(t[1], SubSeq(t, 2, Len(t))) = HintOf(form, region)
    BY <1>1, EndpointFacts
  <2>2. b \in Seq(LabelsOf(b))
    <3>1. b \in Seq(ToSet(b)) /\ ToSet(b) \subseteq LabelsOf(b)
      BY DEF IsSequence, LabelsOf
    <3> QED BY <3>1
  <2>3. HintOf(form, region) # Unrecognized
    BY RegionFacts DEF HintOf
  <2> HIDE DEF t
  <2> QED BY <2>1, <2>2, <2>3, VirtualHostedBucket
<1>2. CASE form = "custom"
  <2>1. URLOf(b, form, region) = [host |-> b, aws |-> FALSE, path |-> NoName] /\ HintOf(form, region) = NoRegion
    BY <1>2 DEF URLOf, HintOf, RegionalForms
  <2> QED BY <2>1 DEF ParseBucketURL
<1>3. CASE form \notin VirtualForms \cup {"custom"}
  BY <1>3, PathStyleFacts
<1> QED BY <1>1, <1>2, <1>3

\* The region of a URL is a label of its host, or one whose label is.
LEMMA HintFacts ==
  ASSUME NEW S, NEW url, url.host \in Seq(S), url.aws \in BOOLEAN
  PROVE  ParseBucketURL(url).region \in S \cup SiteRegions \cup {NoRegion}
<1> DEFINE R == S \cup SiteRegions \cup {NoRegion}
<1>1. \A label : \A trailing \in Seq(S) :
        VirtualHostedRegion(label, trailing) \in R \cup {Unrecognized}
  <2> TAKE label
  <2> TAKE trailing \in Seq(S)
  <2>1. Len(trailing) = 1 => trailing[1] \in S
    OBVIOUS
  <2>2. Len(trailing) = 2 => trailing[2] \in S
    OBVIOUS
  <2>3. (\E r \in SiteRegions : label = WebsiteLabel[r]) =>
          (CHOOSE r \in SiteRegions : label = WebsiteLabel[r]) \in SiteRegions
    OBVIOUS
  <2> QED BY <2>1, <2>2, <2>3 DEF VirtualHostedRegion
<1>2. \A labels \in Seq(S) : PathStyleRegion(labels) \in R \cup {Unrecognized}
  <2> TAKE labels \in Seq(S)
  <2>1. (Len(labels) = 2 => labels[2] \in S) /\ (Len(labels) = 3 => labels[3] \in S)
    OBVIOUS
  <2> QED BY <2>1 DEF PathStyleRegion
<1>3. ParsePathStyle(url).region \in R
  BY <1>2 DEF ParsePathStyle, Nothing
<1>4. ParseVirtualHosted(url).region \in R
  <2> DEFINE E == EndpointsIn(url.host)
  <2>1. CASE E = {}
    BY <2>1 DEF ParseVirtualHosted, Nothing
  <2>2. CASE E # {}
    <3>1. \A i \in E : i \in Nat
      BY DEF EndpointsIn
    <3>2. Min(E) \in E
      <4> HIDE DEF E
      <4> QED BY <2>2, <3>1, MinOfNats
    <3>3. PICK i : i = Min(E)
      OBVIOUS
    <3>4. /\ i \in 2 .. Len(url.host)
          /\ VirtualHostedRegion(url.host[i], SubSeq(url.host, i + 1, Len(url.host))) # Unrecognized
      BY <3>2, <3>3 DEF EndpointsIn
    <3>5. SubSeq(url.host, i + 1, Len(url.host)) \in Seq(S)
      BY <3>4
    <3>6. ParseVirtualHosted(url).region = VirtualHostedRegion(url.host[i], SubSeq(url.host, i + 1, Len(url.host)))
      BY <2>2, <3>3 DEF ParseVirtualHosted
    <3> HIDE DEF R
    <3> QED BY <1>1, <3>4, <3>5, <3>6
  <2> QED BY <2>1, <2>2
<1> QED BY <1>3, <1>4 DEF ParseBucketURL

LEMMA HostLabels ==
  ASSUME NEW b, IsSequence(b), NEW form \in Forms, NEW region \in SiteRegions, b # NoName
  PROVE  LET url == URLOf(b, form, region) IN
         url.host \in Seq(ToSet(url.host)) /\ url.aws \in BOOLEAN
<1> DEFINE url == URLOf(b, form, region)
<1>1. b \in Seq(LabelsOf(b))
  <2>1. b \in Seq(ToSet(b)) /\ ToSet(b) \subseteq LabelsOf(b)
    BY DEF IsSequence, LabelsOf
  <2> QED BY <2>1
<1>2. url.host \in Seq(LabelsOf(b)) /\ url.aws \in BOOLEAN
  <2>1. CASE form \in VirtualForms
    <3> DEFINE t == EndpointOf(form, region)
    <3>1. url = Virtual(b \o t) /\ t \in Seq(LabelsOf(b))
      BY <2>1, EndpointFacts
    <3> HIDE DEF t
    <3>2. b \o t \in Seq(LabelsOf(b))
      BY <1>1, <3>1
    <3> QED BY <3>1, <3>2 DEF Virtual
  <2>2. CASE form = "custom"
    BY <1>1, <2>2 DEF URLOf
  <2>3. CASE form \notin VirtualForms \cup {"custom"}
    <3>1. url.host \in Seq(LabelsOf(b))
      BY <2>3, PathStyleFacts
    <3>2. url.aws \in BOOLEAN
      BY <2>3 DEF URLOf, PathStyle, Forms, GlobalForms, RegionalForms, VirtualForms
    <3> QED BY <3>1, <3>2
  <2> QED BY <2>1, <2>2, <2>3
<1> HIDE DEF url
<1>3. url.host \in Seq(ToSet(url.host))
  BY <1>2 DEF ToSet
<1> QED BY <1>2, <1>3 DEF url

(***************************************************************************)
(* The invariant.                                                          *)
(***************************************************************************)
Probing == pc \in {"list", "contents", "read", "policy", "acl", "append"}

Parsed == ParseBucketURL(URLOf(input.bucket, input.form, input.region))

\* The names a run goes through, and what its input says about the region.
AskedNames ==
  IF input.mode = "seed" THEN ToSet(CandidateNames(input.variants, input.max)) ELSE {Parsed.bucket}

Hint == IF input.mode = "seed" THEN NoRegion ELSE Parsed.region

\* Nothing is known before the run begins.
Unbegun ==
  pc = "begin" =>
    names = <<>> /\ regions = <<>> /\ asked = 0 /\ reported = {} /\ errors = {}

\* The names ahead are distinct and asked for, the current one is being looked
\* for in the regions to check or being probed, and what is behind is not ahead.
WhatIsAhead ==
  /\ names \in Seq(AskedNames) /\ (input.mode = "url" => Len(names) <= 1)
  /\ \A i, j \in DOMAIN names : names[i] = names[j] => i = j
  /\ pc # "begin" => regions = RegionsToCheck(Hint)
  /\ pc = "done" => names = <<>>
  /\ \A f \in reported : f.bucket[1] \notin ToSet(names)

\* The bucket being probed is where it was found and one that may be reported.
ProbedWhereItIs ==
  Probing =>
    /\ names # <<>> /\ finding.bucket[1] = names[1]
    /\ finding.bucket \in buckets
    /\ selected # <<>> => finding.bucket[2] \in ToSet(selected)

\* What the probes have found so far is so, and a failed one has been reported.
ProbesSoFar ==
  Probing =>
    /\ Agrees(finding.list, access.list)
    /\ Agrees(finding.read, access.list /\ access.objects \in {"readable", "some"})
    /\ finding.policy => access.policy
    /\ pc \in {"contents", "read"} => finding.list = "yes"
    /\ pc \in {"policy", "acl", "append"} /\ finding.list = "unknown" => <<"list", names[1]>> \in errors
    /\ pc \in {"acl", "append"} /\ ~finding.policy /\ access.policy => <<"policy", names[1]>> \in errors
    /\ pc = "append" /\ ~finding.acl => <<"acl", names[1]>> \in errors

OneScope == \A r, q \in ScopeRegions : Partition[r] = Partition[q]

\* Until it is accounted for, a wanted bucket is ahead; and while its name is the
\* current one, it is being probed, or each failure to locate it was reported.
NothingDropped ==
  OneScope /\ pc # "begin" =>
    \A b \in buckets : Wanted(b) =>
      /\ b[1] \in ToSet(names) \/ Accounted(b)
      /\ names # <<>> /\ b[1] = names[1] =>
           /\ pc = "locate" /\ asked > 0 => <<"locate", b[1]>> \in errors
           /\ Probing => finding.bucket = b

\* A URL's only name is not dropped without a word either.
URLExplained ==
  /\ input.mode = "url" /\ pc # "begin" => names # <<>> \/ reported # {} \/ errors # {}
  /\ EmptyIsExplained

ExternalInvariant ==
  /\ TypeOK /\ Unbegun /\ WhatIsAhead
  /\ ProbedWhereItIs /\ ProbesSoFar /\ FindingsTrue /\ FoundWhereItIs
  /\ OmissionsAreTold /\ NothingDropped /\ URLExplained

LEMMA TailFacts ==
  ASSUME NEW S, NEW seq \in Seq(S), seq # <<>>
  PROVE  /\ Len(seq) \in Nat \ {0} /\ seq[1] \in S /\ DOMAIN seq = 1 .. Len(seq)
         /\ Tail(seq) \in Seq(S) /\ Len(Tail(seq)) = Len(seq) - 1
         /\ DOMAIN Tail(seq) = 1 .. Len(seq) - 1
         /\ \A i \in 1 .. Len(seq) - 1 : i + 1 \in 1 .. Len(seq) /\ Tail(seq)[i] = seq[i + 1]
OBVIOUS

\* Putting the first name aside leaves the others.
LEMMA TailNames ==
  ASSUME NEW S, NEW seq \in Seq(S), seq # <<>>
  PROVE  /\ seq[1] \in ToSet(seq)
         /\ \A x : x \in ToSet(seq) <=> x = seq[1] \/ x \in ToSet(Tail(seq))
         /\ (\A i, j \in DOMAIN seq : seq[i] = seq[j] => i = j) =>
              /\ seq[1] \notin ToSet(Tail(seq))
              /\ \A i, j \in DOMAIN Tail(seq) : Tail(seq)[i] = Tail(seq)[j] => i = j
<1>1. /\ Len(seq) \in Nat \ {0} /\ DOMAIN seq = 1 .. Len(seq)
      /\ DOMAIN Tail(seq) = 1 .. Len(seq) - 1
      /\ \A i \in 1 .. Len(seq) - 1 : i + 1 \in 1 .. Len(seq) /\ Tail(seq)[i] = seq[i + 1]
  BY TailFacts
<1> DEFINE rest == Tail(seq)
<1>2. \A x : x \in ToSet(seq) <=> \E i \in 1 .. Len(seq) : x = seq[i]
  BY <1>1 DEF ToSet
<1>3. \A x : x \in ToSet(rest) <=> \E i \in 1 .. Len(seq) - 1 : x = seq[i + 1]
  <2>1. \A x : x \in ToSet(rest) <=> \E i \in 1 .. Len(seq) - 1 : x = rest[i]
    BY <1>1 DEF ToSet
  <2> QED BY <1>1, <2>1
<1> HIDE DEF rest
<1>4. seq[1] \in ToSet(seq)
  BY <1>1, <1>2
<1>5. \A x : x \in ToSet(seq) <=> x = seq[1] \/ x \in ToSet(rest)
  <2> TAKE x
  <2>1. ASSUME NEW i \in 1 .. Len(seq), x = seq[i], x # seq[1] PROVE x \in ToSet(rest)
    <3>1. i - 1 \in 1 .. Len(seq) - 1 /\ (i - 1) + 1 = i
      BY <1>1, <2>1
    <3> QED BY <1>3, <2>1, <3>1
  <2>2. ASSUME NEW i \in 1 .. Len(seq) - 1, x = seq[i + 1] PROVE x \in ToSet(seq)
    BY <1>1, <1>2, <2>2
  <2> QED BY <1>2, <1>3, <1>4, <2>1, <2>2
<1>6. ASSUME \A i, j \in DOMAIN seq : seq[i] = seq[j] => i = j
      PROVE  /\ seq[1] \notin ToSet(rest)
             /\ \A i, j \in DOMAIN rest : rest[i] = rest[j] => i = j
  <2>1. \A i \in 1 .. Len(seq) - 1 : seq[i + 1] # seq[1]
    BY <1>1, <1>6
  <2>2. \A i, j \in 1 .. Len(seq) - 1 : seq[i + 1] = seq[j + 1] => i = j
    <3> TAKE i, j \in 1 .. Len(seq) - 1
    <3>1. i + 1 \in DOMAIN seq /\ j + 1 \in DOMAIN seq
      BY <1>1
    <3> QED BY <1>6, <3>1
  <2> QED BY <1>1, <1>3, <2>1, <2>2 DEF rest
<1> QED BY <1>4, <1>5, <1>6 DEF rest

(***************************************************************************)
(* What is asked for, and where.                                           *)
(***************************************************************************)
LEMMA InputFacts ==
  ASSUME input \in Inputs
  PROVE  /\ input.mode \in {"url", "seed"}
         /\ input.mode = "url" =>
              /\ input.form \in Forms /\ input.region \in SiteRegions
              /\ IsSequence(input.bucket) /\ input.bucket # <<>> /\ input.bucket # NoName
              /\ Hint \in DOMAIN Partition \cup {NoRegion}
         /\ input.mode = "seed" => IsSequence(input.variants) /\ input.max \in Int
<1>1. IsInput(input) /\ SiteRegions \subseteq DOMAIN Partition
  BY ExternalAssumption
<1>2. ASSUME input.mode = "url"
      PROVE  /\ input.form \in Forms /\ input.region \in SiteRegions
             /\ IsSequence(input.bucket) /\ input.bucket # <<>> /\ input.bucket # NoName
             /\ ToSet(URLOf(input.bucket, input.form, input.region).host) \subseteq DOMAIN Partition
  BY <1>1, <1>2 DEF IsInput
<1>3. ASSUME input.mode = "url" PROVE Hint \in DOMAIN Partition \cup {NoRegion}
  <2> DEFINE url == URLOf(input.bucket, input.form, input.region)
  <2>1. url.host \in Seq(ToSet(url.host)) /\ url.aws \in BOOLEAN
    BY <1>2, <1>3, HostLabels
  <2>2. ParseBucketURL(url).region \in ToSet(url.host) \cup SiteRegions \cup {NoRegion}
    BY <2>1, HintFacts
  <2>3. Hint = ParseBucketURL(url).region
    BY <1>3 DEF Hint, Parsed
  <2> HIDE DEF url
  <2> QED BY <1>1, <1>2, <1>3, <2>2, <2>3 DEF url
<1>4. input.mode \in {"url", "seed"} /\ (input.mode = "seed" => IsSequence(input.variants) /\ input.max \in Int)
  BY <1>1 DEF IsInput
<1> QED BY <1>2, <1>3, <1>4

LEMMA RegionsFacts ==
  ASSUME selected \in Selections, NEW hint \in DOMAIN Partition \cup {NoRegion}
  PROVE  /\ RegionsToCheck(hint) \in Seq(DOMAIN Partition) /\ RegionsToCheck(hint) # <<>>
         /\ Len(RegionsToCheck(hint)) \in Nat \ {0}
         /\ ToSet(RegionsToCheck(hint)) \subseteq DOMAIN Partition
<1>1. RegionsToCheck(hint) \in Seq(DOMAIN Partition) /\ RegionsToCheck(hint) # <<>>
  <2>1. selected \in Seq(DOMAIN Partition) /\ DefaultRegion \in DOMAIN Partition
    BY ExternalAssumption
  <2>2. CASE selected # <<>>
    BY <2>1, <2>2 DEF RegionsToCheck
  <2>3. CASE selected = <<>> /\ hint # NoRegion
    <3>1. RegionsToCheck(hint) = <<hint>> /\ hint \in DOMAIN Partition
      BY <2>3 DEF RegionsToCheck
    <3> QED BY <3>1
  <2>4. CASE selected = <<>> /\ hint = NoRegion
    <3>1. RegionsToCheck(hint) = <<DefaultRegion>>
      BY <2>4 DEF RegionsToCheck
    <3> QED BY <2>1, <3>1
  <2> QED BY <2>2, <2>3, <2>4
<1> DEFINE r == RegionsToCheck(hint)
<1> HIDE DEF r
<1>2. r \in Seq(DOMAIN Partition) /\ r # <<>>
  BY <1>1 DEF r
<1>3. Len(r) \in Nat \ {0} /\ ToSet(r) \subseteq DOMAIN Partition
  BY <1>2 DEF ToSet
<1> QED BY <1>2, <1>3 DEF r

\* A URL's parse, or a seed's candidates, as the invariant has them.
LEMMA CandidatesAsked ==
  ASSUME input \in Inputs, input.mode = "seed"
  PROVE  LET found == CandidateNames(input.variants, input.max) IN
         /\ found \in Seq(AskedNames) /\ Len(found) \in Nat /\ Len(found) <= Cap
         /\ \A i, j \in DOMAIN found : found[i] = found[j] => i = j
<1> DEFINE found == CandidateNames(input.variants, input.max)
<1>0. IsSequence(input.variants) /\ input.max \in Int
  BY InputFacts
<1>1. Len(found) \in Nat /\ DOMAIN found = 1 .. Len(found) /\ Len(found) <= Clamp(input.max)
  BY <1>0, CandidatesFacts
<1>2. \A i, j \in DOMAIN found : found[i] = found[j] => i = j
  BY <1>0, CandidatesDistinct
<1>3. Clamp(input.max) \in 1 .. Cap /\ Cap \in Nat
  BY <1>0, ClampFacts, ExternalAssumption
<1>4. AskedNames = ToSet(found)
  BY DEF AskedNames
<1>5. found = [i \in 1 .. Len(found) |-> found[i]]
  <2>1. found = [i \in 1 .. Min({Clamp(input.max), Cardinality(Fresh(PermutedNames(input.variants)))}) |-> found[i]]
    BY DEF CandidateNames
  <2> HIDE DEF found
  <2>2. found = [i \in DOMAIN found |-> found[i]]
    BY <2>1
  <2> QED BY <1>1, <2>2
<1> HIDE DEF found
<1>6. found \in Seq(ToSet(found))
  BY <1>1, <1>5 DEF ToSet
<1> QED BY <1>1, <1>2, <1>3, <1>4, <1>6 DEF found

(***************************************************************************)
(* The steps.                                                              *)
(***************************************************************************)
\* A step of locateBucket is one of four.
LEMMA LocateCases ==
  ASSUME LocateBucket
  PROVE  /\ pc = "locate" /\ names # <<>> /\ asked < Len(regions)
         /\ UNCHANGED <<world, regions, reported>>
         /\ \/ LocateFails(regions[asked + 1])
            \/ LocatesNothing(regions[asked + 1])
            \/ \E b \in buckets : LocatesUnselected(regions[asked + 1], b)
            \/ \E b \in buckets : LocatesBucket(regions[asked + 1], b)
BY DEF LocateBucket

LEMMA WorldStays ==
  ASSUME Next
  PROVE  input' = input /\ selected' = selected /\ buckets' = buckets /\ access' = access
<1> USE DEF world, vars
<1>1. CASE BeginURL
  BY <1>1 DEF BeginURL
<1>2. CASE BeginSeed
  BY <1>2 DEF BeginSeed
<1>3. CASE LocateBucket
  BY <1>3 DEF LocateBucket
<1>4. CASE NameExhausted
  BY <1>4 DEF NameExhausted
<1>5. CASE Finish
  BY <1>5 DEF Finish
<1>6. CASE SetupFails
  BY <1>6 DEF SetupFails
<1>7. CASE CheckListingAllowed
  BY <1>7 DEF CheckListingAllowed
<1>8. CASE ListBucketContents
  BY <1>8 DEF ListBucketContents
<1>9. CASE CheckAnonymousReadAllowed
  BY <1>9 DEF CheckAnonymousReadAllowed
<1>10. CASE CheckPolicy
  BY <1>10 DEF CheckPolicy
<1>11. CASE CheckACL
  BY <1>11 DEF CheckACL
<1>12. CASE AppendFinding
  BY <1>12 DEF AppendFinding
<1>13. CASE Returned
  BY <1>13 DEF Returned
<1> QED BY <1>1, <1>2, <1>3, <1>4, <1>5, <1>6, <1>7, <1>8, <1>9, <1>10, <1>11, <1>12, <1>13 DEF Next

\* Errors are never taken back.
LEMMA ErrorsStay ==
  ASSUME Next, Unbegun
  PROVE  \A e \in errors : e \in errors'
<1>1. CASE BeginURL
  BY <1>1 DEF BeginURL
<1>2. CASE BeginSeed
  BY <1>2 DEF BeginSeed, Unbegun
<1>3. CASE LocateBucket
  BY <1>3, LocateCases DEF LocateFails, LocatesNothing, LocatesUnselected, LocatesBucket, Reports
<1>4. CASE NameExhausted
  BY <1>4 DEF NameExhausted, Reports
<1>5. CASE Finish
  BY <1>5 DEF Finish
<1>6. CASE SetupFails
  BY <1>6 DEF SetupFails, Reports
<1>7. CASE CheckListingAllowed
  BY <1>7 DEF CheckListingAllowed, Reports
<1>8. CASE ListBucketContents
  BY <1>8 DEF ListBucketContents, Reports
<1>9. CASE CheckAnonymousReadAllowed
  BY <1>9 DEF CheckAnonymousReadAllowed, Reports
<1>10. CASE CheckPolicy
  BY <1>10 DEF CheckPolicy, Reports
<1>11. CASE CheckACL
  BY <1>11 DEF CheckACL, Reports
<1>12. CASE AppendFinding
  BY <1>12 DEF AppendFinding
<1>13. CASE Returned
  BY <1>13 DEF Returned, vars
<1> QED BY <1>1, <1>2, <1>3, <1>4, <1>5, <1>6, <1>7, <1>8, <1>9, <1>10, <1>11, <1>12, <1>13 DEF Next

\* Every error is of a call, or says that nothing was there.
ErrorTypes == \A e \in errors : e[1] \in Calls \cup {"no candidate", "not found"}

LEMMA ErrorTypesPreserved ==
  ASSUME Next, ErrorTypes
  PROVE  ErrorTypes'
<1> DEFINE T == Calls \cup {"no candidate", "not found"}
<1>0. \A what \in T : Reports(what) => ErrorTypes'
  <2> TAKE what \in T
  <2>1. <<what, names[1]>>[1] \in T
    OBVIOUS
  <2> HIDE DEF T
  <2> QED BY <2>1 DEF Reports, ErrorTypes, T
<1>c. \A what \in T :
        errors' = errors \cup {<<what, None>>} \/ errors' = {<<what, None>>} => ErrorTypes'
  <2> TAKE what \in T
  <2>1. <<what, None>>[1] \in T
    OBVIOUS
  <2> HIDE DEF T
  <2> QED BY <2>1 DEF ErrorTypes, T
<1>a. {"locate", "setup", "list", "contents", "read", "policy", "acl", "not found", "no candidate"} \subseteq T
  BY DEF Calls
<1>b. (errors' = errors) => ErrorTypes'
  BY DEF ErrorTypes
<1> HIDE DEF T
<1>1. CASE BeginURL
  BY <1>1, <1>b DEF BeginURL
<1>2. CASE BeginSeed
  <2>1. errors' = errors \/ errors' = {<<"no candidate", None>>}
    BY <1>2 DEF BeginSeed
  <2> QED BY <2>1, <1>c, <1>a, <1>b
<1>3. CASE LocateBucket
  BY <1>3, <1>0, <1>a, <1>b, LocateCases DEF LocateFails, LocatesNothing, LocatesUnselected, LocatesBucket
<1>4. CASE NameExhausted
  BY <1>4, <1>0, <1>a, <1>b DEF NameExhausted
<1>5. CASE Finish
  <2>1. errors' = errors \/ errors' = errors \cup {<<"not found", None>>}
    BY <1>5 DEF Finish
  <2> QED BY <2>1, <1>c, <1>a, <1>b
<1>6. CASE SetupFails
  BY <1>6, <1>0, <1>a, <1>b DEF SetupFails
<1>7. CASE CheckListingAllowed
  BY <1>7, <1>0, <1>a, <1>b DEF CheckListingAllowed
<1>8. CASE ListBucketContents
  BY <1>8, <1>0, <1>a, <1>b DEF ListBucketContents
<1>9. CASE CheckAnonymousReadAllowed
  BY <1>9, <1>0, <1>a, <1>b DEF CheckAnonymousReadAllowed
<1>10. CASE CheckPolicy
  BY <1>10, <1>0, <1>a, <1>b DEF CheckPolicy
<1>11. CASE CheckACL
  BY <1>11, <1>0, <1>a, <1>b DEF CheckACL
<1>12. CASE AppendFinding
  BY <1>12, <1>b DEF AppendFinding
<1>13. CASE Returned
  BY <1>13, <1>b DEF Returned, vars
<1> QED BY <1>1, <1>2, <1>3, <1>4, <1>5, <1>6, <1>7, <1>8, <1>9, <1>10, <1>11, <1>12, <1>13 DEF Next

\* The finding is a report as long as a bucket is being probed, and goes where
\* the reports are.
FindingTypes ==
  /\ finding \in Findings \cup {None} /\ (finding # None <=> Probing)
  /\ reported \subseteq Findings
  /\ pc \in {"begin", "locate", "list", "contents", "read", "policy", "acl", "append", "done"}

LEMMA FindingTypesPreserved ==
  ASSUME Next, FindingTypes, Unbegun, buckets \in Worlds, access \in Accesses
  PROVE  FindingTypes'
<1>0. access.policy \in BOOLEAN /\ None \notin Findings /\ {"yes", "no", "unknown"} \subseteq Decision
  BY ExternalAssumption, FindingAssumption DEF Decision
<1>a. \A f \in Findings : \A d \in Decision : \A p \in BOOLEAN :
         /\ [f EXCEPT !.list = d] \in Findings /\ [f EXCEPT !.read = d] \in Findings
         /\ [f EXCEPT !.policy = p] \in Findings /\ [f EXCEPT !.acl = p] \in Findings
  BY DEF Findings
<1>b. Probing => finding \in Findings
  BY <1>0 DEF FindingTypes
<1>1. CASE BeginURL
  BY <1>1 DEF BeginURL, FindingTypes, Probing
<1>2. CASE BeginSeed
  BY <1>2 DEF BeginSeed, FindingTypes, Probing
<1>3. CASE LocateBucket
  <2>1. pc = "locate" /\ finding = None /\ reported' = reported
    BY <1>3, LocateCases DEF FindingTypes, Probing
  <2>2. CASE UNCHANGED <<pc, finding>>
    BY <2>1, <2>2 DEF FindingTypes, Probing
  <2>3. CASE NextName
    BY <2>1, <2>3 DEF FindingTypes, Probing, NextName
  <2>4. ASSUME NEW b \in buckets, LocatesBucket(regions[asked + 1], b) PROVE FindingTypes'
    <3>1. b \in UNION Worlds
      OBVIOUS
    <3>2. finding' \in Findings /\ pc' = "list"
      BY <1>0, <2>4, <3>1 DEF LocatesBucket, Findings
    <3> QED BY <1>0, <2>1, <3>2 DEF FindingTypes, Probing
  <2> QED BY <1>3, LocateCases, <2>2, <2>3, <2>4
          DEF LocateFails, LocatesNothing, LocatesUnselected, NextRegion
<1>4. CASE NameExhausted
  BY <1>4 DEF NameExhausted, NextName, FindingTypes, Probing
<1>5. CASE Finish
  BY <1>5 DEF Finish, FindingTypes, Probing
<1>6. CASE SetupFails
  BY <1>6 DEF SetupFails, NextName, FindingTypes, Probing
<1>7. CASE CheckListingAllowed
  <2>1. finding \in Findings /\ reported' = reported /\ pc' \in {"contents", "policy"}
    BY <1>7, <1>b DEF CheckListingAllowed, Probing
  <2>2. finding' = finding \/ \E d \in Decision : finding' = [finding EXCEPT !.list = d]
    BY <1>0, <1>7 DEF CheckListingAllowed
  <2>3. finding' \in Findings
    BY <1>a, <2>1, <2>2
  <2> QED BY <1>0, <2>1, <2>3 DEF FindingTypes, Probing
<1>8. CASE ListBucketContents
  BY <1>8 DEF ListBucketContents, FindingTypes, Probing
<1>9. CASE CheckAnonymousReadAllowed
  <2>1. finding \in Findings /\ reported' = reported /\ pc' = "policy"
    BY <1>9, <1>b DEF CheckAnonymousReadAllowed, Probing
  <2>2. finding' = finding \/ \E d \in Decision : finding' = [finding EXCEPT !.read = d]
    BY <1>0, <1>9 DEF CheckAnonymousReadAllowed
  <2>3. finding' \in Findings
    BY <1>a, <2>1, <2>2
  <2> QED BY <1>0, <2>1, <2>3 DEF FindingTypes, Probing
<1>10. CASE CheckPolicy
  <2>1. finding \in Findings /\ reported' = reported /\ pc' = "acl"
    BY <1>10, <1>b DEF CheckPolicy, Probing
  <2>2. finding' = finding \/ \E p \in BOOLEAN : finding' = [finding EXCEPT !.policy = p]
    BY <1>0, <1>10 DEF CheckPolicy
  <2>3. finding' \in Findings
    BY <1>0, <1>a, <2>1, <2>2
  <2> QED BY <1>0, <2>1, <2>3 DEF FindingTypes, Probing
<1>11. CASE CheckACL
  <2>1. finding \in Findings /\ reported' = reported /\ pc' = "append"
    BY <1>11, <1>b DEF CheckACL, Probing
  <2>2. finding' = finding \/ \E p \in BOOLEAN : finding' = [finding EXCEPT !.acl = p]
    BY <1>0, <1>11 DEF CheckACL
  <2>3. finding' \in Findings
    BY <1>0, <1>a, <2>1, <2>2
  <2> QED BY <1>0, <2>1, <2>3 DEF FindingTypes, Probing
<1>12. CASE AppendFinding
  BY <1>12, <1>b DEF AppendFinding, NextName, FindingTypes, Probing
<1>13. CASE Returned
  BY <1>13 DEF Returned, vars, FindingTypes, Probing
<1> QED BY <1>1, <1>2, <1>3, <1>4, <1>5, <1>6, <1>7, <1>8, <1>9, <1>10, <1>11, <1>12, <1>13 DEF Next

\* After the beginning the regions stay, and the names do or lose the first.
LEMMA NamesSteps ==
  ASSUME Next, pc # "begin", ProbedWhereItIs
  PROVE  /\ regions' = regions /\ pc' # "begin"
         /\ \/ names' = names
            \/ names # <<>> /\ names' = Tail(names) /\ asked' = 0 /\ pc' = "locate"
         /\ pc' = "done" => names' = names /\ (names = <<>> \/ pc = "done")
         /\ \/ reported' = reported
            \/ reported' = reported \cup {finding} /\ names' = Tail(names) /\ pc = "append"
<1>1. CASE BeginURL \/ BeginSeed
  BY <1>1 DEF BeginURL, BeginSeed
<1>3. CASE LocateBucket
  <2>1. pc = "locate" /\ names # <<>> /\ regions' = regions /\ reported' = reported
    BY <1>3, LocateCases
  <2>2. (names' = names /\ pc' \in {"locate", "list"}) \/ NextName
    BY <1>3, <2>1, LocateCases DEF LocateFails, LocatesNothing, LocatesUnselected, LocatesBucket, NextRegion
  <2> QED BY <2>1, <2>2 DEF NextName
<1>4. CASE NameExhausted
  BY <1>4 DEF NameExhausted, NextName
<1>5. CASE Finish
  BY <1>5 DEF Finish
<1>6. CASE SetupFails
  BY <1>6 DEF SetupFails, NextName, ProbedWhereItIs, Probing
<1>7. CASE CheckListingAllowed
  BY <1>7 DEF CheckListingAllowed
<1>8. CASE ListBucketContents
  BY <1>8 DEF ListBucketContents
<1>9. CASE CheckAnonymousReadAllowed
  BY <1>9 DEF CheckAnonymousReadAllowed
<1>10. CASE CheckPolicy
  BY <1>10 DEF CheckPolicy
<1>11. CASE CheckACL
  BY <1>11 DEF CheckACL
<1>12. CASE AppendFinding
  BY <1>12 DEF AppendFinding, NextName, ProbedWhereItIs, Probing
<1>13. CASE Returned
  BY <1>13 DEF Returned, vars
<1> QED BY <1>1, <1>3, <1>4, <1>5, <1>6, <1>7, <1>8, <1>9, <1>10, <1>11, <1>12, <1>13 DEF Next

LEMMA UnbegunPreserved ==
  ASSUME Next, ProbedWhereItIs
  PROVE  Unbegun'
<1>1. CASE pc # "begin"
  BY <1>1, NamesSteps DEF Unbegun
<1>2. CASE pc = "begin"
  <2>1. BeginURL \/ BeginSeed
    BY <1>2 DEF Next, LocateBucket, NameExhausted, Finish, SetupFails, CheckListingAllowed,
                ListBucketContents, CheckAnonymousReadAllowed, CheckPolicy, CheckACL, AppendFinding,
                Returned
  <2> QED BY <2>1 DEF BeginURL, BeginSeed, Unbegun
<1> QED BY <1>1, <1>2

\* What a run begins with.
LEMMA Beginnings ==
  ASSUME Next, pc = "begin", input \in Inputs, selected \in Selections
  PROVE  /\ pc' \in {"locate", "done"} /\ (pc' = "done" => names' = <<>>)
         /\ names' \in Seq(AskedNames) /\ Len(names') <= Cap /\ (input.mode = "url" => Len(names') = 1)
         /\ \A i, j \in DOMAIN names' : names'[i] = names'[j] => i = j
         /\ regions' = RegionsToCheck(Hint)
         /\ asked' = asked /\ reported' = reported
         /\ ToSet(names') = AskedNames
         /\ errors' # errors => input.mode = "seed" /\ names' = <<>>
         /\ pc' = "done" => errors' # {}
<1>1. BeginURL \/ BeginSeed
  BY DEF Next, LocateBucket, NameExhausted, Finish, SetupFails, CheckListingAllowed,
         ListBucketContents, CheckAnonymousReadAllowed, CheckPolicy, CheckACL, AppendFinding, Returned
<1>2. CASE BeginURL
  <2>1. /\ input.mode = "url" /\ names' = <<Parsed.bucket>> /\ regions' = RegionsToCheck(Parsed.region)
        /\ pc' = "locate" /\ asked' = asked /\ reported' = reported /\ errors' = errors
    BY <1>2 DEF BeginURL, Parsed
  <2>2. AskedNames = {Parsed.bucket} /\ Hint = Parsed.region
    BY <2>1 DEF AskedNames, Hint
  <2>3. PICK b : b = Parsed.bucket
    OBVIOUS
  <2>4. <<b>> \in Seq({b}) /\ Len(<<b>>) = 1 /\ DOMAIN <<b>> = {1} /\ ToSet(<<b>>) = {b}
    BY DEF ToSet
  <2>5. Cap \in Nat \ {0}
    BY ExternalAssumption
  <2> QED BY <2>1, <2>2, <2>3, <2>4, <2>5
<1>3. CASE BeginSeed
  <2> DEFINE found == CandidateNames(input.variants, input.max)
  <2>1. /\ input.mode = "seed" /\ names' = found /\ regions' = RegionsToCheck(NoRegion)
        /\ asked' = asked /\ reported' = reported
        /\ (names' = <<>> /\ pc' = "done" /\ errors' = {<<"no candidate", None>>})
           \/ (names' # <<>> /\ pc' = "locate" /\ errors' = errors)
    BY <1>3 DEF BeginSeed
  <2>2. AskedNames = ToSet(found) /\ Hint = NoRegion
    BY <2>1 DEF AskedNames, Hint
  <2>3. /\ found \in Seq(AskedNames) /\ Len(found) \in Nat /\ Len(found) <= Cap
        /\ \A i, j \in DOMAIN found : found[i] = found[j] => i = j
    BY <2>1, CandidatesAsked
  <2> HIDE DEF found
  <2> QED BY <2>1, <2>2, <2>3
<1> QED BY <1>1, <1>2, <1>3

LEMMA WhatIsAheadPreserved ==
  ASSUME Next, WhatIsAhead, Unbegun, ProbedWhereItIs, input \in Inputs, selected \in Selections
  PROVE  WhatIsAhead'
<1>0. AskedNames' = AskedNames /\ Hint' = Hint /\ input' = input /\ \A h : RegionsToCheck(h)' = RegionsToCheck(h)
  BY WorldStays DEF AskedNames, Hint, Parsed, RegionsToCheck
<1>1. CASE pc = "begin"
  <2>1. /\ names' \in Seq(AskedNames) /\ (input.mode = "url" => Len(names') = 1)
        /\ \A i, j \in DOMAIN names' : names'[i] = names'[j] => i = j
        /\ regions' = RegionsToCheck(Hint) /\ reported' = {} /\ (pc' = "done" => names' = <<>>)
    BY <1>1, Beginnings DEF Unbegun
  <2>2. RegionsToCheck(Hint)' = RegionsToCheck(Hint)
    BY WorldStays DEF Hint, Parsed, RegionsToCheck
  <2>3. ASSUME input.mode = "url" PROVE Len(names') <= 1
    <3>1. Len(names') = 1
      BY <2>1, <2>3
    <3> QED BY <3>1
  <2> QED BY <1>0, <2>1, <2>2, <2>3 DEF WhatIsAhead
<1>2. CASE pc # "begin"
  <2>1. /\ names \in Seq(AskedNames) /\ (input.mode = "url" => Len(names) <= 1)
        /\ \A i, j \in DOMAIN names : names[i] = names[j] => i = j
        /\ regions = RegionsToCheck(Hint)
        /\ pc = "done" => names = <<>>
        /\ \A f \in reported : f.bucket[1] \notin ToSet(names)
    BY <1>2 DEF WhatIsAhead
  <2>2. regions' = RegionsToCheck(Hint)'
    <3>1. RegionsToCheck(Hint)' = RegionsToCheck(Hint)
      BY WorldStays DEF Hint, Parsed, RegionsToCheck
    <3> QED BY <1>2, <2>1, <3>1, NamesSteps
  <2>3. pc' = "done" => names' = <<>>
    BY <1>2, <2>1, NamesSteps
  <2>4. CASE names' = names
    <3>1. reported' = reported
      <4> SUFFICES ASSUME names' = Tail(names), pc = "append" PROVE FALSE
        BY <1>2, NamesSteps
      <4>1. names # <<>>
        BY <2>4 DEF ProbedWhereItIs, Probing
      <4>2. Len(Tail(names)) = Len(names) - 1 /\ Len(names) \in Nat
        BY <2>1, <4>1, TailFacts
      <4> QED BY <2>4, <4>2
    <3> QED BY <1>0, <2>1, <2>2, <2>3, <2>4, <3>1 DEF WhatIsAhead
  <2>5. CASE names # <<>> /\ names' = Tail(names)
    <3>1. /\ names' \in Seq(AskedNames) /\ Len(names') = Len(names) - 1 /\ Len(names) \in Nat
          /\ names[1] \notin ToSet(names') /\ names[1] \in ToSet(names)
          /\ \A x \in ToSet(names') : x \in ToSet(names)
          /\ \A i, j \in DOMAIN names' : names'[i] = names'[j] => i = j
      BY <2>1, <2>5, TailFacts, TailNames
    <3>2. input.mode = "url" => Len(names') <= 1
      BY <2>1, <3>1
    <3>3. \A f \in reported : f.bucket[1] \notin ToSet(names')
      BY <2>1, <3>1
    <3>4. ASSUME pc = "append" PROVE finding.bucket[1] \notin ToSet(names')
      BY <3>1, <3>4 DEF ProbedWhereItIs, Probing
    <3>5. \A f \in reported' : f.bucket[1] \notin ToSet(names')
      BY <1>2, <3>3, <3>4, NamesSteps
    <3> QED BY <1>0, <2>2, <2>3, <3>1, <3>2, <3>5 DEF WhatIsAhead
  <2> QED BY <1>2, <2>4, <2>5, NamesSteps
<1> QED BY <1>1, <1>2

LEMMA AskedSteps ==
  ASSUME Next
  PROVE  asked' = asked \/ asked' = 0 \/ (asked' = asked + 1 /\ asked < Len(regions) /\ pc = "locate")
<1>1. CASE BeginURL \/ BeginSeed
  BY <1>1 DEF BeginURL, BeginSeed
<1>3. CASE LocateBucket
  <2>1. asked < Len(regions) /\ pc = "locate"
    BY <1>3, LocateCases
  <2>2. asked' = asked \/ asked' = 0 \/ asked' = asked + 1
    BY <1>3, LocateCases DEF LocateFails, LocatesNothing, LocatesUnselected, LocatesBucket, NextRegion, NextName
  <2> QED BY <2>1, <2>2
<1>4. CASE NameExhausted \/ SetupFails \/ AppendFinding
  BY <1>4 DEF NameExhausted, SetupFails, AppendFinding, NextName
<1>5. CASE Finish \/ CheckListingAllowed \/ ListBucketContents
  BY <1>5 DEF Finish, CheckListingAllowed, ListBucketContents
<1>6. CASE CheckAnonymousReadAllowed \/ CheckPolicy \/ CheckACL \/ Returned
  BY <1>6 DEF CheckAnonymousReadAllowed, CheckPolicy, CheckACL, Returned, vars
<1> QED BY <1>1, <1>3, <1>4, <1>5, <1>6 DEF Next

PlaceTypes ==
  /\ Len(names) <= Cap
  /\ ToSet(regions) \subseteq DOMAIN Partition /\ asked \in 0 .. Len(regions)

\* The regions to check are some, and all of them regions.
LEMMA CheckedRegions ==
  ASSUME WhatIsAhead, input \in Inputs, selected \in Selections, pc # "begin"
  PROVE  /\ regions \in Seq(DOMAIN Partition) /\ regions # <<>> /\ Len(regions) \in Nat \ {0}
         /\ ToSet(regions) \subseteq DOMAIN Partition
<1>1. Hint \in DOMAIN Partition \cup {NoRegion}
  <2>1. CASE input.mode = "seed"
    BY <2>1 DEF Hint
  <2>2. CASE input.mode = "url"
    BY <2>2, InputFacts
  <2> QED BY <2>1, <2>2, InputFacts
<1>2. regions = RegionsToCheck(Hint)
  BY DEF WhatIsAhead
<1>3. PICK hint : hint = Hint
  OBVIOUS
<1> QED BY <1>1, <1>2, <1>3, RegionsFacts

LEMMA PlaceTypesPreserved ==
  ASSUME Next, PlaceTypes, WhatIsAhead, Unbegun, ProbedWhereItIs, input \in Inputs, selected \in Selections
  PROVE  PlaceTypes'
<1>1. input' \in Inputs /\ selected' \in Selections /\ pc' # "begin" /\ WhatIsAhead'
  <2>1. pc' # "begin"
    <3>1. pc = "begin" => pc' \in {"locate", "done"}
      BY Beginnings
    <3>2. pc # "begin" => pc' # "begin"
      BY NamesSteps
    <3> QED BY <3>1, <3>2
  <2> QED BY <2>1, WorldStays, WhatIsAheadPreserved
<1>2. regions' # <<>> /\ Len(regions') \in Nat /\ ToSet(regions') \subseteq DOMAIN Partition
  <2>1. Hint' \in DOMAIN Partition \cup {NoRegion}
    <3>1. Hint \in DOMAIN Partition \cup {NoRegion}
      <4>1. CASE input.mode = "seed"
        BY <4>1 DEF Hint
      <4>2. CASE input.mode = "url"
        BY <4>2, InputFacts
      <4> QED BY <4>1, <4>2, InputFacts
    <3> QED BY <3>1, WorldStays DEF Hint, Parsed
  <2>2. regions' = RegionsToCheck(Hint)'
    BY <1>1 DEF WhatIsAhead
  <2>3. PICK hint \in DOMAIN Partition \cup {NoRegion} : hint = Hint'
    BY <2>1
  <2>4. RegionsToCheck(Hint)' = RegionsToCheck(hint)
    BY <2>3, WorldStays DEF RegionsToCheck
  <2> QED BY <2>2, <2>3, <2>4, RegionsFacts
<1>3. asked' \in 0 .. Len(regions')
  <2>1. CASE pc = "begin"
    <3>1. asked' = 0
      BY <2>1, Beginnings DEF Unbegun
    <3> QED BY <1>2, <3>1
  <2>2. CASE pc # "begin"
    <3>1. regions' = regions
      BY <2>2, NamesSteps
    <3> QED BY <1>2, <3>1, AskedSteps DEF PlaceTypes
  <2> QED BY <2>1, <2>2
<1>4. Len(names') <= Cap
  <2>1. CASE pc = "begin"
    BY <2>1, Beginnings
  <2>2. CASE pc # "begin"
    <3>1. CASE names' = names
      BY <3>1 DEF PlaceTypes
    <3>2. CASE names # <<>> /\ names' = Tail(names)
      <4>1. names \in Seq(AskedNames)
        BY DEF WhatIsAhead
      <4>2. Len(names') = Len(names) - 1 /\ Len(names) \in Nat
        BY <3>2, <4>1, TailFacts
      <4>3. Len(names) <= Cap /\ Cap \in Nat
        BY ExternalAssumption DEF PlaceTypes
      <4> QED BY <4>2, <4>3
    <3> QED BY <2>2, <3>1, <3>2, NamesSteps
  <2> QED BY <2>1, <2>2
<1> QED BY <1>2, <1>3, <1>4 DEF PlaceTypes

\* A probe changes one field of the finding.
LEMMA FieldFacts ==
  ASSUME NEW f \in Findings, NEW d
  PROVE  /\ [f EXCEPT !.list = d].bucket = f.bucket /\ [f EXCEPT !.list = d].list = d
         /\ [f EXCEPT !.list = d].read = f.read /\ [f EXCEPT !.list = d].policy = f.policy
         /\ [f EXCEPT !.read = d].bucket = f.bucket /\ [f EXCEPT !.read = d].list = f.list
         /\ [f EXCEPT !.read = d].read = d /\ [f EXCEPT !.read = d].policy = f.policy
         /\ [f EXCEPT !.policy = d].bucket = f.bucket /\ [f EXCEPT !.policy = d].list = f.list
         /\ [f EXCEPT !.policy = d].read = f.read /\ [f EXCEPT !.policy = d].policy = d
         /\ [f EXCEPT !.acl = d].bucket = f.bucket /\ [f EXCEPT !.acl = d].list = f.list
         /\ [f EXCEPT !.acl = d].read = f.read /\ [f EXCEPT !.acl = d].policy = f.policy
         /\ [f EXCEPT !.acl = d].acl = d
BY DEF Findings

\* A bucket is being probed after a step that found it, or one that probed it.
LEMMA ProbingSteps ==
  ASSUME Next, Probing', FindingTypes, ProbedWhereItIs
  PROVE  /\ names # <<>> /\ names' = names
         /\ \/ Probing /\ finding \in Findings /\ finding'.bucket = finding.bucket
            \/ pc = "locate" /\ \E b \in buckets : LocatesBucket(regions[asked + 1], b)
<1>0. Probing => finding \in Findings /\ names # <<>>
  BY FindingAssumption DEF FindingTypes, ProbedWhereItIs
<1>1. CASE BeginURL \/ BeginSeed
  BY <1>1 DEF BeginURL, BeginSeed, Probing
<1>3. CASE LocateBucket
  BY <1>3, LocateCases
     DEF LocateFails, LocatesNothing, LocatesUnselected, LocatesBucket, NextRegion, NextName, Probing
<1>4. CASE NameExhausted \/ SetupFails \/ AppendFinding
  BY <1>4 DEF NameExhausted, SetupFails, AppendFinding, NextName, Probing
<1>5. CASE Finish \/ Returned
  BY <1>5 DEF Finish, Returned, vars, Probing
<1>6. CASE CheckListingAllowed
  <2>1. Probing /\ names' = names /\ finding \in Findings /\ names # <<>>
    BY <1>0, <1>6 DEF CheckListingAllowed, Probing
  <2>2. finding' = finding \/ \E d : finding' = [finding EXCEPT !.list = d]
    BY <1>6 DEF CheckListingAllowed
  <2>3. CASE finding' = finding
    BY <2>1, <2>3
  <2>4. ASSUME NEW d, finding' = [finding EXCEPT !.list = d]
        PROVE  finding'.bucket = finding.bucket
    <3>1. [finding EXCEPT !.list = d].bucket = finding.bucket
      BY <2>1, FieldFacts
    <3> QED BY <2>4, <3>1
  <2> QED BY <2>1, <2>2, <2>3, <2>4
<1>7. CASE ListBucketContents
  BY <1>0, <1>7 DEF ListBucketContents, Probing
<1>8. CASE CheckAnonymousReadAllowed
  <2>1. Probing /\ names' = names /\ finding \in Findings /\ names # <<>>
    BY <1>0, <1>8 DEF CheckAnonymousReadAllowed, Probing
  <2>2. finding' = finding \/ \E d : finding' = [finding EXCEPT !.read = d]
    BY <1>8 DEF CheckAnonymousReadAllowed
  <2>3. CASE finding' = finding
    BY <2>1, <2>3
  <2>4. ASSUME NEW d, finding' = [finding EXCEPT !.read = d]
        PROVE  finding'.bucket = finding.bucket
    <3>1. [finding EXCEPT !.read = d].bucket = finding.bucket
      BY <2>1, FieldFacts
    <3> QED BY <2>4, <3>1
  <2> QED BY <2>1, <2>2, <2>3, <2>4
<1>9. CASE CheckPolicy
  <2>1. Probing /\ names' = names /\ finding \in Findings /\ names # <<>>
    BY <1>0, <1>9 DEF CheckPolicy, Probing
  <2>2. finding' = finding \/ \E d : finding' = [finding EXCEPT !.policy = d]
    BY <1>9 DEF CheckPolicy
  <2>3. CASE finding' = finding
    BY <2>1, <2>3
  <2>4. ASSUME NEW d, finding' = [finding EXCEPT !.policy = d]
        PROVE  finding'.bucket = finding.bucket
    <3>1. [finding EXCEPT !.policy = d].bucket = finding.bucket
      BY <2>1, FieldFacts
    <3> QED BY <2>4, <3>1
  <2> QED BY <2>1, <2>2, <2>3, <2>4
<1>10. CASE CheckACL
  <2>1. Probing /\ names' = names /\ finding \in Findings /\ names # <<>>
    BY <1>0, <1>10 DEF CheckACL, Probing
  <2>2. finding' = finding \/ \E d : finding' = [finding EXCEPT !.acl = d]
    BY <1>10 DEF CheckACL
  <2>3. CASE finding' = finding
    BY <2>1, <2>3
  <2>4. ASSUME NEW d, finding' = [finding EXCEPT !.acl = d]
        PROVE  finding'.bucket = finding.bucket
    <3>1. [finding EXCEPT !.acl = d].bucket = finding.bucket
      BY <2>1, FieldFacts
    <3> QED BY <2>4, <3>1
  <2> QED BY <2>1, <2>2, <2>3, <2>4
<1> QED BY <1>1, <1>3, <1>4, <1>5, <1>6, <1>7, <1>8, <1>9, <1>10 DEF Next

LEMMA FoundFacts ==
  ASSUME NEW region, NEW b \in buckets, LocatesBucket(region, b)
  PROVE  /\ b[1] = names[1] /\ Partition[b[2]] = Partition[region]
         /\ selected # <<>> => b[2] \in ToSet(selected)
         /\ finding'.bucket = b /\ finding'.list = "unknown" /\ finding'.read = "unknown"
         /\ finding'.policy = FALSE /\ pc' = "list" /\ names' = names /\ errors' = errors
BY DEF LocatesBucket, Located

LEMMA ProbedWhereItIsPreserved ==
  ASSUME Next, FindingTypes, ProbedWhereItIs
  PROVE  ProbedWhereItIs'
<1> SUFFICES ASSUME Probing'
             PROVE  /\ names' # <<>> /\ finding'.bucket[1] = names'[1]
                    /\ finding'.bucket \in buckets'
                    /\ selected' # <<>> => finding'.bucket[2] \in ToSet(selected')
  BY DEF ProbedWhereItIs
<1>1. CASE Probing /\ finding'.bucket = finding.bucket
  BY <1>1, ProbingSteps, WorldStays DEF ProbedWhereItIs
<1>2. CASE \E b \in buckets : LocatesBucket(regions[asked + 1], b)
  <2>1. PICK b \in buckets : LocatesBucket(regions[asked + 1], b)
    BY <1>2
  <2>2. /\ b[1] = names[1] /\ finding'.bucket = b
        /\ selected # <<>> => b[2] \in ToSet(selected)
    BY <2>1, FoundFacts
  <2>3. names # <<>> /\ names' = names
    BY ProbingSteps
  <2> QED BY <2>2, <2>3, WorldStays
<1> QED BY <1>1, <1>2, ProbingSteps

LEMMA ProbesSoFarPreserved ==
  ASSUME Next, FindingTypes, ProbedWhereItIs, ProbesSoFar, Unbegun, access \in Accesses
  PROVE  ProbesSoFar'
<1> SUFFICES ASSUME Probing' PROVE ProbesSoFar'
  BY DEF ProbesSoFar
<1>0. names' = names /\ access' = access /\ \A e \in errors : e \in errors'
  BY ProbingSteps, WorldStays, ErrorsStay
<1>1. CASE \E b \in buckets : LocatesBucket(regions[asked + 1], b)
  <2>1. /\ finding'.list = "unknown" /\ finding'.read = "unknown" /\ finding'.policy = FALSE /\ pc' = "list"
    BY <1>1, FoundFacts
  <2> QED BY <2>1 DEF ProbesSoFar, Agrees
<1>2. CASE Probing /\ finding \in Findings
  <2>0. /\ Agrees(finding.list, access.list)
        /\ Agrees(finding.read, access.list /\ access.objects \in {"readable", "some"})
        /\ finding.policy => access.policy
        /\ pc \in {"contents", "read"} => finding.list = "yes"
        /\ pc \in {"policy", "acl", "append"} /\ finding.list = "unknown" => <<"list", names[1]>> \in errors
        /\ pc \in {"acl", "append"} /\ ~finding.policy /\ access.policy => <<"policy", names[1]>> \in errors
        /\ pc = "append" /\ ~finding.acl => <<"acl", names[1]>> \in errors
    BY <1>2 DEF ProbesSoFar
  <2>1. CASE CheckListingAllowed
    <3>1. CASE finding' = [finding EXCEPT !.list = IF access.list THEN "yes" ELSE "no"]
               /\ pc' = IF access.list THEN "contents" ELSE "policy"
      <4>1. /\ finding'.list = (IF access.list THEN "yes" ELSE "no")
            /\ finding'.read = finding.read /\ finding'.policy = finding.policy
        BY <1>2, <3>1, FieldFacts
      <4> QED BY <1>0, <2>0, <3>1, <4>1 DEF ProbesSoFar, Agrees
    <3>2. CASE finding' = finding /\ Reports("list") /\ pc' = "policy"
      BY <1>0, <2>0, <3>2 DEF ProbesSoFar, Reports
    <3> QED BY <2>1, <3>1, <3>2 DEF CheckListingAllowed
  <2>2. CASE ListBucketContents
    <3>1. finding' = finding /\ pc' \in {"read", "policy"} /\ finding.list = "yes"
      BY <2>0, <2>2 DEF ListBucketContents
    <3> QED BY <1>0, <2>0, <3>1 DEF ProbesSoFar
  <2>3. CASE CheckAnonymousReadAllowed
    <3>1. pc' = "policy" /\ finding.list = "yes" /\ access.list
      BY <2>0, <2>3 DEF CheckAnonymousReadAllowed, Agrees
    <3>2. CASE finding' = finding
      BY <1>0, <2>0, <3>1, <3>2 DEF ProbesSoFar
    <3>3. CASE finding' = [finding EXCEPT !.read = "yes"] /\ access.objects \in {"readable", "some"}
      <4>1. finding'.list = "yes" /\ finding'.read = "yes" /\ finding'.policy = finding.policy
        BY <1>2, <3>1, <3>3, FieldFacts
      <4> QED BY <1>0, <2>0, <3>1, <3>3, <4>1 DEF ProbesSoFar, Agrees
    <3> QED BY <2>3, <3>2, <3>3 DEF CheckAnonymousReadAllowed
  <2>4. CASE CheckPolicy
    <3>1. pc' = "acl" /\ (finding.list = "unknown" => <<"list", names[1]>> \in errors)
      BY <2>0, <2>4 DEF CheckPolicy
    <3>2. CASE finding' = [finding EXCEPT !.policy = access.policy]
      <4>1. finding'.list = finding.list /\ finding'.read = finding.read /\ finding'.policy = access.policy
        BY <1>2, <3>2, FieldFacts
      <4> QED BY <1>0, <2>0, <3>1, <4>1 DEF ProbesSoFar
    <3>3. CASE finding' = finding /\ Reports("policy")
      BY <1>0, <2>0, <3>1, <3>3 DEF ProbesSoFar, Reports
    <3> QED BY <2>4, <3>2, <3>3 DEF CheckPolicy
  <2>5. CASE CheckACL
    <3>1. /\ pc' = "append" /\ (finding.list = "unknown" => <<"list", names[1]>> \in errors)
          /\ ~finding.policy /\ access.policy => <<"policy", names[1]>> \in errors
      BY <2>0, <2>5 DEF CheckACL
    <3>2. CASE finding' = [finding EXCEPT !.acl = TRUE]
      <4>1. finding'.list = finding.list /\ finding'.read = finding.read /\ finding'.policy = finding.policy
            /\ finding'.acl = TRUE
        BY <1>2, <3>2, FieldFacts
      <4> QED BY <1>0, <2>0, <3>1, <4>1 DEF ProbesSoFar
    <3>3. CASE finding' = finding /\ Reports("acl")
      BY <1>0, <2>0, <3>1, <3>3 DEF ProbesSoFar, Reports
    <3> QED BY <2>5, <3>2, <3>3 DEF CheckACL
  <2>6. CheckListingAllowed \/ ListBucketContents \/ CheckAnonymousReadAllowed \/ CheckPolicy \/ CheckACL
    BY <1>2 DEF Next, Probing, BeginURL, BeginSeed, LocateBucket, NameExhausted, Finish, SetupFails,
                AppendFinding, NextName, Returned
  <2> QED BY <2>1, <2>2, <2>3, <2>4, <2>5, <2>6
<1> QED BY <1>1, <1>2, ProbingSteps

LEMMA ReportedSteps ==
  ASSUME Next
  PROVE  \/ reported' = reported
         \/ reported' = reported \cup {finding} /\ pc = "append" /\ errors' = errors
<1>1. CASE AppendFinding
  BY <1>1 DEF AppendFinding
<1>2. CASE LocateBucket
  BY <1>2, LocateCases
<1>3. CASE BeginURL \/ BeginSeed \/ NameExhausted \/ Finish \/ SetupFails
  BY <1>3 DEF BeginURL, BeginSeed, NameExhausted, Finish, SetupFails
<1>4. CASE CheckListingAllowed \/ ListBucketContents \/ CheckAnonymousReadAllowed
  BY <1>4 DEF CheckListingAllowed, ListBucketContents, CheckAnonymousReadAllowed
<1>5. CASE CheckPolicy \/ CheckACL \/ Returned
  BY <1>5 DEF CheckPolicy, CheckACL, Returned, vars
<1> QED BY <1>1, <1>2, <1>3, <1>4, <1>5 DEF Next

LEMMA FindingsTruePreserved ==
  ASSUME Next, FindingsTrue, ProbesSoFar
  PROVE  FindingsTrue'
<1> DEFINE True(f) == /\ Agrees(f.list, access.list)
                      /\ Agrees(f.read, access.list /\ access.objects \in {"readable", "some"})
                      /\ f.policy => access.policy
<1>1. \A f \in reported : True(f)
  BY DEF FindingsTrue
<1>2. pc = "append" => True(finding)
  BY DEF ProbesSoFar, Probing
<1>3. (\A f \in reported' : True(f)) => FindingsTrue'
  BY WorldStays DEF FindingsTrue
<1> HIDE DEF True
<1> QED BY <1>1, <1>2, <1>3, ReportedSteps

LEMMA OmissionsToldPreserved ==
  ASSUME Next, OmissionsAreTold, ProbesSoFar, ProbedWhereItIs, Unbegun
  PROVE  OmissionsAreTold'
<1> DEFINE Told(f) == /\ f.list = "unknown" => <<"list", f.bucket[1]>> \in errors'
                      /\ ~f.policy /\ access.policy => <<"policy", f.bucket[1]>> \in errors'
                      /\ ~f.acl => <<"acl", f.bucket[1]>> \in errors'
<1>0. \A e \in errors : e \in errors'
  BY ErrorsStay
<1>1. \A f \in reported : Told(f)
  BY <1>0 DEF OmissionsAreTold
<1>2. ASSUME pc = "append" PROVE Told(finding)
  <2>1. finding.bucket[1] = names[1]
    BY <1>2 DEF ProbedWhereItIs, Probing
  <2>2. /\ finding.list = "unknown" => <<"list", names[1]>> \in errors
        /\ ~finding.policy /\ access.policy => <<"policy", names[1]>> \in errors
        /\ ~finding.acl => <<"acl", names[1]>> \in errors
    BY <1>2 DEF ProbesSoFar, Probing
  <2> QED BY <1>0, <2>1, <2>2
<1>3. (\A f \in reported' : Told(f)) => OmissionsAreTold'
  BY WorldStays DEF OmissionsAreTold
<1> HIDE DEF Told
<1> QED BY <1>1, <1>2, <1>3, ReportedSteps

LEMMA FoundWhereItIsPreserved ==
  ASSUME Next, FoundWhereItIs, ProbedWhereItIs, WhatIsAhead
  PROVE  FoundWhereItIs'
<1> SUFFICES ASSUME NEW f \in reported'
             PROVE  /\ f.bucket \in buckets'
                    /\ selected' # <<>> => f.bucket[2] \in ToSet(selected')
                    /\ \A g \in reported' : g.bucket[1] = f.bucket[1] => g = f
  BY DEF FoundWhereItIs
<1>1. \A h \in reported :
        /\ h.bucket \in buckets /\ (selected # <<>> => h.bucket[2] \in ToSet(selected))
        /\ \A g \in reported : g.bucket[1] = h.bucket[1] => g = h
  BY DEF FoundWhereItIs
<1>2. CASE reported' = reported
  BY <1>1, <1>2, WorldStays
<1>3. CASE reported' = reported \cup {finding} /\ pc = "append"
  <2>1. /\ names # <<>> /\ finding.bucket[1] = names[1] /\ finding.bucket \in buckets
        /\ selected # <<>> => finding.bucket[2] \in ToSet(selected)
    BY <1>3 DEF ProbedWhereItIs, Probing
  <2>2. names[1] \in ToSet(names)
    <3>1. names \in Seq(AskedNames)
      BY DEF WhatIsAhead
    <3> QED BY <2>1, <3>1, TailNames
  <2>3. \A h \in reported : h.bucket[1] # finding.bucket[1]
    BY <2>1, <2>2 DEF WhatIsAhead
  <2>4. f.bucket \in buckets' /\ (selected' # <<>> => f.bucket[2] \in ToSet(selected'))
    BY <1>1, <1>3, <2>1, WorldStays
  <2>5. \A g \in reported' : g.bucket[1] = f.bucket[1] => g = f
    BY <1>1, <1>3, <2>3
  <2> QED BY <2>4, <2>5
<1> QED BY <1>2, <1>3, ReportedSteps

(***************************************************************************)
(* No wanted bucket is dropped.                                            *)
(***************************************************************************)
\* Whichever region is asked about a wanted bucket, it is of its partition.
LEMMA WantedScope ==
  ASSUME OneScope, WhatIsAhead, pc # "begin", input \in Inputs, NEW b, Wanted(b), NEW r \in ToSet(regions)
  PROVE  Partition[b[2]] = Partition[r] /\ b[1] \in AskedNames
<1>1. regions = RegionsToCheck(Hint)
  BY DEF WhatIsAhead
<1>2. input.mode = "url" => Parsed = [bucket |-> input.bucket, region |-> HintOf(input.form, input.region)]
  <2> SUFFICES ASSUME input.mode = "url"
               PROVE  Parsed = [bucket |-> input.bucket, region |-> HintOf(input.form, input.region)]
    OBVIOUS
  <2>1. /\ input.form \in Forms /\ input.region \in SiteRegions
        /\ IsSequence(input.bucket) /\ input.bucket # <<>> /\ input.bucket # NoName
    BY InputFacts
  <2>2. Unambiguous(input.bucket)
    BY DEF Wanted, WantedNames
  <2> QED BY <2>1, <2>2, ParsedURL DEF Parsed
<1>3. b[1] \in AskedNames
  <2>1. CASE input.mode = "seed"
    BY <2>1 DEF Wanted, WantedNames, AskedNames
  <2>2. CASE input.mode = "url"
    <3>1. b[1] = input.bucket /\ Parsed.bucket = input.bucket
      BY <1>2, <2>2 DEF Wanted, WantedNames
    <3> QED BY <2>2, <3>1 DEF AskedNames
  <2> QED BY <2>1, <2>2, InputFacts
<1>4. CASE selected # <<>>
  <2>1. r \in ScopeRegions /\ b[2] \in ScopeRegions
    BY <1>1, <1>4 DEF RegionsToCheck, ScopeRegions, Wanted
  <2> QED BY <1>3, <2>1 DEF OneScope
<1>5. CASE selected = <<>>
  <2>1. PICK q \in ScopeRegions : Partition[b[2]] = Partition[q]
    BY <1>5 DEF Wanted
  <2>2. \A x : r \in ToSet(<<x>>) => r = x
    BY DEF ToSet
  <2>3. r \in ScopeRegions
    <3>1. CASE input.mode = "seed"
      <4>1. regions = <<DefaultRegion>> /\ ScopeRegions = {DefaultRegion}
        BY <1>1, <1>5, <3>1 DEF RegionsToCheck, Hint, ScopeRegions
      <4> QED BY <2>2, <4>1
    <3>2. CASE input.mode = "url" /\ input.form \in RegionalForms
      <4>1. Hint = input.region /\ input.region # NoRegion
        BY <1>2, <3>2, InputFacts, LabelAssumption DEF Hint, HintOf
      <4>2. regions = <<input.region>> /\ ScopeRegions = {input.region}
        BY <1>1, <1>5, <3>2, <4>1 DEF RegionsToCheck, ScopeRegions
      <4> QED BY <2>2, <4>2
    <3>3. CASE input.mode = "url" /\ input.form \notin RegionalForms
      <4>1. Hint = NoRegion
        BY <1>2, <3>3 DEF Hint, HintOf
      <4>2. regions = <<DefaultRegion>> /\ ScopeRegions = {DefaultRegion}
        BY <1>1, <1>5, <3>3, <4>1 DEF RegionsToCheck, ScopeRegions
      <4> QED BY <2>2, <4>2
    <3> QED BY <3>1, <3>2, <3>3, InputFacts
  <2> QED BY <1>3, <2>1, <2>3 DEF OneScope
<1> QED BY <1>4, <1>5

\* So wherever a region is asked about the name of a wanted bucket, that bucket
\* and no other is found.
LEMMA WantedLocated ==
  ASSUME OneScope, WhatIsAhead, pc # "begin", input \in Inputs, buckets \in Worlds,
         NEW b \in buckets, Wanted(b), b[1] = names[1], NEW r \in ToSet(regions)
  PROVE  b \in Located(r) /\ \A c \in Located(r) : c = b
<1>1. Partition[b[2]] = Partition[r]
  BY WantedScope
<1>2. \A c \in buckets : c[1] = b[1] /\ Partition[c[2]] = Partition[b[2]] => c = b
  BY ExternalAssumption
<1> QED BY <1>1, <1>2 DEF Located

LEMMA AskedRegion ==
  ASSUME LocateBucket, PlaceTypes, WhatIsAhead, input \in Inputs, selected \in Selections
  PROVE  regions[asked + 1] \in ToSet(regions)
<1>1. asked < Len(regions) /\ pc # "begin"
  BY LocateCases
<1>2. regions \in Seq(DOMAIN Partition)
  BY <1>1, CheckedRegions
<1>3. asked + 1 \in DOMAIN regions
  BY <1>1, <1>2 DEF PlaceTypes
<1> QED BY <1>3 DEF ToSet

\* So a step of locateBucket about a wanted bucket fails and says so, or finds it.
LEMMA WantedLocateStep ==
  ASSUME LocateBucket, OneScope, PlaceTypes, WhatIsAhead, input \in Inputs, selected \in Selections,
         buckets \in Worlds, NEW b \in buckets, Wanted(b), b[1] = names[1]
  PROVE  \/ names' = names /\ pc' = "locate" /\ <<"locate", b[1]>> \in errors'
         \/ names' = names /\ pc' = "list" /\ finding'.bucket = b
<1> DEFINE r == regions[asked + 1]
<1>0. pc # "begin" /\ pc = "locate"
  BY LocateCases
<1>1. r \in ToSet(regions)
  BY AskedRegion
<1> HIDE DEF r
<1>2. b \in Located(r) /\ \A c \in Located(r) : c = b
  BY <1>0, <1>1, WantedLocated
<1>3. CASE LocateFails(r)
  BY <1>0, <1>3 DEF LocateFails, NextRegion, Reports
<1>4. CASE LocatesNothing(r)
  BY <1>2, <1>4 DEF LocatesNothing
<1>5. ASSUME NEW c \in buckets, LocatesUnselected(r, c) PROVE FALSE
  <2>1. c = b /\ selected # <<>> /\ c[2] \notin ToSet(selected)
    BY <1>2, <1>5 DEF LocatesUnselected
  <2> QED BY <2>1 DEF Wanted
<1>6. ASSUME NEW c \in buckets, LocatesBucket(r, c)
      PROVE  names' = names /\ pc' = "list" /\ finding'.bucket = b
  <2>1. c = b
    BY <1>2, <1>6 DEF LocatesBucket
  <2> QED BY <1>6, <2>1, FoundFacts
<1> QED BY <1>3, <1>4, <1>5, <1>6, LocateCases DEF r

\* A wanted bucket is accounted for when its name is put aside.
LEMMA WantedPutAside ==
  ASSUME Next, pc # "begin", OneScope, PlaceTypes, WhatIsAhead, NothingDropped,
         input \in Inputs, selected \in Selections, buckets \in Worlds, names # <<>>, names' = Tail(names),
         NEW b \in buckets, Wanted(b), b[1] = names[1]
  PROVE  Accounted(b)'
<1>0. /\ pc = "locate" /\ asked > 0 => <<"locate", b[1]>> \in errors
      /\ Probing => finding.bucket = b
  BY DEF NothingDropped
<1>a. names' # names
  <2>1. Len(Tail(names)) = Len(names) - 1 /\ Len(names) \in Nat
    <3>1. names \in Seq(AskedNames)
      BY DEF WhatIsAhead
    <3> QED BY <3>1, TailFacts
  <2>2. SUFFICES ASSUME Tail(names) = names PROVE FALSE
    OBVIOUS
  <2>3. Len(names) = Len(names) - 1
    BY <2>1, <2>2
  <2> QED BY <2>1, <2>3
<1>1. CASE LocateBucket
  BY <1>1, <1>a, WantedLocateStep
<1>2. CASE NameExhausted
  <2>1. asked > 0 /\ pc = "locate"
    <3>1. asked = Len(regions) /\ pc = "locate"
      BY <1>2 DEF NameExhausted
    <3>2. Len(regions) \in Nat \ {0}
      BY CheckedRegions
    <3> QED BY <3>1, <3>2
  <2>2. \A e \in errors : e \in errors'
    BY <1>2 DEF NameExhausted, Reports
  <2> QED BY <1>0, <2>1, <2>2 DEF Accounted
<1>3. CASE SetupFails
  BY <1>3 DEF SetupFails, Reports, Accounted
<1>4. CASE AppendFinding
  <2>1. finding \in reported' /\ Probing
    BY <1>4 DEF AppendFinding, Probing
  <2> QED BY <1>0, <2>1 DEF Accounted
<1>5. CASE BeginURL \/ BeginSeed
  BY <1>5 DEF BeginURL, BeginSeed
<1>6. CASE Finish \/ CheckListingAllowed \/ ListBucketContents \/ Returned
  BY <1>6, <1>a DEF Finish, CheckListingAllowed, ListBucketContents, Returned, vars
<1>7. CASE CheckAnonymousReadAllowed \/ CheckPolicy \/ CheckACL
  BY <1>7, <1>a DEF CheckAnonymousReadAllowed, CheckPolicy, CheckACL
<1> QED BY <1>1, <1>2, <1>3, <1>4, <1>5, <1>6, <1>7 DEF Next

\* Looking for a wanted bucket whose name stays the current one, every failure so
\* far has been reported.
LEMMA WantedLookedFor ==
  ASSUME Next, pc # "begin", OneScope, PlaceTypes, WhatIsAhead, NothingDropped, ProbedWhereItIs,
         input \in Inputs, selected \in Selections, buckets \in Worlds,
         NEW b \in buckets, Wanted(b), names' # <<>>, b[1] = names'[1], pc' = "locate", asked' > 0
  PROVE  <<"locate", b[1]>> \in errors'
<1>1. CASE LocateBucket
  <2>1. names' = names
    <3>1. asked' # 0
      OBVIOUS
    <3> QED BY <3>1, <1>1, NamesSteps
  <2> QED BY <1>1, <2>1, WantedLocateStep
<1>2. CASE NameExhausted \/ SetupFails \/ AppendFinding
  <2>1. asked' = 0
    BY <1>2 DEF NameExhausted, SetupFails, AppendFinding, NextName
  <2> QED BY <2>1
<1>3. CASE BeginURL \/ BeginSeed
  BY <1>3 DEF BeginURL, BeginSeed
<1>4. CASE Finish \/ CheckListingAllowed \/ ListBucketContents
  BY <1>4 DEF Finish, CheckListingAllowed, ListBucketContents
<1>5. CASE CheckAnonymousReadAllowed \/ CheckPolicy \/ CheckACL \/ Returned
  BY <1>5 DEF CheckAnonymousReadAllowed, CheckPolicy, CheckACL, Returned, vars
<1> QED BY <1>1, <1>2, <1>3, <1>4, <1>5 DEF Next

\* What is being probed under a wanted bucket's name is that bucket.
LEMMA WantedProbed ==
  ASSUME Next, pc # "begin", OneScope, PlaceTypes, WhatIsAhead, NothingDropped, ProbedWhereItIs, FindingTypes,
         input \in Inputs, selected \in Selections, buckets \in Worlds,
         NEW b \in buckets, Wanted(b), b[1] = names'[1], Probing'
  PROVE  finding'.bucket = b
<1>1. names # <<>> /\ names' = names
  BY ProbingSteps
<1>2. CASE Probing /\ finding'.bucket = finding.bucket
  BY <1>1, <1>2 DEF NothingDropped
<1>3. CASE pc = "locate" /\ \E c \in buckets : LocatesBucket(regions[asked + 1], c)
  <2>1. PICK c \in buckets : LocatesBucket(regions[asked + 1], c)
    BY <1>3
  <2>2. finding'.bucket = c /\ c \in Located(regions[asked + 1])
    BY <2>1, FoundFacts DEF LocatesBucket
  <2>3. LocateBucket
    BY <1>3, <2>1 DEF Next, LocatesBucket, BeginURL, BeginSeed, NameExhausted, Finish, SetupFails,
       CheckListingAllowed, ListBucketContents, CheckAnonymousReadAllowed, CheckPolicy, CheckACL,
       AppendFinding, Returned, NextName
  <2>4. regions[asked + 1] \in ToSet(regions)
    BY <2>3, AskedRegion
  <2> QED BY <1>1, <2>2, <2>4, WantedLocated
<1> QED BY <1>2, <1>3, ProbingSteps

LEMMA NothingDroppedPreserved ==
  ASSUME Next, NothingDropped, PlaceTypes, WhatIsAhead, Unbegun, ProbedWhereItIs, FindingTypes,
         input \in Inputs, selected \in Selections, buckets \in Worlds
  PROVE  NothingDropped'
<1>0. /\ OneScope' <=> OneScope
      /\ \A b : Wanted(b)' <=> Wanted(b)
      /\ buckets' = buckets
  BY WorldStays DEF OneScope, ScopeRegions, Wanted, WantedNames
<1> SUFFICES ASSUME OneScope, NEW b \in buckets, Wanted(b)
             PROVE  /\ b[1] \in ToSet(names') \/ Accounted(b)'
                    /\ names' # <<>> /\ b[1] = names'[1] =>
                         /\ pc' = "locate" /\ asked' > 0 => <<"locate", b[1]>> \in errors'
                         /\ Probing' => finding'.bucket = b
  BY <1>0 DEF NothingDropped
<1>1. CASE pc = "begin"
  <2>1. asked' = 0 /\ ToSet(names') = AskedNames /\ pc' \in {"locate", "done"}
    BY <1>1, Beginnings DEF Unbegun
  <2>2. b[1] \in AskedNames
    <3>1. CASE input.mode = "seed"
      BY <3>1 DEF Wanted, WantedNames, AskedNames
    <3>2. CASE input.mode = "url"
      <4>1. /\ input.form \in Forms /\ input.region \in SiteRegions
            /\ IsSequence(input.bucket) /\ input.bucket # <<>> /\ input.bucket # NoName
        BY <3>2, InputFacts
      <4>2. Unambiguous(input.bucket) /\ b[1] = input.bucket
        BY <3>2 DEF Wanted, WantedNames
      <4>3. Parsed.bucket = input.bucket
        BY <4>1, <4>2, ParsedURL DEF Parsed
      <4> QED BY <3>2, <4>2, <4>3 DEF AskedNames
    <3> QED BY <3>1, <3>2, InputFacts
  <2>3. ~Probing' /\ ~(asked' > 0)
    BY <2>1 DEF Probing
  <2> QED BY <2>1, <2>2, <2>3
<1>2. CASE pc # "begin"
  <2>1. b[1] \in ToSet(names') \/ Accounted(b)'
    <3>0. b[1] \in ToSet(names) \/ Accounted(b)
      BY <1>2 DEF NothingDropped
    <3>1. CASE Accounted(b)
      <4>1. (\A e \in errors : e \in errors') /\ (\A f \in reported : f \in reported')
        BY ErrorsStay, ReportedSteps
      <4> QED BY <3>1, <4>1 DEF Accounted
    <3>2. CASE names' = names
      BY <3>0, <3>1, <3>2
    <3>3. CASE b[1] \in ToSet(names) /\ names # <<>> /\ names' = Tail(names)
      <4>1. names \in Seq(AskedNames)
        BY DEF WhatIsAhead
      <4>2. b[1] = names[1] \/ b[1] \in ToSet(names')
        BY <3>3, <4>1, TailNames
      <4> QED BY <1>2, <3>3, <4>2, WantedPutAside
    <3> QED BY <1>2, <3>0, <3>1, <3>2, <3>3, NamesSteps
  <2>2. ASSUME names' # <<>>, b[1] = names'[1], pc' = "locate", asked' > 0
        PROVE  <<"locate", b[1]>> \in errors'
    BY <1>2, <2>2, WantedLookedFor
  <2>3. ASSUME b[1] = names'[1], Probing' PROVE finding'.bucket = b
    BY <1>2, <2>3, WantedProbed
  <2> QED BY <2>1, <2>2, <2>3
<1> QED BY <1>1, <1>2

\* A name that is put aside leaves a report or an error, but for a seed's.
LEMMA PutAsideExplained ==
  ASSUME Next, input.mode = "url", pc # "begin", names # <<>>, WhatIsAhead, names' = Tail(names)
  PROVE  reported' # {} \/ errors' # {}
<1>0. names' # names
  <2>1. Len(Tail(names)) = Len(names) - 1 /\ Len(names) \in Nat
    <3>1. names \in Seq(AskedNames)
      BY DEF WhatIsAhead
    <3> QED BY <3>1, TailFacts
  <2>2. SUFFICES ASSUME Tail(names) = names PROVE FALSE
    OBVIOUS
  <2>3. Len(names) = Len(names) - 1
    BY <2>1, <2>2
  <2> QED BY <2>1, <2>3
<1>1. CASE LocateBucket
  <2>1. names' = names
    BY <1>1, LocateCases DEF LocateFails, LocatesNothing, LocatesUnselected, LocatesBucket, NextRegion
  <2> QED BY <1>0, <2>1
<1>2. CASE NameExhausted
  BY <1>2 DEF NameExhausted, Reports
<1>3. CASE SetupFails
  BY <1>3 DEF SetupFails, Reports
<1>4. CASE AppendFinding
  BY <1>4 DEF AppendFinding
<1>5. CASE BeginURL \/ BeginSeed
  BY <1>5 DEF BeginURL, BeginSeed
<1>6. CASE Finish \/ CheckListingAllowed \/ ListBucketContents \/ Returned
  BY <1>6, <1>0 DEF Finish, CheckListingAllowed, ListBucketContents, Returned, vars
<1>7. CASE CheckAnonymousReadAllowed \/ CheckPolicy \/ CheckACL
  BY <1>7, <1>0 DEF CheckAnonymousReadAllowed, CheckPolicy, CheckACL
<1> QED BY <1>1, <1>2, <1>3, <1>4, <1>5, <1>6, <1>7 DEF Next

LEMMA URLExplainedPreserved ==
  ASSUME Next, URLExplained, Unbegun, WhatIsAhead, ProbedWhereItIs, input \in Inputs, selected \in Selections
  PROVE  URLExplained'
<1>0. input' = input /\ (errors # {} => errors' # {}) /\ (reported # {} => reported' # {})
  <2>1. (\A e \in errors : e \in errors') /\ (\A f \in reported : f \in reported')
    BY ErrorsStay, ReportedSteps
  <2> QED BY <2>1, WorldStays
<1>1. CASE pc = "begin"
  <2>1. (pc' = "done" => errors' # {}) /\ (input.mode = "url" => Len(names') = 1)
    BY <1>1, Beginnings
  <2>2. names' = <<>> => Len(names') = 0
    OBVIOUS
  <2>3. input.mode = "url" => names' # <<>>
    <3> SUFFICES ASSUME input.mode = "url", names' = <<>> PROVE FALSE
      OBVIOUS
    <3>1. Len(names') = 1 /\ Len(names') = 0
      BY <2>1, <2>2
    <3> QED BY <3>1
  <2> QED BY <1>0, <2>1, <2>3 DEF URLExplained, EmptyIsExplained
<1>2. CASE pc # "begin"
  <2>1. input.mode = "url" => names # <<>> \/ reported # {} \/ errors # {}
    BY <1>2 DEF URLExplained
  <2>2. input.mode = "url" => names' # <<>> \/ reported' # {} \/ errors' # {}
    <3> SUFFICES ASSUME input.mode = "url", names # <<>>
                 PROVE  names' # <<>> \/ reported' # {} \/ errors' # {}
      BY <1>0, <2>1
    <3> QED BY <1>2, NamesSteps, PutAsideExplained
  <2>3. ASSUME pc' = "done", reported' = {} PROVE errors' # {}
    <3>1. CASE Finish
      <4>1. CASE input.mode = "seed"
        BY <3>1, <4>1, <2>3 DEF Finish
      <4>2. CASE input.mode = "url"
        BY <1>0, <2>1, <2>3, <3>1, <4>2 DEF Finish
      <4> QED BY <4>1, <4>2, InputFacts
    <3>2. CASE Returned
      BY <2>3, <3>2 DEF Returned, vars, URLExplained, EmptyIsExplained
    <3>3. Finish \/ Returned
      <4>1. pc' # "done" \/ Finish \/ Returned
        <5>1. CASE LocateBucket
          BY <5>1, LocateCases DEF LocateFails, LocatesNothing, LocatesUnselected, LocatesBucket,
             NextRegion, NextName
        <5> QED BY <1>2, <5>1 DEF Next, BeginURL, BeginSeed, NameExhausted, SetupFails, CheckListingAllowed,
             ListBucketContents, CheckAnonymousReadAllowed, CheckPolicy, CheckACL, AppendFinding, NextName
      <4> QED BY <2>3, <4>1
    <3> QED BY <3>1, <3>2, <3>3
  <2> QED BY <1>0, <2>2, <2>3 DEF URLExplained, EmptyIsExplained
<1> QED BY <1>1, <1>2

(***************************************************************************)
(* The invariant holds.                                                    *)
(***************************************************************************)
LEMMA TypeParts ==
  TypeOK <=>
    /\ input \in Inputs /\ selected \in Selections /\ buckets \in Worlds /\ access \in Accesses
    /\ FindingTypes /\ PlaceTypes /\ ErrorTypes
<1>1. pc \in {"begin", "locate", "list", "contents", "read", "policy", "acl", "append", "done"} =>
        (Probing <=> pc \notin {"begin", "locate", "done"})
  BY DEF Probing
<1> QED BY <1>1 DEF TypeOK, FindingTypes, PlaceTypes, ErrorTypes

LEMMA InvariantInit == Init => ExternalInvariant
<1> SUFFICES ASSUME Init PROVE ExternalInvariant
  OBVIOUS
<1>0. /\ input \in Inputs /\ selected \in Selections /\ buckets \in Worlds /\ access \in Accesses
      /\ pc = "begin" /\ names = <<>> /\ regions = <<>> /\ asked = 0
      /\ finding = None /\ reported = {} /\ errors = {}
  BY DEF Init
<1>a. ~Probing
  BY <1>0 DEF Probing
<1>1. TypeOK
  <2>1. Len(<<>>) = 0 /\ ToSet(<<>>) = {} /\ 0 \in 0 .. 0
    BY DEF ToSet
  <2>2. Cap \in Nat \ {0}
    BY ExternalAssumption
  <2>3. PlaceTypes
    BY <1>0, <2>1, <2>2 DEF PlaceTypes
  <2>4. FindingTypes /\ ErrorTypes
    BY <1>0, <1>a DEF FindingTypes, ErrorTypes
  <2> QED BY <1>0, <2>3, <2>4, TypeParts
<1>2. Unbegun /\ WhatIsAhead
  <2>1. <<>> \in Seq(AskedNames) /\ Len(<<>>) <= 1 /\ DOMAIN <<>> = {}
    OBVIOUS
  <2> QED BY <1>0, <2>1 DEF Unbegun, WhatIsAhead
<1>3. ProbedWhereItIs /\ ProbesSoFar
  BY <1>a DEF ProbedWhereItIs, ProbesSoFar
<1>4. FindingsTrue /\ FoundWhereItIs /\ OmissionsAreTold
  BY <1>0 DEF FindingsTrue, FoundWhereItIs, OmissionsAreTold
<1>5. NothingDropped /\ URLExplained
  BY <1>0 DEF NothingDropped, URLExplained, EmptyIsExplained
<1> QED BY <1>1, <1>2, <1>3, <1>4, <1>5 DEF ExternalInvariant

LEMMA InvariantStep == ExternalInvariant /\ [Next]_vars => ExternalInvariant'
<1> SUFFICES ASSUME ExternalInvariant, [Next]_vars PROVE ExternalInvariant'
  OBVIOUS
<1>0. /\ TypeOK /\ Unbegun /\ WhatIsAhead
      /\ ProbedWhereItIs /\ ProbesSoFar /\ FindingsTrue /\ FoundWhereItIs
      /\ OmissionsAreTold /\ NothingDropped /\ URLExplained
  BY DEF ExternalInvariant
<1>a. /\ input \in Inputs /\ selected \in Selections /\ buckets \in Worlds /\ access \in Accesses
       /\ FindingTypes /\ PlaceTypes /\ ErrorTypes
  BY <1>0, TypeParts
<1>1. CASE Next
  <2>1. /\ input' \in Inputs /\ selected' \in Selections /\ buckets' \in Worlds /\ access' \in Accesses
    BY <1>a, <1>1, WorldStays
  <2>2. FindingTypes' /\ PlaceTypes' /\ ErrorTypes'
    BY <1>0, <1>a, <1>1, FindingTypesPreserved, PlaceTypesPreserved, ErrorTypesPreserved
  <2>3. TypeOK'
    <3>1. finding' # None <=> pc' \notin {"begin", "locate", "done"}
      BY <2>2 DEF FindingTypes, Probing
    <3> QED BY <2>1, <2>2, <3>1 DEF TypeOK, FindingTypes, PlaceTypes, ErrorTypes
  <2>4. Unbegun' /\ WhatIsAhead'
    BY <1>0, <1>a, <1>1, UnbegunPreserved, WhatIsAheadPreserved
  <2>5. ProbedWhereItIs' /\ ProbesSoFar'
    BY <1>0, <1>a, <1>1, ProbedWhereItIsPreserved, ProbesSoFarPreserved
  <2>6. FindingsTrue' /\ FoundWhereItIs' /\ OmissionsAreTold'
    BY <1>0, <1>1, FindingsTruePreserved, FoundWhereItIsPreserved, OmissionsToldPreserved
  <2>7. NothingDropped' /\ URLExplained'
    BY <1>0, <1>a, <1>1, NothingDroppedPreserved, URLExplainedPreserved
  <2> QED BY <2>3, <2>4, <2>5, <2>6, <2>7 DEF ExternalInvariant
<1>2. CASE UNCHANGED vars
  <2>1. /\ input' = input /\ selected' = selected /\ buckets' = buckets /\ access' = access
        /\ pc' = pc /\ names' = names /\ regions' = regions /\ asked' = asked
        /\ finding' = finding /\ reported' = reported /\ errors' = errors
    BY <1>2 DEF vars
  <2>2. TypeOK' /\ Unbegun'
    BY <1>0, <2>1 DEF TypeOK, Unbegun
  <2>3. WhatIsAhead'
    BY <1>0, <2>1 DEF WhatIsAhead, AskedNames, Parsed, Hint, RegionsToCheck
  <2>4. ProbedWhereItIs' /\ ProbesSoFar'
    BY <1>0, <2>1 DEF ProbedWhereItIs, ProbesSoFar, Probing
  <2>5. FindingsTrue' /\ FoundWhereItIs' /\ OmissionsAreTold'
    BY <1>0, <2>1 DEF FindingsTrue, FoundWhereItIs, OmissionsAreTold
  <2>6. NothingDropped'
    <3>1. /\ OneScope' <=> OneScope
          /\ \A b : (Wanted(b)' <=> Wanted(b)) /\ (Accounted(b)' <=> Accounted(b))
          /\ Probing' <=> Probing
      BY <2>1 DEF OneScope, ScopeRegions, Wanted, WantedNames, Accounted, Probing
    <3> QED BY <1>0, <2>1, <3>1 DEF NothingDropped
  <2>7. URLExplained'
    BY <1>0, <2>1 DEF URLExplained, EmptyIsExplained
  <2> QED BY <2>2, <2>3, <2>4, <2>5, <2>6, <2>7 DEF ExternalInvariant
<1> QED BY <1>1, <1>2

\* Whatever happens to the calls: the invariant, from which the others follow.
THEOREM ExternalInvariantHolds == Spec => []ExternalInvariant
BY InvariantInit, InvariantStep, PTL DEF Spec

\* At every point of EnumerateS3 the report, the names ahead, capped, and the
\* regions to check are well-formed.
THEOREM ExternalTypeCorrect == Spec => []TypeOK
<1>1. ExternalInvariant => TypeOK
  BY DEF ExternalInvariant
<1> QED BY <1>1, ExternalInvariantHolds, PTL

\* parseBucketURL takes each form of URL apart as it was put together, for any
\* bucket none of whose labels is a service's.
THEOREM EveryURLNamesItsBucket == Spec => []URLNamesItsBucket
<1>1. ExternalInvariant => URLNamesItsBucket
  <2> SUFFICES ASSUME ExternalInvariant, input.mode = "url", names # <<>>, Unambiguous(input.bucket)
               PROVE  /\ names = <<input.bucket>>
                      /\ selected = <<>> =>
                           regions = <<IF input.form \in RegionalForms THEN input.region ELSE DefaultRegion>>
    BY DEF URLNamesItsBucket
  <2>1. WhatIsAhead /\ Unbegun /\ input \in Inputs
    BY DEF ExternalInvariant, TypeOK
  <2>2. /\ input.form \in Forms /\ input.region \in SiteRegions
        /\ IsSequence(input.bucket) /\ input.bucket # <<>> /\ input.bucket # NoName
    BY <2>1, InputFacts
  <2>3. Parsed = [bucket |-> input.bucket, region |-> HintOf(input.form, input.region)]
    BY <2>2, ParsedURL DEF Parsed
  <2>4. names \in Seq({input.bucket}) /\ Len(names) <= 1
    <3>1. AskedNames = {Parsed.bucket}
      BY DEF AskedNames
    <3> QED BY <2>1, <2>3, <3>1 DEF WhatIsAhead
  <2>5. names = <<input.bucket>>
    <3>1. Len(names) = 1 /\ names = [i \in 1 .. Len(names) |-> names[i]]
          /\ \A i \in 1 .. Len(names) : names[i] = input.bucket
      <4>1. PICK S : S = {input.bucket}
        OBVIOUS
      <4>2. names \in Seq(S) /\ names # <<>>
        BY <2>4, <4>1
      <4>3. names = [i \in 1 .. Len(names) |-> names[i]] /\ \A i \in 1 .. Len(names) : names[i] \in S
        BY <4>2
      <4>4. Len(names) \in Nat \ {0}
        BY <4>2, TailFacts
      <4> QED BY <2>4, <4>1, <4>3, <4>4
    <3>2. PICK b : b = input.bucket
      OBVIOUS
    <3>3. <<b>> = [i \in 1 .. 1 |-> b]
      OBVIOUS
    <3> QED BY <3>1, <3>2, <3>3
  <2>6. ASSUME selected = <<>>
        PROVE  regions = <<IF input.form \in RegionalForms THEN input.region ELSE DefaultRegion>>
    <3>1. regions = RegionsToCheck(Hint) /\ Hint = HintOf(input.form, input.region)
      BY <2>1, <2>3 DEF WhatIsAhead, Unbegun, Hint
    <3>2. input.region # NoRegion
      BY <2>2, LabelAssumption
    <3> QED BY <2>6, <3>1, <3>2 DEF RegionsToCheck, HintOf
  <2> QED BY <2>5, <2>6
<1> QED BY <1>1, ExternalInvariantHolds, PTL

\* candidateNames, whatever the variants, the suffixes and the cap, leaves out a
\* name only for as many of suffixes no less valuable.
THEOREM CandidatesAreWorthProbing == Spec => []CandidatesWorthProbing
<1>1. ExternalInvariant => CandidatesWorthProbing
  <2> SUFFICES ASSUME ExternalInvariant, input.mode = "seed"
               PROVE  LET found == CandidateNames(input.variants, input.max) IN
                      /\ ToSet(found) \subseteq Names(input.variants)
                      /\ \A i, j \in DOMAIN found : found[i] = found[j] => i = j
                      /\ \A n \in Names(input.variants) \ ToSet(found) :
                           /\ Len(found) = Clamp(input.max)
                           /\ \A c \in ToSet(found) :
                                Priority(input.variants, c) <= Priority(input.variants, n)
    BY DEF CandidatesWorthProbing
  <2>1. IsSequence(input.variants) /\ input.max \in Int
    BY InputFacts DEF ExternalInvariant, TypeOK
  <2> QED BY <2>1, CandidatesDistinct, CandidatesMostValuable
<1> QED BY <1>1, ExternalInvariantHolds, PTL

\* Whatever fails, nothing untrue is reported of a bucket, nor one that is not
\* where the report says or was not selected.
THEOREM ExternalFindingsHold == Spec => []FindingsHold
<1>1. ExternalInvariant => FindingsHold
  BY DEF ExternalInvariant, FindingsHold
<1> QED BY <1>1, ExternalInvariantHolds, PTL

\* Whatever fails, what the report lacks of the buckets asked for is told.
THEOREM ExternalLossesTold == Spec => []LossesTold
<1>1. ExternalInvariant => LossesTold
  <2> SUFFICES ASSUME ExternalInvariant PROVE LossesTold
    OBVIOUS
  <2>1. OmissionsAreTold /\ EmptyIsExplained /\ WhatIsAhead /\ NothingDropped
    BY DEF ExternalInvariant, URLExplained
  <2>2. NoSilentLoss
    <3> SUFFICES ASSUME pc = "done", OneScope, NEW b \in buckets, Wanted(b)
                 PROVE  Accounted(b)
      BY DEF NoSilentLoss, OneScope
    <3>1. names = <<>> /\ ToSet(<<>>) = {}
      BY <2>1 DEF WhatIsAhead, ToSet
    <3> QED BY <2>1, <3>1 DEF NothingDropped
  <2> QED BY <2>1, <2>2 DEF LossesTold
<1> QED BY <1>1, ExternalInvariantHolds, PTL
=============================================================================
