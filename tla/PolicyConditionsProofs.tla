----------------------- MODULE PolicyConditionsProofs -----------------------
(***************************************************************************)
(* What the classifiers of principals, conditions and address ranges       *)
(* answer is so, for every condition, every order of its entries and every *)
(* width of an address.                                                    *)
(***************************************************************************)
EXTENDS PolicyConditions, FiniteSetTheorems, WellFoundedInduction, TLAPS

LEMMA NatMinimum ==
  ASSUME NEW T \in SUBSET Nat, T # {}
  PROVE  \E m \in T : \A k \in T : m <= k
<1> DEFINE Less == {ss \in Nat \X Nat : ss[1] < ss[2]}
<1>1. IsWellFoundedOn(Less, Nat)
  BY NatLessThanWellFounded, Zenon DEF OpToRel
<1>2. \E m \in T : \A k \in T : <<k, m>> \notin Less
  <2> HIDE DEF Less
  <2> QED
    BY <1>1, WFMin
<1>3. PICK m \in T : \A k \in T : <<k, m>> \notin Less
  BY <1>2
<1>4. ASSUME NEW k \in T PROVE m <= k
  <2>1. k \in Nat /\ m \in Nat /\ <<k, m>> \in Nat \X Nat
    OBVIOUS
  <2>2. ~(<<k, m>>[1] < <<k, m>>[2])
    BY <2>1, <1>3
  <2>3. ~(k < m)
    BY <2>2
  <2> QED
    BY <2>1, <2>3
<1> QED
  BY <1>4

(***************************************************************************)
(* Prefixes of addresses.                                                  *)
(***************************************************************************)
LEMMA BitsAreSequences ==
  ASSUME NEW i \in Nat, NEW n \in Bits(i)
  PROVE  n \in Seq({0, 1}) /\ Len(n) = i /\ DOMAIN n = 1 .. i
BY DEF Bits

LEMMA AboveCases ==
  ASSUME NEW i \in Nat, NEW j \in Nat, NEW n \in Bits(i), NEW a \in Bits(j)
  PROVE  Above(n, a) <=> i <= j /\ \A k \in 1 .. i : a[k] = n[k]
<1>1. n \in Seq({0, 1}) /\ Len(n) = i /\ a \in Seq({0, 1}) /\ Len(a) = j
  BY BitsAreSequences
<1>2. CASE i <= j
  <2>1. /\ SubSeq(a, 1, i) \in Seq({0, 1}) /\ Len(SubSeq(a, 1, i)) = i
        /\ \A k \in 1 .. i : SubSeq(a, 1, i)[k] = a[k]
    BY <1>1, <1>2
  <2>2. SubSeq(a, 1, i) = n <=> \A k \in 1 .. i : SubSeq(a, 1, i)[k] = n[k]
    BY <1>1, <2>1
  <2> QED
    BY <1>1, <1>2, <2>1, <2>2 DEF Above
<1>3. CASE ~(i <= j)
  BY <1>1, <1>3 DEF Above
<1> QED
  BY <1>2, <1>3

LEMMA AboveIsReflexive ==
  ASSUME NEW i \in Nat, NEW n \in Bits(i)
  PROVE  Above(n, n)
BY AboveCases

LEMMA AboveIsTransitive ==
  ASSUME NEW i \in Nat, NEW j \in Nat, NEW l \in Nat,
         NEW m \in Bits(i), NEW n \in Bits(j), NEW a \in Bits(l), Above(m, n), Above(n, a)
  PROVE  Above(m, a)
<1>1. i <= j /\ j <= l /\ (\A k \in 1 .. i : n[k] = m[k]) /\ (\A k \in 1 .. j : a[k] = n[k])
  BY AboveCases
<1> QED
  BY <1>1, AboveCases

\* Of two prefixes of one address, the shorter one is above the other.
LEMMA AboveIsLinear ==
  ASSUME NEW i \in Nat, NEW j \in Nat, NEW l \in Nat,
         NEW m \in Bits(i), NEW n \in Bits(j), NEW a \in Bits(l), Above(m, a), Above(n, a), i <= j
  PROVE  Above(m, n)
<1>1. (\A k \in 1 .. i : a[k] = m[k]) /\ (\A k \in 1 .. j : a[k] = n[k])
  BY AboveCases
<1> QED
  BY <1>1, AboveCases

LEMMA AboveSameLength ==
  ASSUME NEW i \in Nat, NEW m \in Bits(i), NEW n \in Bits(i), Above(m, n)
  PROVE  m = n
<1>1. \A k \in 1 .. i : n[k] = m[k]
  BY AboveCases
<1> QED
  BY <1>1 DEF Bits

LEMMA BitsOfChild ==
  ASSUME NEW i \in Nat, NEW n \in Bits(i), NEW b \in {0, 1}
  PROVE  /\ Append(n, b) \in Bits(i + 1) /\ Append(n, b)[i + 1] = b
         /\ Above(n, Append(n, b)) /\ n # Append(n, b)
<1>1. n \in Seq({0, 1}) /\ Len(n) = i
  BY BitsAreSequences
<1>2. /\ Append(n, b) \in Seq({0, 1}) /\ Len(Append(n, b)) = i + 1
      /\ \A k \in 1 .. i : Append(n, b)[k] = n[k]
      /\ Append(n, b)[i + 1] = b
  BY <1>1
<1>3. Append(n, b) \in Bits(i + 1)
  <2> DEFINE c == Append(n, b)
  <2>1. c \in Seq({0, 1}) /\ Len(c) = i + 1
    BY <1>2
  <2> HIDE DEF c
  <2>2. c \in [1 .. i + 1 -> {0, 1}]
    BY <2>1
  <2> QED
    BY <2>2 DEF Bits, c
<1>4. Above(n, Append(n, b))
  <2>1. i + 1 \in Nat /\ i <= i + 1
    OBVIOUS
  <2> QED
    BY <1>2, <1>3, <2>1, AboveCases
<1> QED
  BY <1>1, <1>2, <1>3, <1>4

\* Whatever is below a prefix and longer is below one of its children.
LEMMA BelowIsBelowChild ==
  ASSUME NEW i \in Nat, NEW j \in Nat, NEW n \in Bits(i), NEW a \in Bits(j), Above(n, a), i < j
  PROVE  a[i + 1] \in {0, 1} /\ Above(Append(n, a[i + 1]), a)
<1>1. a[i + 1] \in {0, 1}
  BY DEF Bits
<1>2. Append(n, a[i + 1]) \in Bits(i + 1)
  BY <1>1, BitsOfChild
<1>3. \A k \in 1 .. i : a[k] = n[k]
  BY AboveCases
<1>4. \A k \in 1 .. i + 1 : a[k] = Append(n, a[i + 1])[k]
  BY <1>1, <1>3, BitsOfChild, BitsAreSequences
<1>5. i + 1 \in Nat /\ i + 1 <= j
  OBVIOUS
<1> QED
  BY <1>1, <1>2, <1>4, <1>5, AboveCases

LEMMA AddressBelow ==
  ASSUME NEW w \in Nat, NEW i \in 0 .. w, NEW n \in Bits(i)
  PROVE  \E a \in Bits(w) : Above(n, a)
<1> DEFINE a == [k \in 1 .. w |-> IF k <= i THEN n[k] ELSE 0]
<1>1. a \in Bits(w)
  BY DEF Bits
<1>2. \A k \in 1 .. i : a[k] = n[k]
  OBVIOUS
<1> HIDE DEF a
<1> QED
  BY <1>1, <1>2, AboveCases

LEMMA RootIsAbove ==
  /\ <<>> \in Bits(0)
  /\ \A i \in Nat : \A n \in Bits(i) : Above(<<>>, n)
<1>1. <<>> \in Bits(0)
  BY DEF Bits
<1> QED
  BY <1>1, AboveCases
(***************************************************************************)
(* CollapseCoveredPrefixes, whose levels are defined from the leaves up:   *)
(* a level has the prefixes all of whose addresses are covered from below. *)
(***************************************************************************)
CoveredLevel(nodes, d) ==
  {n \in Bits(d) : \A a \in Bits(Width[family]) :
     Above(n, a) => \E m \in nodes : Above(n, m) /\ Above(m, a)}

Covered(nodes, a) == \E n \in nodes : Above(n, a)

LEMMA WidthIsNat ==
  ASSUME NEW f \in Families
  PROVE  Width[f] \in Nat /\ WideBelow[f] \in Nat
BY WidthAssumption

LEMMA WidthHasAddress ==
  ASSUME NEW f \in Families
  PROVE  \E a : a \in Bits(Width[f])
<1>1. [k \in 1 .. Width[f] |-> 0] \in Bits(Width[f])
  BY DEF Bits
<1> QED
  BY <1>1

LEMMA PrefixLength ==
  ASSUME NEW f \in Families, NEW n \in Prefixes(f)
  PROVE  Len(n) \in 0 .. Width[f] /\ n \in Bits(Len(n))
<1>1. PICK i \in 0 .. Width[f] : n \in Bits(i)
  BY DEF Prefixes
<1> QED
  BY <1>1, WidthIsNat, BitsAreSequences

LEMMA LevelFromBelow ==
  ASSUME family \in Families, NEW nodes \in SUBSET Prefixes(family), NEW d \in 0 .. Width[family]
  PROVE  CoveredLevel(nodes, d) =
           {n \in nodes : Len(n) = d} \cup
           IF d = Width[family] THEN {}
           ELSE {n \in Bits(d) : /\ Append(n, 0) \in CoveredLevel(nodes, d + 1)
                                /\ Append(n, 1) \in CoveredLevel(nodes, d + 1)}
<1> DEFINE w == Width[family]
<1>0. w \in Nat /\ d \in Nat /\ d + 1 \in Nat
  BY WidthIsNat
<1>1. ASSUME NEW n \in nodes, Len(n) = d PROVE n \in CoveredLevel(nodes, d)
  <2>1. n \in Bits(d)
    BY <1>1, PrefixLength
  <2>2. Above(n, n)
    BY <1>0, <2>1, AboveIsReflexive
  <2> QED
    BY <2>1, <2>2 DEF CoveredLevel
<1>2. ASSUME d # w, NEW n \in Bits(d),
             Append(n, 0) \in CoveredLevel(nodes, d + 1), Append(n, 1) \in CoveredLevel(nodes, d + 1)
      PROVE  n \in CoveredLevel(nodes, d)
  <2>1. SUFFICES ASSUME NEW a \in Bits(w), Above(n, a)
                 PROVE  \E m \in nodes : Above(n, m) /\ Above(m, a)
    BY DEF CoveredLevel
  <2>2. a[d + 1] \in {0, 1} /\ Above(Append(n, a[d + 1]), a)
    BY <1>0, <1>2, <2>1, BelowIsBelowChild
  <2> DEFINE c == Append(n, a[d + 1])
  <2>3. c \in CoveredLevel(nodes, d + 1)
    BY <1>2, <2>2
  <2>4. c \in Bits(d + 1) /\ Above(n, c)
    BY <1>0, <2>2, BitsOfChild
  <2>5. PICK m \in nodes : Above(c, m) /\ Above(m, a)
    BY <2>2, <2>3 DEF CoveredLevel
  <2>6. Len(m) \in Nat /\ m \in Bits(Len(m))
    BY PrefixLength
  <2>7. Above(n, m)
    BY <1>0, <2>4, <2>5, <2>6, AboveIsTransitive
  <2> QED
    BY <2>5, <2>7
<1>3. ASSUME NEW n \in CoveredLevel(nodes, d), n \notin nodes \/ Len(n) # d
      PROVE  /\ d # w
             /\ \A b \in {0, 1} : Append(n, b) \in CoveredLevel(nodes, d + 1)
  <2>0. n \in Bits(d) /\ n \notin nodes
    BY <1>0, <1>3, BitsAreSequences DEF CoveredLevel
  <2>1. d # w
    <3>1. SUFFICES ASSUME d = w PROVE FALSE
      OBVIOUS
    <3>2. n \in Bits(w) /\ Above(n, n)
      BY <1>0, <2>0, <3>1, AboveIsReflexive
    <3>3. PICK m \in nodes : Above(n, m) /\ Above(m, n)
      BY <1>3, <3>2 DEF CoveredLevel
    <3>4. Len(m) \in 0 .. w /\ m \in Bits(Len(m))
      BY PrefixLength
    <3>5. Len(m) = d
      BY <1>0, <2>0, <3>1, <3>3, <3>4, AboveCases
    <3> QED
      BY <1>0, <2>0, <3>3, <3>4, <3>5, AboveSameLength
  <2>2. ASSUME NEW b \in {0, 1}, NEW a \in Bits(w), Above(Append(n, b), a)
        PROVE  \E m \in nodes : Above(Append(n, b), m) /\ Above(m, a)
    <3> DEFINE c == Append(n, b)
    <3>1. c \in Bits(d + 1) /\ Above(n, c)
      BY <1>0, <2>0, BitsOfChild
    <3>2. Above(n, a)
      BY <1>0, <2>0, <2>2, <3>1, AboveIsTransitive
    <3>3. PICK m \in nodes : Above(n, m) /\ Above(m, a)
      BY <1>3, <3>2 DEF CoveredLevel
    <3>4. Len(m) \in Nat /\ m \in Bits(Len(m))
      BY PrefixLength
    <3>5. Len(m) # d
      BY <1>0, <2>0, <3>3, <3>4, AboveSameLength
    <3>6. Len(m) >= d
      BY <1>0, <2>0, <3>3, <3>4, AboveCases
    <3>7. d + 1 <= Len(m)
      BY <1>0, <3>4, <3>5, <3>6
    <3>8. Above(c, m)
      BY <1>0, <2>2, <3>1, <3>3, <3>4, <3>7, AboveIsLinear
    <3> QED
      BY <3>3, <3>8
  <2> QED
    BY <1>0, <2>0, <2>1, <2>2, BitsOfChild DEF CoveredLevel
<1>4. CoveredLevel(nodes, d) \subseteq Bits(d)
  BY DEF CoveredLevel
<1> QED
  BY <1>1, <1>2, <1>3, <1>4
LEMMA LevelsAreCovered ==
  ASSUME family \in Families, NEW nodes \in SUBSET Prefixes(family), NEW L,
         L = [d \in 0 .. Width[family] |->
               {n \in nodes : Len(n) = d} \cup
               IF d = Width[family] THEN {}
               ELSE {n \in Bits(d) : Append(n, 0) \in L[d + 1] /\ Append(n, 1) \in L[d + 1]}]
  PROVE  \A d \in 0 .. Width[family] : L[d] = CoveredLevel(nodes, d)
<1> DEFINE w == Width[family]
           Wrong == {k \in Nat : k <= w /\ L[w - k] # CoveredLevel(nodes, w - k)}
<1>0. w \in Nat
  BY WidthIsNat
<1>1. ASSUME Wrong # {} PROVE FALSE
  <2>1. PICK k \in Wrong : \A j \in Wrong : k <= j
    BY <1>1, NatMinimum
  <2> DEFINE d == w - k
  <2>2. d \in 0 .. w /\ k \in Nat
    BY <1>0, <2>1
  <2>3. d # w => L[d + 1] = CoveredLevel(nodes, d + 1)
    <3>1. SUFFICES ASSUME d # w PROVE L[d + 1] = CoveredLevel(nodes, d + 1)
      OBVIOUS
    <3>2. k - 1 \in Nat /\ k - 1 <= w /\ w - (k - 1) = d + 1 /\ ~(k <= k - 1)
      BY <1>0, <2>2, <3>1
    <3>3. k - 1 \notin Wrong
      BY <2>1, <3>2
    <3> QED
      BY <3>2, <3>3
  <2>4. L[d] = {n \in nodes : Len(n) = d} \cup
               IF d = w THEN {}
               ELSE {n \in Bits(d) : Append(n, 0) \in L[d + 1] /\ Append(n, 1) \in L[d + 1]}
    BY <2>2
  <2>5. L[d] = CoveredLevel(nodes, d)
    <3> HIDE DEF d, w
    <3>1. CoveredLevel(nodes, d) =
            {n \in nodes : Len(n) = d} \cup
            IF d = w THEN {}
            ELSE {n \in Bits(d) : /\ Append(n, 0) \in CoveredLevel(nodes, d + 1)
                                 /\ Append(n, 1) \in CoveredLevel(nodes, d + 1)}
      BY <2>2, LevelFromBelow DEF w
    <3>2. CASE d = w
      BY <2>4, <3>1, <3>2
    <3>3. CASE d # w
      <4> DEFINE Below(up) == {n \in Bits(d) : Append(n, 0) \in up /\ Append(n, 1) \in up}
      <4>1. /\ L[d] = {n \in nodes : Len(n) = d} \cup Below(L[d + 1])
            /\ CoveredLevel(nodes, d) =
                 {n \in nodes : Len(n) = d} \cup Below(CoveredLevel(nodes, d + 1))
        BY <2>4, <3>1, <3>3
      <4>2. L[d + 1] = CoveredLevel(nodes, d + 1)
        BY <2>3, <3>3
      <4> HIDE DEF Below
      <4> QED
        BY <4>1, <4>2
    <3> QED
      BY <3>2, <3>3
  <2> QED
    BY <2>1, <2>5
<1>2. ASSUME NEW d \in 0 .. w PROVE L[d] = CoveredLevel(nodes, d)
  <2>1. w - d \in Nat /\ w - d <= w /\ w - (w - d) = d
    BY <1>0
  <2> QED
    BY <1>1, <2>1
<1> QED
  BY <1>2

\* The definition that CollapseCoveredPrefixes computes level by level.
Collapsed(nodes) ==
  LET all == UNION {CoveredLevel(nodes, d) : d \in 0 .. Width[family]}
  IN {n \in all : ~\E m \in all : m # n /\ Above(m, n)}

LEMMA CollapseIsCollapsed ==
  ASSUME family \in Families, NEW nodes \in SUBSET Prefixes(family)
  PROVE  CollapseCoveredPrefixes(nodes) = Collapsed(nodes)
<1> DEFINE w == Width[family]
           Step(L) == [d \in 0 .. w |->
                        {n \in nodes : Len(n) = d} \cup
                        IF d = w THEN {}
                        ELSE {n \in Bits(d) : Append(n, 0) \in L[d + 1] /\ Append(n, 1) \in L[d + 1]}]
           Level == CHOOSE L : L = Step(L)
           F == [d \in 0 .. w |-> CoveredLevel(nodes, d)]
<1>0. w \in Nat
  BY WidthIsNat
<1>1. \E L : L = Step(L)
  <2>1. ASSUME NEW d \in 0 .. w, d # w PROVE F[d + 1] = CoveredLevel(nodes, d + 1)
    <3>1. d + 1 \in 0 .. w
      BY <1>0, <2>1
    <3> QED
      BY <3>1
  <2>2. ASSUME NEW d \in 0 .. w PROVE F[d] = Step(F)[d]
    <3>1. F[d] = CoveredLevel(nodes, d)
      OBVIOUS
    <3> HIDE DEF F
    <3> QED
      BY <2>1, <3>1, LevelFromBelow
  <2>3. F = [d \in 0 .. w |-> F[d]] /\ Step(F) = [d \in 0 .. w |-> Step(F)[d]]
    OBVIOUS
  <2> HIDE DEF F, Step
  <2>4. F = Step(F)
    BY <2>2, <2>3
  <2> QED
    BY <2>4
<1>2. Level = Step(Level)
  <2> HIDE DEF Step
  <2> QED
    BY <1>1
<1>3. \A d \in 0 .. w : Level[d] = CoveredLevel(nodes, d)
  <2> HIDE DEF Level
  <2> QED
    BY <1>2, LevelsAreCovered
<1>4. UNION {Level[d] : d \in 0 .. w} = UNION {CoveredLevel(nodes, d) : d \in 0 .. w}
  <2> HIDE DEF Level
  <2> QED
    BY <1>3
<1>5. CollapseCoveredPrefixes(nodes) =
        LET all == UNION {Level[d] : d \in 0 .. w}
        IN {n \in all : ~\E m \in all : m # n /\ Above(m, n)}
  BY DEF CollapseCoveredPrefixes
<1> HIDE DEF Level
<1> QED
  BY <1>4, <1>5 DEF Collapsed
(***************************************************************************)
(* What collapsing leaves of a set of prefixes: the same addresses, no     *)
(* prefix above another, and the root if nothing is missing.               *)
(***************************************************************************)
FullyCovered(f, nodes) == \A a \in Bits(Width[f]) : Covered(nodes, a)
Antichain(nodes) == \A m, n \in nodes : Above(m, n) => m = n

LEMMA CollapseKeepsCoverage ==
  ASSUME family \in Families, NEW nodes \in SUBSET Prefixes(family)
  PROVE  LET kept == CollapseCoveredPrefixes(nodes) IN
         /\ kept \in SUBSET Prefixes(family)
         /\ Antichain(kept)
         /\ \A a \in Bits(Width[family]) : Covered(kept, a) <=> Covered(nodes, a)
         /\ FullyCovered(family, nodes) => <<>> \in kept
<1> DEFINE w == Width[family]
           all == UNION {CoveredLevel(nodes, d) : d \in 0 .. w}
           kept == CollapseCoveredPrefixes(nodes)
<1>0. w \in Nat
  BY WidthIsNat
<1>1. kept = {n \in all : ~\E m \in all : m # n /\ Above(m, n)}
  BY CollapseIsCollapsed DEF Collapsed
<1>2. all \in SUBSET Prefixes(family)
  BY DEF CoveredLevel, Prefixes
<1>3. ASSUME NEW n \in nodes PROVE n \in all
  <2>1. Len(n) \in 0 .. w /\ n \in Bits(Len(n))
    BY PrefixLength
  <2>2. Above(n, n)
    BY <2>1, AboveIsReflexive
  <2>3. n \in CoveredLevel(nodes, Len(n))
    BY <2>1, <2>2 DEF CoveredLevel
  <2> QED
    BY <2>1, <2>3
<1>4. ASSUME NEW n \in all, NEW a \in Bits(w), Above(n, a) PROVE Covered(nodes, a)
  BY <1>4 DEF CoveredLevel, Covered
<1>5. FullyCovered(family, nodes) => <<>> \in all
  <2>1. <<>> \in Bits(0)
    BY RootIsAbove
  <2>2. ASSUME FullyCovered(family, nodes), NEW a \in Bits(w)
        PROVE  \E m \in nodes : Above(<<>>, m) /\ Above(m, a)
    <3>1. PICK m \in nodes : Above(m, a)
      BY <2>2 DEF FullyCovered, Covered
    <3> QED
      BY <3>1, PrefixLength, RootIsAbove
  <2> QED
    BY <1>0, <2>1, <2>2 DEF CoveredLevel
<1> HIDE DEF all, kept
\* Above a prefix there is a shortest one.
<1>6. ASSUME NEW n \in all PROVE \E m \in kept : Above(m, n)
  <2> DEFINE lengths == {Len(m) : m \in {q \in all : Above(q, n)}}
  <2>1. Len(n) \in Nat /\ n \in Bits(Len(n))
    BY <1>0, <1>2, PrefixLength
  <2>2. lengths \in SUBSET Nat /\ lengths # {}
    <3>1. \A m \in all : Len(m) \in Nat
      BY <1>0, <1>2, PrefixLength
    <3>2. Above(n, n)
      BY <2>1, AboveIsReflexive
    <3> QED
      BY <3>1, <3>2
  <2>3. PICK l \in lengths : \A k \in lengths : l <= k
    <3> HIDE DEF lengths
    <3> QED
      BY <2>2, NatMinimum
  <2>4. PICK m \in all : Above(m, n) /\ Len(m) = l
    BY <2>3
  <2>5. Len(m) \in Nat /\ m \in Bits(Len(m))
    BY <1>0, <1>2, PrefixLength
  <2>6. ASSUME NEW q \in all, q # m, Above(q, m) PROVE FALSE
    <3>1. Len(q) \in Nat /\ q \in Bits(Len(q))
      BY <1>0, <1>2, PrefixLength
    <3>2. Above(q, n)
      BY <2>1, <2>4, <2>5, <2>6, <3>1, AboveIsTransitive
    <3>3. Len(m) <= Len(q)
      BY <2>3, <2>4, <3>2
    <3>4. Len(q) <= Len(m)
      BY <2>5, <2>6, <3>1, AboveCases
    <3>5. Len(q) = Len(m)
      BY <2>5, <3>1, <3>3, <3>4
    <3> QED
      BY <2>5, <2>6, <3>1, <3>5, AboveSameLength
  <2> QED
    BY <1>1, <2>4, <2>6
<1>7. Antichain(kept)
  BY <1>1 DEF Antichain
<1>8. ASSUME NEW a \in Bits(w) PROVE Covered(kept, a) <=> Covered(nodes, a)
  <2>1. ASSUME Covered(kept, a) PROVE Covered(nodes, a)
    BY <1>1, <1>4, <2>1 DEF Covered
  <2>2. ASSUME Covered(nodes, a) PROVE Covered(kept, a)
    <3>1. PICK n \in nodes : Above(n, a)
      BY <2>2 DEF Covered
    <3>2. PICK m \in kept : Above(m, n)
      BY <1>3, <1>6
    <3>3. m \in Bits(Len(m)) /\ Len(m) \in Nat /\ n \in Bits(Len(n)) /\ Len(n) \in Nat
      BY <1>0, <1>1, <1>2, PrefixLength
    <3>4. Above(m, a)
      BY <1>0, <3>1, <3>2, <3>3, AboveIsTransitive
    <3> QED
      BY <3>4 DEF Covered
  <2> QED
    BY <2>1, <2>2
<1>9. FullyCovered(family, nodes) => <<>> \in kept
  <2>1. SUFFICES ASSUME <<>> \in all PROVE <<>> \in kept
    BY <1>5
  <2>2. PICK m \in kept : Above(m, <<>>)
    BY <1>6, <2>1
  <2>3. m \in Bits(Len(m)) /\ Len(m) \in Nat /\ <<>> \in Bits(0)
    BY <1>0, <1>1, <1>2, PrefixLength, RootIsAbove
  <2>4. Len(m) = 0
    BY <2>2, <2>3, AboveCases
  <2>5. m = <<>>
    BY <2>3, <2>4
  <2> QED
    BY <2>2, <2>5
<1>10. kept \in SUBSET Prefixes(family)
  BY <1>1, <1>2
<1> QED
  BY <1>7, <1>8, <1>9, <1>10 DEF kept

Inserted(nodes, p) ==
  IF \E n \in nodes : n # p /\ Above(n, p) THEN nodes
  ELSE CollapseCoveredPrefixes({n \in nodes : ~Above(p, n)} \cup {p})

LEMMA InsertKeepsCoverage ==
  ASSUME family \in Families, NEW nodes \in SUBSET Prefixes(family), NEW p \in Prefixes(family),
         Antichain(nodes), FullyCovered(family, nodes) => <<>> \in nodes
  PROVE  LET new == Inserted(nodes, p) IN
         /\ new \in SUBSET Prefixes(family) /\ Antichain(new)
         /\ \A a \in Bits(Width[family]) : Covered(new, a) <=> Covered(nodes, a) \/ Above(p, a)
         /\ FullyCovered(family, new) => <<>> \in new
<1> DEFINE w == Width[family]
           rest == {n \in nodes : ~Above(p, n)} \cup {p}
           new == Inserted(nodes, p)
<1>0. w \in Nat
  BY WidthIsNat
<1>1. \A q \in nodes \cup {p} : Len(q) \in Nat /\ q \in Bits(Len(q))
  BY <1>0, PrefixLength
<1>2. CASE \E n \in nodes : n # p /\ Above(n, p)
  <2>1. PICK n \in nodes : Above(n, p)
    BY <1>2
  <2>2. ASSUME NEW a \in Bits(w), Above(p, a) PROVE Covered(nodes, a)
    <3>1. Above(n, a)
      BY <1>0, <1>1, <2>1, <2>2, AboveIsTransitive
    <3> QED
      BY <3>1 DEF Covered
  <2>3. new = nodes
    BY <1>2 DEF Inserted
  <2> QED
    BY <2>2, <2>3
<1>3. CASE ~\E n \in nodes : n # p /\ Above(n, p)
  <2>1. rest \in SUBSET Prefixes(family)
    OBVIOUS
  <2>2. ASSUME NEW a \in Bits(w) PROVE Covered(rest, a) <=> Covered(nodes, a) \/ Above(p, a)
    <3> HIDE DEF rest, new
    <3>1. ASSUME NEW n \in nodes, Above(n, a), Above(p, n) PROVE Above(p, a)
      <4>1. /\ Len(n) \in Nat /\ n \in Bits(Len(n))
            /\ Len(p) \in Nat /\ p \in Bits(Len(p))
        BY <1>1
      <4> QED
        BY <1>0, <3>1, <4>1, AboveIsTransitive
    <3> QED
      BY <3>1 DEF Covered, rest
  <2>3. new = CollapseCoveredPrefixes(rest)
    BY <1>3 DEF Inserted
  <2> HIDE DEF rest, new
  <2>4. /\ new \in SUBSET Prefixes(family) /\ Antichain(new)
        /\ \A a \in Bits(w) : Covered(new, a) <=> Covered(rest, a)
        /\ FullyCovered(family, rest) => <<>> \in new
    BY <2>1, <2>3, CollapseKeepsCoverage
  <2>5. FullyCovered(family, new) => FullyCovered(family, rest)
    BY <2>4 DEF FullyCovered
  <2> QED
    BY <2>2, <2>4, <2>5 DEF new
<1> QED
  BY <1>2, <1>3

(***************************************************************************)
(* What is classified, against what the requests meet.                     *)
(***************************************************************************)
EntryOK(e) ==
  /\ e.key \in {"account", "arn", "trusted", "secure", "tls", "free", "ip", "other"}
  /\ e.op \in Equals \cup Likes \cup {"null", "ip", "notIp", "bool", "less", "other"}
  /\ e.set \in {"", "any", "all"} /\ e.exists \in BOOLEAN
  /\ e.values = Malformed \/
       /\ e.key = "ip" => \A p \in e.values : p[1] \in Families /\ p[2] \in Prefixes(p[1])
       /\ e.key = "tls" => \A v \in e.values : v \in Int

LEMMA AddressExists ==
  ASSUME NEW f \in Families, NEW p \in Prefixes(f)
  PROVE  \E a \in Bits(Width[f]) : Above(p, a) /\ <<f, a>> \in Address
<1>1. Len(p) \in 0 .. Width[f] /\ p \in Bits(Len(p)) /\ Width[f] \in Nat
  BY WidthIsNat, PrefixLength
<1>2. PICK a \in Bits(Width[f]) : Above(p, a)
  BY <1>1, AddressBelow
<1> QED
  BY <1>2 DEF Address

LEMMA AnonymousRequests ==
  /\ \A r \in Anonymous :
       /\ r.account = "anonymous" /\ r.arn = "absent" /\ r.trusted = "absent"
       /\ r.tls \in {0, 10, 13} /\ r.address \in Address /\ r.free \in BOOLEAN /\ r.other \in BOOLEAN
  /\ \A tls \in {0, 10, 13}, address \in Address, free, other \in BOOLEAN :
       [account |-> "anonymous", arn |-> "absent", trusted |-> "absent", tls |-> tls,
        address |-> address, free |-> free, other |-> other] \in Anonymous
BY DEF Anonymous, Requests

LEMMA AddressOf ==
  ASSUME NEW f \in Families, NEW a \in Bits(Width[f])
  PROVE  \E b \in Address : b[1] = f /\ b[2] = a
<1>1. <<f, a>> \in {f} \X Bits(Width[f])
  OBVIOUS
<1> QED
  BY <1>1 DEF Address

LEMMA AddressParts ==
  ASSUME NEW a \in Address
  PROVE  a[1] \in Families /\ a[2] \in Bits(Width[a[1]])
BY DEF Address

LEMMA RequestExists ==
  \E r \in Anonymous : r.other = TRUE
<1>1. "v4" \in Families /\ Width["v4"] \in Nat
  BY WidthIsNat DEF Families
<1>2. <<>> \in Prefixes("v4")
  BY <1>1, RootIsAbove DEF Prefixes
<1>3. PICK a : a \in Address
  BY <1>1, <1>2, AddressExists
<1> QED
  BY <1>3, AnonymousRequests

LEMMA TrustedEntry ==
  ASSUME NEW e, EntryOK(e), e.key \in TrustedKeys, NEW r \in Anonymous
  PROVE  LET answer == ClassifyAllowConditionEntry(e) IN
         /\ answer \in {"public", "restricted", "unknown"}
         /\ answer = "public" => Met(e, r)
         /\ answer = "restricted" => ~Met(e, r)
         /\ answer = "unknown" /\ ValuesAreFixed(e) /\ r.other => Met(e, r)
<1> USE DEF EntryOK, TrustedKeys, Equals, Likes, Negative
<1>0. r.account = "anonymous" /\ r.arn = "absent" /\ r.trusted = "absent"
  BY AnonymousRequests
<1>1. CASE e.key = "account"
  <2>1. ClassifyAllowConditionEntry(e) = ClassifyKnownConditionValue(e)
    BY <1>1 DEF ClassifyAllowConditionEntry, PublicKeys
  <2>2. Valued(r, e.key) = "anonymous"
    BY <1>0, <1>1 DEF Valued
  <2>3. CASE e.values \in {Malformed, {}}
    BY <2>1, <2>3 DEF ClassifyKnownConditionValue, ValuesAreFixed
  <2>4. CASE e.values \notin {Malformed, {}} /\ IsNull(e)
    BY <1>1, <2>1, <2>2, <2>4 DEF ClassifyKnownConditionValue, Met, IsNull, ByPresence, IsText
  <2>5. CASE e.values \notin {Malformed, {}} /\ ~IsNull(e) /\ ~IsText(e)
    BY <1>1, <2>1, <2>2, <2>5 DEF ClassifyKnownConditionValue, Met
  <2>6. CASE e.values \notin {Malformed, {}} /\ IsText(e)
    BY <1>1, <2>1, <2>2, <2>6 DEF ClassifyKnownConditionValue, Met, IsNull, IsText, TextMet
  <2> QED
    BY <2>3, <2>4, <2>5, <2>6
<1>2. CASE e.key # "account"
  <2>1. ClassifyAllowConditionEntry(e) = ClassifyTrustedKey(e)
    BY <1>2 DEF ClassifyAllowConditionEntry, PublicKeys
  <2>2. Valued(r, e.key) = "absent"
    BY <1>0, <1>2 DEF Valued
  <2>3. CASE IsNull(e)
    BY <2>1, <2>2, <2>3 DEF ClassifyTrustedKey, Met, IsNull, ByPresence, IsText, IsPositiveIfExists,
         IsForAllValuesPositive, IsPositive, IsForAnyValueNegative, IsNegative
  <2>4. CASE ~IsNull(e) /\ ~IsText(e)
    BY <2>1, <2>2, <2>4 DEF ClassifyTrustedKey, Met, IsText, IsPositiveIfExists,
         IsForAllValuesPositive, IsPositive, IsForAnyValueNegative, IsNegative
  <2>5. CASE IsText(e)
    BY <2>1, <2>2, <2>5 DEF ClassifyTrustedKey, Met, IsNull, IsText, TextMet, IsPositiveIfExists,
         IsForAllValuesPositive, IsPositive, IsForAnyValueNegative, IsNegative
  <2> QED
    BY <2>3, <2>4, <2>5
<1> QED
  BY <1>1, <1>2

\* An entry that does not keep anonymous requests out, whatever the others say.
OpenTo(e) ==
  CASE e.key \in TrustedKeys -> \A r \in Anonymous : Met(e, r)
    [] e.key \in PublicKeys -> TRUE
    [] e.key = "ip" -> \E a \in Address : \A r \in Anonymous : r.address = a => Met(e, r)
    [] OTHER -> FALSE

\* An entry that can be read in full.
Readable(e) ==
  /\ e.key \in TrustedKeys \cup {"ip"}
  /\ e.values \notin {Malformed, {}} /\ (e.key = "ip" \/ ValuesAreFixed(e))

Narrow(C) ==
  \E e \in C : e.key = "ip" /\ e.op = "ip" /\ e.values # Malformed /\ \A p \in e.values : ~IsWide(p)

\* The answer about one entry is no mistake.
Justified(e, C, answer) ==
  /\ answer \in {"public", "restricted", "unknown"}
  /\ answer = "public" => OpenTo(e)
  /\ answer = "restricted" => Narrow(C) \/ ~MetBySome(C)
  /\ answer # "restricted" /\ Readable(e) => MetBySome({e})

LEMMA OtherEntryJustified ==
  ASSUME NEW C, NEW e \in C, EntryOK(e), e.key # "ip"
  PROVE  Justified(e, C, ClassifyAllowConditionEntry(e))
<1> DEFINE answer == ClassifyAllowConditionEntry(e)
<1>1. CASE e.key \in TrustedKeys
  <2>1. ASSUME NEW r \in Anonymous
        PROVE  /\ answer \in {"public", "restricted", "unknown"}
               /\ answer = "public" => Met(e, r)
               /\ answer = "restricted" => ~Met(e, r)
               /\ answer = "unknown" /\ ValuesAreFixed(e) /\ r.other => Met(e, r)
    BY <1>1, TrustedEntry
  <2>2. PICK r \in Anonymous : r.other = TRUE
    BY RequestExists
  <2> HIDE DEF answer
  <2>3. OpenTo(e) <=> \A q \in Anonymous : Met(e, q)
    BY <1>1 DEF OpenTo, TrustedKeys, PublicKeys
  <2>4. answer = "restricted" => ~MetBySome(C)
    BY <2>1 DEF MetBySome
  <2>5. answer # "restricted" /\ Readable(e) => MetBySome({e})
    BY <1>1, <2>1, <2>2 DEF MetBySome, Readable, TrustedKeys
  <2> QED
    BY <2>1, <2>2, <2>3, <2>4, <2>5 DEF Justified, answer
<1>2. CASE e.key \notin TrustedKeys
  <2>1. answer = IF e.key \in PublicKeys THEN "public" ELSE "unknown"
    BY <1>2 DEF ClassifyAllowConditionEntry, TrustedKeys, PublicKeys
  <2>2. e.key \in PublicKeys => OpenTo(e)
    BY DEF OpenTo, TrustedKeys, PublicKeys
  <2>3. ~Readable(e)
    BY <1>2 DEF Readable
  <2> QED
    BY <2>1, <2>2, <2>3 DEF Justified
<1> QED
  BY <1>1, <1>2

LEMMA MeetsAddress ==
  ASSUME NEW e, e.key = "ip", e.values # Malformed, IsAddress(e), NEW r
  PROVE  Met(e, r) <=>
           (\E p \in e.values : p[1] = r.address[1] /\ Above(p[2], r.address[2])) = (e.op = "ip")
BY DEF Met, TrustedKeys, IsAddress

LEMMA OpenToAddress ==
  ASSUME NEW e, e.key = "ip"
  PROVE  /\ OpenTo(e) <=> \E a \in Address : \A r \in Anonymous : r.address = a => Met(e, r)
         /\ OpenTo(e) => MetBySome({e})
<1>1. OpenTo(e) <=> \E a \in Address : \A r \in Anonymous : r.address = a => Met(e, r)
  BY DEF OpenTo, TrustedKeys, PublicKeys
<1>2. ASSUME OpenTo(e) PROVE MetBySome({e})
  <2>1. PICK a \in Address : \A r \in Anonymous : r.address = a => Met(e, r)
    BY <1>1, <1>2
  <2> DEFINE r == [account |-> "anonymous", arn |-> "absent", trusted |-> "absent", tls |-> 0,
                   address |-> a, free |-> TRUE, other |-> TRUE]
  <2>2. r \in Anonymous /\ r.address = a
    BY AnonymousRequests
  <2> QED
    BY <2>1, <2>2 DEF MetBySome
<1> QED
  BY <1>1, <1>2

\* An entry of addresses that is judged without the tree.
LEMMA AddressEntryJustified ==
  ASSUME NEW C, NEW e \in C, EntryOK(e), e.key = "ip"
  PROVE  /\ e.values \in {Malformed, {}} \/ ~IsAddress(e) => Justified(e, C, "unknown")
         /\ e.values \notin {Malformed, {}} /\ IsAddress(e) /\ e.op = "ip" =>
              Justified(e, C, IF \E p \in e.values : IsWide(p) THEN "public" ELSE "restricted")
<1>1. ASSUME e.values \notin {Malformed, {}}, ~IsAddress(e) PROVE MetBySome({e})
  <2>1. PICK r \in Anonymous : r.other = TRUE
    BY RequestExists
  <2>2. Met(e, r)
    BY <1>1, <2>1 DEF Met, TrustedKeys
  <2> QED
    BY <2>2 DEF MetBySome
<1>2. ASSUME e.values \notin {Malformed, {}}, IsAddress(e), e.op = "ip", NEW p \in e.values
      PROVE  OpenTo(e)
  <2>1. p[1] \in Families /\ p[2] \in Prefixes(p[1])
    BY <1>2 DEF EntryOK
  <2>2. PICK a \in Bits(Width[p[1]]) : Above(p[2], a) /\ <<p[1], a>> \in Address
    BY <2>1, AddressExists
  <2>3. ASSUME NEW r \in Anonymous, r.address = <<p[1], a>> PROVE Met(e, r)
    <3>1. r.address[1] = p[1] /\ r.address[2] = a
      BY <2>3
    <3> QED
      BY <1>2, <2>2, <3>1, MeetsAddress
  <2> QED
    BY <2>2, <2>3, OpenToAddress
<1> QED
  BY <1>1, <1>2, OpenToAddress DEF Justified, Readable, Narrow

\* An entry of addresses that are excluded: what the trees of both families say.
LEMMA ExcludedEntryJustified ==
  ASSUME NEW C, NEW e \in C, EntryOK(e), e.key = "ip", e.op = "notIp", e.set = "",
         e.values \notin {Malformed, {}}, NEW f \in Families
  PROVE  /\ (\E a \in Bits(Width[f]) : ~Covered(OfFamily(e, f), a)) => Justified(e, C, "public")
         /\ (\A g \in Families : \A a \in Bits(Width[g]) : Covered(OfFamily(e, g), a)) =>
              Justified(e, C, "restricted")
<1>1. IsAddress(e)
  BY DEF IsAddress
<1>2. ASSUME NEW r PROVE Met(e, r) <=> ~Covered(OfFamily(e, r.address[1]), r.address[2])
  <2>1. Met(e, r) <=> ~\E p \in e.values : p[1] = r.address[1] /\ Above(p[2], r.address[2])
    BY <1>1, MeetsAddress
  <2> QED
    BY <2>1 DEF Covered, OfFamily
<1>3. ASSUME NEW a \in Bits(Width[f]), ~Covered(OfFamily(e, f), a) PROVE OpenTo(e)
  <2>1. PICK b \in Address : b[1] = f /\ b[2] = a
    BY AddressOf
  <2>2. ASSUME NEW r \in Anonymous, r.address = b PROVE Met(e, r)
    BY <1>2, <1>3, <2>1, <2>2
  <2> QED
    BY <2>1, <2>2, OpenToAddress
<1>4. ASSUME \A g \in Families : \A a \in Bits(Width[g]) : Covered(OfFamily(e, g), a)
      PROVE  ~MetBySome(C)
  <2>1. ASSUME NEW r \in Anonymous PROVE ~Met(e, r)
    <3>1. r.address[1] \in Families /\ r.address[2] \in Bits(Width[r.address[1]])
      BY AnonymousRequests, AddressParts
    <3> QED
      BY <1>2, <1>4, <3>1
  <2> QED
    BY <2>1 DEF MetBySome
<1> QED
  BY <1>3, <1>4, OpenToAddress DEF Justified

(***************************************************************************)
(* The condition of a Deny.                                                *)
(***************************************************************************)
LEMMA DenyRequests ==
  ASSUME NEW kind \in {"anonymous", "authenticated"}
  PROVE  /\ \A r \in Requests(kind) :
              /\ kind = "authenticated" => r.account # "absent" /\ r.arn # "absent"
              /\ kind = "anonymous" => r \in Anonymous
         /\ \E r \in Requests(kind) : r.tls = 13
<1>1. PICK q \in Anonymous : q.other = TRUE
  BY RequestExists
<1>2. q.address \in Address
  BY <1>1, AnonymousRequests
<1>3. CASE kind = "anonymous"
  <2> DEFINE r == [account |-> "anonymous", arn |-> "absent", trusted |-> "absent", tls |-> 13,
                   address |-> q.address, free |-> TRUE, other |-> TRUE]
  <2>1. r \in Anonymous /\ r.tls = 13
    BY <1>2, AnonymousRequests
  <2> QED
    BY <1>3, <2>1 DEF Anonymous
<1>4. CASE kind = "authenticated"
  <2> DEFINE r == [account |-> "fixed", arn |-> "fixed", trusted |-> "fixed", tls |-> 13,
                   address |-> q.address, free |-> TRUE, other |-> TRUE]
  <2>1. r \in Requests(kind) /\ r.tls = 13
    BY <1>2, <1>4 DEF Requests
  <2> QED
    BY <1>4, <2>1 DEF Requests
<1> QED
  BY <1>3, <1>4

LEMMA DenyEntry ==
  ASSUME NEW e, EntryOK(e), NEW kind \in {"anonymous", "authenticated"}, NEW r \in Requests(kind)
  PROVE  LET answer == ClassifyDenyEntry(e, kind) IN
         /\ answer \in {"blocks", "passes", "unknown"}
         /\ answer = "blocks" => Met(e, r)
         /\ answer = "passes" => ~Met(e, r)
<1> DEFINE answer == ClassifyDenyEntry(e, kind)
<1>0. /\ kind = "authenticated" => r.account # "absent" /\ r.arn # "absent"
      /\ kind = "anonymous" =>
           r \in Anonymous /\ r.account = "anonymous" /\ r.arn = "absent" /\ r.trusted = "absent"
  BY DenyRequests, AnonymousRequests
<1>1. CASE e.key \notin TrustedKeys
  BY <1>1 DEF ClassifyDenyEntry
<1>2. CASE e.key = "account" /\ kind = "anonymous"
  <2>1. ClassifyAllowConditionEntry(e) = ClassifyKnownConditionValue(e) /\ e.key \in TrustedKeys
    BY <1>2 DEF ClassifyAllowConditionEntry, PublicKeys, TrustedKeys
  <2>2. answer = ClassifyDenyAccount(e)
    BY <1>2, <2>1 DEF ClassifyDenyEntry
  <2>3. /\ ClassifyKnownConditionValue(e) = "public" => Met(e, r)
        /\ ClassifyKnownConditionValue(e) = "restricted" => ~Met(e, r)
    BY <1>0, <1>2, <2>1, TrustedEntry
  <2> QED
    BY <2>2, <2>3 DEF ClassifyDenyAccount
<1>3. CASE e.key \in TrustedKeys /\ ~(e.key = "account" /\ kind = "anonymous") /\ IsNull(e)
  <2>1. answer = ClassifyDenyNull(e, kind)
    BY <1>3 DEF ClassifyDenyEntry
  <2>2. e.values \in {{"true"}, {"false"}} =>
          (Met(e, r) <=> (Valued(r, e.key) = "absent") = (e.values = {"true"}))
    BY <1>3 DEF Met, IsNull, IsText, Equals, Likes, TrustedKeys
  <2>3. /\ PresenceOf(kind, e.key) \in {"yes", "no", "unknown"}
        /\ PresenceOf(kind, e.key) = "yes" => Valued(r, e.key) # "absent"
        /\ PresenceOf(kind, e.key) = "no" \/ (kind = "anonymous" /\ PresenceOf(kind, e.key) # "yes") =>
             Valued(r, e.key) = "absent"
    BY <1>0, <1>3 DEF PresenceOf, Known, Valued, TrustedKeys
  <2>4. {"true"} # {"false"}
    OBVIOUS
  <2>5. \A present, absent :
          ByPresence(e, present, absent) = IF e.values = {"false"} THEN present
                                           ELSE IF e.values = {"true"} THEN absent ELSE "unknown"
    BY <2>4 DEF ByPresence
  <2> QED
    BY <2>1, <2>2, <2>3, <2>4, <2>5 DEF ClassifyDenyNull
<1>4. CASE e.key \in TrustedKeys /\ ~(e.key = "account" /\ kind = "anonymous") /\ ~IsNull(e)
  <2>1. CASE kind = "authenticated" \/ ~ValuesAreFixed(e)
    BY <1>4, <2>1 DEF ClassifyDenyEntry
  <2>2. CASE kind = "anonymous" /\ ValuesAreFixed(e)
    <3>1. Valued(r, e.key) = "absent"
      BY <1>0, <1>4, <2>2 DEF Valued, TrustedKeys
    <3>2. CASE IsText(e)
      <4>1. Met(e, r) <=> e.exists \/ e.set = "all" \/ (e.op \in Negative /\ e.set # "any")
        BY <1>4, <3>1, <3>2 DEF Met, TextMet, IsNull, IsText, Equals, Likes, Negative, TrustedKeys
      <4> QED
        BY <1>4, <2>2, <3>2, <4>1
        DEF EntryOK, ClassifyDenyEntry, IsPositiveIfExists, IsForAnyValueNegative, IsNegative,
            IsForAllValuesPositive, IsPositive
    <3>3. CASE ~IsText(e)
      BY <1>4, <2>2, <3>3
      DEF ClassifyDenyEntry, IsPositiveIfExists, IsForAnyValueNegative, IsNegative,
          IsForAllValuesPositive, IsPositive, IsText, Equals, Likes, Negative
    <3> QED
      BY <3>2, <3>3
  <2> QED
    BY <2>1, <2>2
<1> QED
  BY <1>1, <1>2, <1>3, <1>4

\* The bypass of HasTransportBypass is one: a request over TLS 1.3 takes it.
LEMMA BypassEscapes ==
  ASSUME NEW C, \A e \in C : EntryOK(e), HasTransportBypass(C), NEW r, r.tls = 13
  PROVE  \E e \in C : ~Met(e, r)
<1>1. PICK e \in C :
        /\ e.set = "" /\ ~e.exists /\ e.values # Malformed
        /\ \/ e.key = "secure" /\ e.op = "bool" /\ e.values = {"false"}
           \/ e.key = "tls" /\ e.op = "less" /\ e.values # {} /\ \A v \in e.values : v <= 13
  BY DEF HasTransportBypass
<1>2. CASE e.key = "secure" /\ e.op = "bool" /\ e.values = {"false"}
  <2>1. Met(e, r) <=> (IF r.tls = 0 THEN "false" ELSE "true") \in e.values
    BY <1>1, <1>2 DEF Met, TrustedKeys
  <2> QED
    BY <1>2, <2>1
<1>3. CASE e.key = "tls" /\ e.op = "less" /\ \A v \in e.values : v <= 13
  <2>1. Met(e, r) <=> r.tls # 0 /\ \E v \in e.values : r.tls < v
    BY <1>1, <1>3 DEF Met, TrustedKeys
  <2>2. \A v \in e.values : v \in Int
    BY <1>1, <1>3 DEF EntryOK
  <2> QED
    BY <1>3, <2>1, <2>2
<1> QED
  BY <1>1, <1>2, <1>3

Escapes(C, r) == \E e \in C : ~Met(e, r)

LEMMA DenyAnswer ==
  ASSUME NEW C \in Conditions, NEW kind \in {"anonymous", "authenticated"}, NEW answer,
         answer = IF C = {} THEN "blocks"
                  ELSE IF HasTransportBypass(C) THEN "passes"
                  ELSE IF Cardinality(C) # 1 THEN "unknown"
                  ELSE ClassifyDenyEntry(CHOOSE e \in C : TRUE, kind)
  PROVE  /\ answer \in {"blocks", "passes", "unknown"}
         /\ answer = "blocks" => \A r \in Requests(kind) : ~Escapes(C, r)
         /\ answer = "passes" => \E r \in Requests(kind) : Escapes(C, r)
<1>0. IsFiniteSet(C) /\ \A e \in C : EntryOK(e)
  BY ConditionAssumption DEF EntryOK
<1>1. PICK q \in Requests(kind) : q.tls = 13
  BY DenyRequests
<1>2. CASE C = {}
  BY <1>2 DEF Escapes
<1>3. CASE C # {} /\ HasTransportBypass(C)
  BY <1>0, <1>1, <1>3, BypassEscapes DEF Escapes
<1>4. CASE C # {} /\ ~HasTransportBypass(C) /\ Cardinality(C) # 1
  BY <1>4
<1>5. CASE C # {} /\ ~HasTransportBypass(C) /\ Cardinality(C) = 1
  <2>1. PICK e : C = {e}
    BY <1>0, <1>5, FS_Singleton
  <2>2. answer = ClassifyDenyEntry(e, kind)
    BY <1>5, <2>1
  <2> QED
    BY <1>0, <1>1, <2>1, <2>2, DenyEntry DEF Escapes
<1> QED
  BY <1>2, <1>3, <1>4, <1>5

(***************************************************************************)
(* The condition of an Allow: a request that meets each of its entries.    *)
(***************************************************************************)
LEMMA PublicIsMet ==
  ASSUME NEW C \in Conditions, \A e \in C : OpenTo(e),
         MetBySome({e \in C : e.key \in PublicKeys}),
         Cardinality({e \in C : e.key \in {"ip"}}) <= 1
  PROVE  MetBySome(C)
<1> DEFINE addresses == {e \in C : e.key \in {"ip"}}
<1>0. IsFiniteSet(C) /\ \A e \in C : EntryOK(e)
  BY ConditionAssumption DEF EntryOK
<1>1. PICK q \in Anonymous : \A e \in C : e.key \in PublicKeys => Met(e, q)
  BY DEF MetBySome
<1>2. PICK a \in Address : \A e \in addresses : \A r \in Anonymous : r.address = a => Met(e, r)
  <2>1. IsFiniteSet(addresses)
    BY <1>0, FS_Subset
  <2>2. Cardinality(addresses) \in Nat
    BY <2>1, FS_CardinalityType
  <2>3. CASE Cardinality(addresses) = 0
    <3>1. addresses = {}
      BY <2>1, <2>3, FS_EmptySet
    <3>2. q.address \in Address
      BY <1>1, AnonymousRequests
    <3> QED
      BY <3>1, <3>2
  <2>4. CASE Cardinality(addresses) = 1
    <3>1. PICK e : addresses = {e}
      BY <2>1, <2>4, FS_Singleton
    <3>2. e \in C /\ e.key = "ip"
      BY <3>1
    <3>3. \E a \in Address : \A r \in Anonymous : r.address = a => Met(e, r)
      BY <3>2, OpenToAddress
    <3> QED
      BY <3>1, <3>3
  <2> QED
    BY <2>2, <2>3, <2>4
<1> DEFINE r == [account |-> "anonymous", arn |-> "absent", trusted |-> "absent", tls |-> q.tls,
                 address |-> a, free |-> q.free, other |-> q.other]
<1>3. r \in Anonymous /\ r.address = a /\ r.tls = q.tls /\ r.free = q.free /\ r.other = q.other
  BY <1>1, AnonymousRequests
<1> HIDE DEF r
<1>4. ASSUME NEW e \in C PROVE Met(e, r)
  <2>0. OpenTo(e) /\ EntryOK(e)
    BY <1>0
  <2>1. CASE e.key \in TrustedKeys
    BY <1>3, <2>0, <2>1 DEF OpenTo, TrustedKeys, PublicKeys
  <2>2. CASE e.key \in PublicKeys
    <3>1. Met(e, q)
      BY <1>1, <2>2
    <3>2. Met(e, r) <=> Met(e, q)
      BY <1>3, <2>2 DEF Met, TrustedKeys, PublicKeys
    <3> QED
      BY <3>1, <3>2
  <2>3. CASE e.key = "ip"
    BY <1>2, <1>3, <2>3
  <2>4. CASE e.key = "other"
    BY <2>0, <2>4 DEF OpenTo, TrustedKeys, PublicKeys
  <2> QED
    BY <2>0, <2>1, <2>2, <2>3, <2>4 DEF EntryOK, TrustedKeys, PublicKeys
<1> QED
  BY <1>3, <1>4 DEF MetBySome

(***************************************************************************)
(* The inductive invariant.                                                *)
(***************************************************************************)
\* Which of the questions is asked, and of what.
QuestionInv ==
  /\ question \in {"principal", "allow", "anonymous", "authenticated"}
  /\ question = "principal" => principal \in Principals /\ condition = {}
  /\ question # "principal" => condition \in Conditions
  /\ pc \in {"start", "principals", "entries", "insert", "done"}
  /\ pc = "principals" => question = "principal"
  /\ pc \in {"entries", "insert"} => question = "allow"
  /\ pc = "done" <=> verdict # "none"
  /\ verdict \in IF question = "principal" THEN Decision \cup {"none"}
                 ELSE {"none", "public", "restricted", "blocks", "passes", "unknown"}
  /\ left \subseteq IF question = "principal" THEN principal.entries ELSE condition

\* The entries of the principal that were visited do not name everyone.
PrincipalInv ==
  pc = "principals" =>
    /\ principal.form = "map"
    /\ \A p \in principal.entries \ left : p.type = "AWS" => p.values # Malformed /\ "*" \notin p.values

\* Those of the condition do not keep anonymous requests out.
EntriesInv ==
  pc \in {"entries", "insert"} =>
    \A e \in condition \ left : (doubt \/ OpenTo(e)) /\ (Readable(e) => MetBySome({e}))

\* The tree covers what was inserted, and its root is covered if nothing is missing.
TreeInv ==
  /\ family \in Families
  /\ ranges \subseteq Prefixes(family) /\ tree \subseteq Prefixes(family) /\ Antichain(tree)
  /\ pc # "insert" => entry = NoEntry
  /\ pc = "insert" =>
       /\ entry \in left /\ entry.key = "ip" /\ entry.op = "notIp" /\ entry.set = ""
       /\ entry.values \notin {Malformed, {}}
       /\ ranges \subseteq OfFamily(entry, family)
       /\ \A a \in Bits(Width[family]) : Covered(tree, a) <=> Covered(OfFamily(entry, family) \ ranges, a)
       /\ FullyCovered(family, tree) => <<>> \in tree
       /\ family = "v6" => \A a \in Bits(Width["v4"]) : Covered(OfFamily(entry, "v4"), a)

IInv ==
  /\ QuestionInv /\ PrincipalInv /\ EntriesInv /\ TreeInv
  /\ PrincipalVerdict /\ AllowVerdict /\ DenyVerdict

\* Settle, the end of the visit of an entry, whatever the answer about it.
LEMMA SettleKeepsInv ==
  ASSUME IInv, pc \in {"entries", "insert"}, NEW e \in left, NEW answer, Justified(e, condition, answer),
         Settle(e, answer), UNCHANGED <<question, principal, condition>>,
         entry' = NoEntry, family' = family, ranges' = ranges, tree' = tree \/ tree' = {}
  PROVE  IInv'
<1>0. /\ question = "allow" /\ condition \in Conditions /\ e \in condition /\ left \subseteq condition
      /\ verdict = "none"
  BY DEF IInv, QuestionInv
<1>1. /\ left' = left \ {e} /\ doubt' = (doubt \/ answer = "unknown")
      /\ answer = "restricted" => pc' = "done" /\ verdict' = "restricted"
      /\ answer # "restricted" => pc' = "entries" /\ verdict' = "none"
  BY <1>0 DEF Settle, Conclude
<1>2. QuestionInv'
  BY <1>0, <1>1 DEF IInv, QuestionInv
<1>3. PrincipalInv' /\ PrincipalVerdict' /\ DenyVerdict'
  BY <1>0, <1>1 DEF PrincipalInv, PrincipalVerdict, DenyVerdict
<1>4. EntriesInv'
  <2>1. SUFFICES ASSUME answer # "restricted", NEW d \in condition \ left'
                 PROVE  (doubt' \/ OpenTo(d)) /\ (Readable(d) => MetBySome({d}))
    BY <1>0, <1>1 DEF EntriesInv
  <2>2. CASE d = e
    BY <1>1, <2>1, <2>2 DEF Justified
  <2>3. CASE d # e
    BY <1>1, <2>1, <2>3 DEF IInv, EntriesInv
  <2> QED
    BY <2>2, <2>3
<1>5. TreeInv'
  BY <1>1 DEF IInv, TreeInv, Antichain
<1>6. AllowVerdict'
  <2>1. SUFFICES ASSUME pc' = "done"
                 PROVE  /\ verdict' = "restricted"
                        /\ Narrow(condition) \/ ~MetBySome(condition)
    BY <1>0 DEF AllowVerdict, Narrow
  <2> QED
    BY <1>1, <2>1 DEF Justified
<1> QED
  BY <1>2, <1>3, <1>4, <1>5, <1>6 DEF IInv

LEMMA InitInv == Init => IInv
<1>1. SUFFICES ASSUME Init PROVE IInv
  OBVIOUS
<1>2. pc = "start" /\ left = {} /\ entry = NoEntry /\ family = "v4" /\ ranges = {} /\ tree = {} /\ verdict = "none"
  BY <1>1 DEF Init
<1>3. QuestionInv
  BY <1>1, <1>2 DEF Init, QuestionInv
<1>4. PrincipalInv /\ EntriesInv /\ PrincipalVerdict /\ AllowVerdict /\ DenyVerdict
  BY <1>2 DEF PrincipalInv, EntriesInv, PrincipalVerdict, AllowVerdict, DenyVerdict
<1>5. TreeInv
  BY <1>2 DEF TreeInv, Antichain, Families
<1> QED
  BY <1>3, <1>4, <1>5 DEF IInv

\* A step that leaves the prefixes alone and does not begin to insert any.
LEMMA TreeUntouched ==
  ASSUME TreeInv, UNCHANGED examining, pc # "insert", pc' # "insert"
  PROVE  TreeInv'
BY DEF TreeInv, examining, Antichain

LEMMA PrincipalStepsKeepInv ==
  ASSUME IInv, ReadPrincipal \/ VisitPrincipal \/ PrincipalsVisited
  PROVE  IInv'
<1>0. /\ question = "principal" /\ principal \in Principals /\ condition = {}
      /\ pc \in {"start", "principals"} /\ verdict = "none"
      /\ UNCHANGED <<question, principal, condition, doubt, examining>>
  BY DEF IInv, QuestionInv, ReadPrincipal, VisitPrincipal, PrincipalsVisited
<1>1. principal.form \in {"absent", "not", "malformed", "text", "map"}
  BY <1>0, PrincipalAssumption
<1>2. /\ pc' \in {"principals", "done"} /\ (pc' = "done" <=> verdict' # "none")
      /\ verdict' \in Decision \cup {"none"} /\ left' \subseteq principal.entries
      /\ PrincipalInv' /\ PrincipalVerdict'
  <2>1. CASE ReadPrincipal
    <3>1. CASE principal.form \in {"absent", "not", "malformed"}
      <4>1. pc' = "done" /\ verdict' = "unknown" /\ left' = left
        BY <2>1, <3>1 DEF ReadPrincipal, Conclude
      <4> QED
        BY <1>0, <4>1 DEF IInv, QuestionInv, PrincipalInv, PrincipalVerdict, Agrees, Decision
    <3>2. CASE principal.form = "text"
      <4>1. pc' = "done" /\ verdict' = Known("*" \in principal.values) /\ left' = left
        BY <2>1, <3>2 DEF ReadPrincipal, Conclude
      <4> QED
        BY <1>0, <3>2, <4>1 DEF IInv, QuestionInv, PrincipalInv, PrincipalVerdict, Agrees, Decision, Known
    <3>3. CASE principal.form = "map"
      <4>1. pc' = "principals" /\ verdict' = "none" /\ left' = principal.entries
        BY <1>0, <2>1, <3>3 DEF ReadPrincipal
      <4> QED
        BY <1>0, <3>3, <4>1 DEF PrincipalInv, PrincipalVerdict
    <3> QED
      BY <1>1, <3>1, <3>2, <3>3
  <2>2. CASE VisitPrincipal
    <3>1. PICK p \in left :
            /\ left' = left \ {p}
            /\ IF p.type # "AWS" THEN UNCHANGED <<pc, verdict>>
               ELSE IF p.values = Malformed THEN Conclude("unknown")
               ELSE IF "*" \in p.values THEN Conclude("yes")
               ELSE UNCHANGED <<pc, verdict>>
      BY <2>2 DEF VisitPrincipal
    <3>2. pc = "principals" /\ principal.form = "map" /\ left \subseteq principal.entries
      BY <1>0, <2>2 DEF VisitPrincipal, IInv, PrincipalInv, QuestionInv
    <3>3. CASE p.type = "AWS" /\ p.values = Malformed
      <4>1. pc' = "done" /\ verdict' = "unknown"
        BY <3>1, <3>3 DEF Conclude
      <4> QED
        BY <1>0, <3>1, <3>2, <4>1 DEF PrincipalInv, PrincipalVerdict, Agrees, Decision
    <3>4. CASE p.type = "AWS" /\ p.values # Malformed /\ "*" \in p.values
      <4>1. pc' = "done" /\ verdict' = "yes"
        BY <3>1, <3>4 DEF Conclude
      <4> QED
        BY <1>0, <3>1, <3>2, <3>4, <4>1 DEF PrincipalInv, PrincipalVerdict, Agrees, Decision
    <3>5. CASE p.type = "AWS" => p.values # Malformed /\ "*" \notin p.values
      <4>1. pc' = "principals" /\ verdict' = "none"
        BY <1>0, <3>1, <3>2, <3>5
      <4>2. PrincipalInv'
        BY <1>0, <3>1, <3>2, <3>5, <4>1 DEF IInv, PrincipalInv
      <4> QED
        BY <1>0, <3>1, <3>2, <4>1, <4>2 DEF PrincipalVerdict
    <3> QED
      BY <3>3, <3>4, <3>5
  <2>3. CASE PrincipalsVisited
    <3>1. pc = "principals" /\ left = {} /\ left' = {} /\ pc' = "done" /\ verdict' = "no"
      BY <2>3 DEF PrincipalsVisited, Conclude
    <3>2. principal.form = "map" /\ \A p \in principal.entries : p.type = "AWS" => "*" \notin p.values
      BY <3>1 DEF IInv, PrincipalInv
    <3> QED
      BY <1>0, <3>1, <3>2 DEF PrincipalInv, PrincipalVerdict, Agrees, Decision
  <2> QED
    BY <2>1, <2>2, <2>3
<1>3. QuestionInv'
  BY <1>0, <1>2 DEF QuestionInv
<1>4. EntriesInv' /\ AllowVerdict' /\ DenyVerdict'
  BY <1>0, <1>2 DEF EntriesInv, AllowVerdict, DenyVerdict
<1>5. TreeInv'
  BY <1>0, <1>2, TreeUntouched DEF IInv
<1> QED
  BY <1>2, <1>3, <1>4, <1>5 DEF IInv

LEMMA ConditionStepsKeepInv ==
  ASSUME IInv, ReadCondition \/ VisitEntry \/ EntriesVisited \/ ClassifyDenyCondition
  PROVE  IInv'
<1>0. condition \in Conditions /\ (\A e \in condition : EntryOK(e)) /\ question # "principal"
  <2>1. question # "principal" /\ condition \in Conditions
    BY DEF IInv, QuestionInv, ReadCondition, VisitEntry, EntriesVisited, ClassifyDenyCondition
  <2> QED
    BY <2>1, ConditionAssumption DEF EntryOK
<1>1. CASE ReadCondition
  <2>1. /\ pc = "start" /\ question = "allow" /\ pc' = "entries" /\ left' = condition /\ verdict' = "none"
        /\ UNCHANGED <<question, principal, condition, examining>>
    BY <1>1 DEF ReadCondition, IInv, QuestionInv
  <2>2. QuestionInv' /\ PrincipalInv' /\ EntriesInv'
    BY <2>1 DEF IInv, QuestionInv, PrincipalInv, EntriesInv
  <2>3. PrincipalVerdict' /\ AllowVerdict' /\ DenyVerdict'
    BY <2>1 DEF PrincipalVerdict, AllowVerdict, DenyVerdict
  <2>4. TreeInv'
    BY <2>1, TreeUntouched DEF IInv
  <2> QED
    BY <2>2, <2>3, <2>4 DEF IInv
<1>2. CASE VisitEntry
  <2>1. PICK e \in left : e.key # "ip" /\ Settle(e, ClassifyAllowConditionEntry(e))
    BY <1>2 DEF VisitEntry
  <2>2. pc = "entries" /\ UNCHANGED <<question, principal, condition, entry, family, ranges, tree>>
    BY <1>2 DEF VisitEntry, examining
  <2>3. e \in condition /\ entry = NoEntry
    BY <1>0, <2>2 DEF IInv, QuestionInv, TreeInv
  <2>4. Justified(e, condition, ClassifyAllowConditionEntry(e))
    BY <1>0, <2>1, <2>3, OtherEntryJustified
  <2> QED
    BY <2>1, <2>2, <2>3, <2>4, SettleKeepsInv
<1>3. CASE EntriesVisited
  <2>1. /\ pc = "entries" /\ left = {} /\ pc' = "done" /\ verdict' = (IF doubt THEN "unknown" ELSE "public")
        /\ UNCHANGED <<question, principal, condition, left, doubt, examining>>
    BY <1>3 DEF EntriesVisited, Conclude
  <2>2. question = "allow"
    BY <2>1 DEF IInv, QuestionInv
  <2>3. QuestionInv'
    BY <2>1, <2>2 DEF IInv, QuestionInv
  <2>4. PrincipalInv' /\ EntriesInv' /\ PrincipalVerdict' /\ DenyVerdict'
    BY <2>1, <2>2 DEF PrincipalInv, EntriesInv, PrincipalVerdict, DenyVerdict
  <2>5. TreeInv'
    BY <2>1, TreeUntouched DEF IInv
  <2>6. \A e \in condition : (doubt \/ OpenTo(e)) /\ (Readable(e) => MetBySome({e}))
    BY <2>1 DEF IInv, EntriesInv
  <2>7. AllowVerdict'
    <3>1. CASE doubt
      BY <2>1, <2>6, <3>1 DEF AllowVerdict, Readable
    <3>2. CASE ~doubt
      <4>1. verdict' = "public" /\ \A e \in condition : OpenTo(e)
        BY <2>1, <2>6, <3>2
      <4>2. MetBySome({e \in condition : e.key \in PublicKeys})
            /\ Cardinality({e \in condition : e.key \in {"ip"}}) <= 1 => MetBySome(condition)
        BY <1>0, <4>1, PublicIsMet
      <4> QED
        BY <2>1, <4>1, <4>2 DEF AllowVerdict
    <3> QED
      BY <3>1, <3>2
  <2> QED
    BY <2>3, <2>4, <2>5, <2>7 DEF IInv
<1>4. CASE ClassifyDenyCondition
  <2> DEFINE answer == IF condition = {} THEN "blocks"
                       ELSE IF HasTransportBypass(condition) THEN "passes"
                       ELSE IF Cardinality(condition) # 1 THEN "unknown"
                       ELSE ClassifyDenyEntry(CHOOSE e \in condition : TRUE, question)
  <2>1. /\ pc = "start" /\ question \in {"anonymous", "authenticated"}
        /\ pc' = "done" /\ verdict' = answer
        /\ UNCHANGED <<question, principal, condition, left, doubt, examining>>
    BY <1>4 DEF ClassifyDenyCondition, Conclude
  <2>2. /\ answer \in {"blocks", "passes", "unknown"}
        /\ answer = "blocks" => \A r \in Requests(question) : ~Escapes(condition, r)
        /\ answer = "passes" => \E r \in Requests(question) : Escapes(condition, r)
    BY <1>0, <2>1, DenyAnswer
  <2> HIDE DEF answer
  <2>3. QuestionInv' /\ PrincipalInv' /\ EntriesInv'
    BY <2>1, <2>2 DEF IInv, QuestionInv, PrincipalInv, EntriesInv
  <2>4. PrincipalVerdict' /\ AllowVerdict'
    BY <2>1 DEF PrincipalVerdict, AllowVerdict
  <2>5. DenyVerdict'
    BY <2>1, <2>2 DEF DenyVerdict, Escapes
  <2>6. TreeInv'
    BY <2>1, TreeUntouched DEF IInv
  <2> QED
    BY <2>3, <2>4, <2>5, <2>6 DEF IInv
<1> QED
  BY <1>1, <1>2, <1>3, <1>4

LEMMA SourceIPStepsKeepInv ==
  ASSUME IInv, VisitSourceIP
  PROVE  IInv'
<1>1. PICK e \in left :
        /\ e.key = "ip"
        /\ IF e.values \in {Malformed, {}} \/ ~IsAddress(e)
           THEN Settle(e, "unknown") /\ UNCHANGED examining
           ELSE IF e.op = "ip"
           THEN Settle(e, IF \E p \in e.values : IsWide(p) THEN "public" ELSE "restricted")
                /\ UNCHANGED examining
           ELSE /\ pc' = "insert" /\ entry' = e /\ family' = "v4"
                /\ ranges' = OfFamily(e, "v4") /\ tree' = {}
                /\ UNCHANGED <<left, doubt, verdict>>
  BY DEF VisitSourceIP
<1>2. /\ pc = "entries" /\ UNCHANGED <<question, principal, condition>> /\ question = "allow"
      /\ condition \in Conditions /\ e \in condition /\ entry = NoEntry /\ verdict = "none"
  BY DEF VisitSourceIP, IInv, QuestionInv, TreeInv
<1>3. EntryOK(e)
  BY <1>2, ConditionAssumption DEF EntryOK
<1>4. CASE e.values \in {Malformed, {}} \/ ~IsAddress(e)
  <2>1. Settle(e, "unknown") /\ UNCHANGED <<entry, family, ranges, tree>>
    BY <1>1, <1>4 DEF examining
  <2>2. Justified(e, condition, "unknown")
    BY <1>1, <1>2, <1>3, <1>4, AddressEntryJustified
  <2> QED
    BY <1>2, <2>1, <2>2, SettleKeepsInv
<1>5. CASE e.values \notin {Malformed, {}} /\ IsAddress(e) /\ e.op = "ip"
  <2> DEFINE answer == IF \E p \in e.values : IsWide(p) THEN "public" ELSE "restricted"
  <2>1. Settle(e, answer) /\ UNCHANGED <<entry, family, ranges, tree>>
    BY <1>1, <1>5 DEF examining
  <2>2. Justified(e, condition, answer)
    BY <1>1, <1>2, <1>3, <1>5, AddressEntryJustified
  <2> HIDE DEF answer
  <2> QED
    BY <1>2, <2>1, <2>2, SettleKeepsInv
<1>6. CASE e.values \notin {Malformed, {}} /\ IsAddress(e) /\ e.op # "ip"
  <2>1. /\ pc' = "insert" /\ entry' = e /\ family' = "v4" /\ ranges' = OfFamily(e, "v4") /\ tree' = {}
        /\ UNCHANGED <<left, doubt, verdict>>
    BY <1>1, <1>6
  <2>2. QuestionInv' /\ PrincipalInv' /\ EntriesInv'
    BY <1>2, <2>1 DEF IInv, QuestionInv, PrincipalInv, EntriesInv
  <2>3. PrincipalVerdict' /\ AllowVerdict' /\ DenyVerdict'
    BY <1>2, <2>1 DEF PrincipalVerdict, AllowVerdict, DenyVerdict
  <2>4. "v4" \in Families /\ OfFamily(e, "v4") \subseteq Prefixes("v4")
    BY <1>1, <1>3, <1>6 DEF OfFamily, EntryOK, Families
  <2>5. \E a : a \in Bits(Width["v4"])
    BY <2>4, WidthHasAddress
  <2>6. TreeInv'
    BY <1>1, <1>6, <2>1, <2>4, <2>5 DEF TreeInv, Antichain, Covered, FullyCovered, IsAddress
  <2> QED
    BY <2>2, <2>3, <2>6 DEF IInv
<1> QED
  BY <1>4, <1>5, <1>6

LEMMA InsertStepKeepsInv ==
  ASSUME IInv, InsertCoveredPrefix
  PROVE  IInv'
<1>1. PICK p \in ranges :
        ranges' = ranges \ {p} /\ tree' = Inserted(tree, p)
  BY DEF InsertCoveredPrefix, Inserted
<1>2. pc = "insert" /\ UNCHANGED <<question, principal, condition, pc, left, doubt, entry, family, verdict>>
  BY DEF InsertCoveredPrefix
<1>3. /\ family \in Families /\ tree \in SUBSET Prefixes(family) /\ p \in Prefixes(family)
      /\ Antichain(tree) /\ (FullyCovered(family, tree) => <<>> \in tree) /\ p \in OfFamily(entry, family)
  BY <1>2 DEF IInv, TreeInv
<1>4. /\ tree' \in SUBSET Prefixes(family) /\ Antichain(tree')
      /\ \A a \in Bits(Width[family]) : Covered(tree', a) <=> Covered(tree, a) \/ Above(p, a)
      /\ FullyCovered(family, tree') => <<>> \in tree'
  BY <1>1, <1>3, InsertKeepsCoverage
<1>5. ASSUME NEW a \in Bits(Width[family])
      PROVE  Covered(tree', a) <=> Covered(OfFamily(entry, family) \ ranges', a)
  <2>1. Covered(tree, a) <=> Covered(OfFamily(entry, family) \ ranges, a)
    BY <1>2 DEF IInv, TreeInv
  <2>2. OfFamily(entry, family) \ ranges' = (OfFamily(entry, family) \ ranges) \cup {p}
    BY <1>1, <1>3
  <2> QED
    BY <1>4, <2>1, <2>2 DEF Covered
<1>6. TreeInv'
  BY <1>1, <1>2, <1>4, <1>5 DEF IInv, TreeInv, Antichain, FullyCovered
<1>7. QuestionInv' /\ PrincipalInv' /\ EntriesInv'
  BY <1>2 DEF IInv, QuestionInv, PrincipalInv, EntriesInv
<1>8. PrincipalVerdict' /\ AllowVerdict' /\ DenyVerdict'
  BY <1>2 DEF PrincipalVerdict, AllowVerdict, DenyVerdict
<1> QED
  BY <1>6, <1>7, <1>8 DEF IInv

LEMMA RootIsFull ==
  ASSUME family \in Families, NEW nodes, <<>> \in nodes
  PROVE  FullyCovered(family, nodes)
<1>1. \A a \in Bits(Width[family]) : Above(<<>>, a)
  BY WidthIsNat, RootIsAbove
<1> QED
  BY <1>1 DEF FullyCovered, Covered

LEMMA FamilyStepKeepsInv ==
  ASSUME IInv, FamilyInserted
  PROVE  IInv'
<1>1. /\ pc = "insert" /\ ranges = {} /\ UNCHANGED <<question, principal, condition>> /\ question = "allow"
      /\ condition \in Conditions /\ entry \in left /\ entry \in condition /\ family \in Families /\ verdict = "none"
  BY DEF FamilyInserted, IInv, QuestionInv, TreeInv
<1>2. EntryOK(entry)
  BY <1>1, ConditionAssumption DEF EntryOK
<1>3. /\ entry.key = "ip" /\ entry.op = "notIp" /\ entry.set = "" /\ entry.values \notin {Malformed, {}}
      /\ FullyCovered(family, tree) => RootCovered
      /\ family = "v6" => \A a \in Bits(Width["v4"]) : Covered(OfFamily(entry, "v4"), a)
  BY <1>1 DEF IInv, TreeInv, RootCovered
<1>4. RootCovered <=> \A a \in Bits(Width[family]) : Covered(OfFamily(entry, family), a)
  <2>1. \A a \in Bits(Width[family]) : Covered(tree, a) <=> Covered(OfFamily(entry, family), a)
    <3>1. OfFamily(entry, family) \ ranges = OfFamily(entry, family)
      BY <1>1
    <3> QED
      BY <1>1, <3>1 DEF IInv, TreeInv
  <2>2. RootCovered <=> FullyCovered(family, tree)
    BY <1>1, <1>3, RootIsFull DEF RootCovered
  <2> QED
    BY <2>1, <2>2 DEF FullyCovered
<1>5. CASE RootCovered /\ family = "v4"
  <2>1. /\ family' = "v6" /\ ranges' = OfFamily(entry, "v6") /\ tree' = {}
        /\ UNCHANGED <<pc, left, doubt, entry, verdict>>
    BY <1>5 DEF FamilyInserted
  <2>2. QuestionInv' /\ PrincipalInv' /\ EntriesInv'
    BY <1>1, <2>1 DEF IInv, QuestionInv, PrincipalInv, EntriesInv
  <2>3. PrincipalVerdict' /\ AllowVerdict' /\ DenyVerdict'
    BY <1>1, <2>1 DEF PrincipalVerdict, AllowVerdict, DenyVerdict
  <2>4. "v6" \in Families /\ OfFamily(entry, "v6") \subseteq Prefixes("v6")
    BY <1>2, <1>3 DEF OfFamily, EntryOK, Families
  <2>5. \E a : a \in Bits(Width["v6"])
    BY <2>4, WidthHasAddress
  <2>6. TreeInv'
    BY <1>1, <1>3, <1>4, <1>5, <2>1, <2>4, <2>5 DEF TreeInv, Antichain, Covered, FullyCovered
  <2> QED
    BY <2>2, <2>3, <2>6 DEF IInv
<1>6. CASE ~(RootCovered /\ family = "v4")
  <2> DEFINE answer == IF RootCovered THEN "restricted" ELSE "public"
  <2>1. Settle(entry, answer) /\ entry' = NoEntry /\ tree' = {} /\ UNCHANGED <<family, ranges>>
    BY <1>6 DEF FamilyInserted
  <2>2. Justified(entry, condition, answer)
    <3>1. CASE RootCovered
      <4>1. \A g \in Families : \A a \in Bits(Width[g]) : Covered(OfFamily(entry, g), a)
        BY <1>1, <1>3, <1>4, <1>6, <3>1 DEF Families
      <4> QED
        BY <1>1, <1>2, <1>3, <3>1, <4>1, ExcludedEntryJustified
    <3>2. CASE ~RootCovered
      BY <1>1, <1>2, <1>3, <1>4, <3>2, ExcludedEntryJustified
    <3> QED
      BY <3>1, <3>2
  <2> HIDE DEF answer
  <2> QED
    BY <1>1, <2>1, <2>2, SettleKeepsInv
<1> QED
  BY <1>5, <1>6

\* The inductive invariant holds in every state.
THEOREM ConditionsInvariant == Spec => []IInv
<1>1. ASSUME IInv, [Next]_vars PROVE IInv'
  <2>1. CASE ReadPrincipal \/ VisitPrincipal \/ PrincipalsVisited
    BY <1>1, <2>1, PrincipalStepsKeepInv
  <2>2. CASE ReadCondition \/ VisitEntry \/ EntriesVisited \/ ClassifyDenyCondition
    BY <1>1, <2>2, ConditionStepsKeepInv
  <2>3. CASE VisitSourceIP
    BY <1>1, <2>3, SourceIPStepsKeepInv
  <2>4. CASE InsertCoveredPrefix
    BY <1>1, <2>4, InsertStepKeepsInv
  <2>5. CASE FamilyInserted
    BY <1>1, <2>5, FamilyStepKeepsInv
  <2>6. CASE UNCHANGED vars
    BY <1>1, <2>6
    DEF vars, examining, IInv, QuestionInv, PrincipalInv, EntriesInv, TreeInv, Antichain, FullyCovered,
        PrincipalVerdict, AllowVerdict, DenyVerdict
  <2> QED
    BY <1>1, <2>1, <2>2, <2>3, <2>4, <2>5, <2>6 DEF Next, Answered
<1> QED
  BY <1>1, InitInv, PTL DEF Spec

\* The state of a classifier keeps its type, and the tree never holds a prefix
\* above another.
THEOREM ConditionsTypeCorrect == Spec => []TypeOK
<1>1. IInv => TypeOK
  <2>1. SUFFICES ASSUME IInv PROVE TypeOK
    OBVIOUS
  <2>2. left \subseteq condition \/ (question = "principal" /\ left \subseteq principal.entries)
    BY <2>1 DEF IInv, QuestionInv
  <2>3. entry \in condition \cup {NoEntry} /\ (pc = "insert" <=> entry # NoEntry)
    <3>1. NoEntry.key # "ip"
      BY DEF NoEntry
    <3>2. CASE pc = "insert"
      <4>1. entry \in left /\ entry.key = "ip" /\ left \subseteq condition
        BY <2>1, <3>2 DEF IInv, QuestionInv, TreeInv
      <4> QED
        BY <3>1, <3>2, <4>1
    <3>3. CASE pc # "insert"
      BY <2>1, <3>3 DEF IInv, TreeInv
    <3> QED
      BY <3>2, <3>3
  <2>4. \A n \in ranges \cup tree : Len(n) <= Width[family] /\ n \in Bits(Len(n))
    <3>1. family \in Families /\ \A n \in ranges \cup tree : n \in Prefixes(family)
      BY <2>1 DEF IInv, TreeInv
    <3>2. Width[family] \in Nat
      BY <3>1, WidthIsNat
    <3>3. ASSUME NEW n \in ranges \cup tree PROVE Len(n) \in 0 .. Width[family] /\ n \in Bits(Len(n))
      BY <3>1, PrefixLength
    <3> QED
      BY <3>2, <3>3
  <2> QED
    BY <2>1, <2>2, <2>3, <2>4 DEF TypeOK, IInv, QuestionInv, TreeInv, Antichain
<1> QED
  BY <1>1, ConditionsInvariant, PTL

\* statementPublicPrincipal: in every order of the map, "yes" and "no" are so.
THEOREM PrincipalsJudgedRight == Spec => []PrincipalVerdict
<1>1. IInv => PrincipalVerdict
  BY DEF IInv
<1> QED
  BY <1>1, ConditionsInvariant, PTL

\* classifyAllowCondition: in every order of the entries, a condition called
\* public is met by some anonymous request, and one called restricted by none.
THEOREM AllowConditionsJudgedRight == Spec => []AllowVerdict
<1>1. IInv => AllowVerdict
  BY DEF IInv
<1> QED
  BY <1>1, ConditionsInvariant, PTL

\* classifyDenyCondition: what blocks is met by every request of the kind, and
\* what passes is not.
THEOREM DenyConditionsJudgedRight == Spec => []DenyVerdict
<1>1. IInv => DenyVerdict
  BY DEF IInv
<1> QED
  BY <1>1, ConditionsInvariant, PTL

\* prefixesCoverAddressFamily, for every width of an address: the tree holds
\* the addresses that were inserted, no more and no less, and shows at its root
\* that they are all.
THEOREM PrefixTreeExact == Spec => []CoverageExact
<1>1. IInv => CoverageExact
  <2>1. SUFFICES ASSUME IInv, pc = "insert"
                 PROVE  /\ \A a \in Bits(Width[family]) :
                             Covered(tree, a) <=> Covered(OfFamily(entry, family) \ ranges, a)
                        /\ RootCovered <=> FullyCovered(family, OfFamily(entry, family) \ ranges)
    BY DEF CoverageExact, Covered, FullyCovered
  <2>2. \A a \in Bits(Width[family]) : Covered(tree, a) <=> Covered(OfFamily(entry, family) \ ranges, a)
    BY <2>1 DEF IInv, TreeInv
  <2>3. RootCovered <=> FullyCovered(family, tree)
    BY <2>1, RootIsFull DEF IInv, TreeInv, RootCovered
  <2> QED
    BY <2>2, <2>3 DEF FullyCovered
<1> QED
  BY <1>1, ConditionsInvariant, PTL
=============================================================================
