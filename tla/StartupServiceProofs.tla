------------------------ MODULE StartupServiceProofs ------------------------
(***************************************************************************)
(* Proofs about the startup service: that ServiceVersion orders the        *)
(* versions, for every set of versions; and of ServiceTransactions, for    *)
(* every platform, number of legacy services, machine to begin with and    *)
(* number of faults, that its transactions keep their types, never remove   *)
(* the definition of a legacy service before the canonical service         *)
(* answered, and if they succeed, leave the newest version and one service *)
(* that starts at boot.  The second part goes from sequences over the      *)
(* commands, the scripts and the catch blocks that are made of them to     *)
(* what each action does with the next command.                            *)
(***************************************************************************)
EXTENDS ServiceTransactions, ServiceVersion, TLAPS, WellFoundedInduction, SequenceTheorems

-----------------------------------------------------------------------------
(* Induction, over sets of natural numbers.                                *)

\* A set of natural numbers has a least element.
LEMMA LeastNatural ==
  ASSUME NEW T \in SUBSET Nat, T # {}
  PROVE  \E n \in T : \A m \in T : n <= m
<1> DEFINE R == OpToRel(<, Nat)
<1>1. IsWellFoundedOn(R, Nat)
  BY NatLessThanWellFounded
<1>2. \A m \in T, n \in T : m < n => <<m, n>> \in R
  BY DEF OpToRel
<1> HIDE DEF R
<1>3. PICK n \in T : \A m \in T : <<m, n>> \notin R
  BY <1>1, WFMin
<1>4. \A m \in T : ~(m < n)
  BY <1>2, <1>3
<1> QED BY <1>4

\* A set that has zero, and with a number the next one, has them all.
LEMMA AllNaturals ==
  ASSUME NEW S \in SUBSET Nat, 0 \in S, \A n \in S : n + 1 \in S
  PROVE  S = Nat
<1> SUFFICES ASSUME S # Nat PROVE FALSE
  OBVIOUS
<1>1. PICK n \in Nat \ S : \A m \in Nat \ S : n <= m
  BY LeastNatural
<1>2. n # 0 /\ n - 1 \in Nat /\ n - 1 \in S
  BY <1>1
<1> QED BY <1>1, <1>2

-----------------------------------------------------------------------------
(* Where two sequences differ first, and the order that this gives.        *)

DiffersFirst(a, b, i) ==
  /\ i \in Nat \ {0} /\ i <= Len(a) + 1 /\ i <= Len(b) + 1
  /\ \A j \in 1..(i - 1) : a[j] = b[j]
  /\ i <= Len(a) /\ i <= Len(b) => a[i] # b[i]
  /\ i <= Len(a) \/ i <= Len(b)

LEMMA FirstDifferenceIs ==
  ASSUME NEW S, NEW a \in Seq(S), NEW b \in Seq(S), a # b
  PROVE  DiffersFirst(a, b, FirstDifference(a, b))
<1>0. Len(a) # Len(b) \/ \E i \in 1..Len(a) : a[i] # b[i]
  BY SeqEqual
<1> DEFINE m == Max({Len(a), Len(b)})
           places == {i \in 1..m : i > Len(a) \/ i > Len(b) \/ a[i] # b[i]}
<1>1. Len(a) \in Nat /\ Len(b) \in Nat
  OBVIOUS
<1>2. m \in {Len(a), Len(b)} /\ m >= Len(a) /\ m >= Len(b)
  <2>1. \E x \in {Len(a), Len(b)} : \A y \in {Len(a), Len(b)} : x >= y
    BY <1>1
  <2>2. m \in {Len(a), Len(b)} /\ \A y \in {Len(a), Len(b)} : m >= y
    BY <2>1 DEF Max
  <2> QED BY <2>2
<1>3. places \in SUBSET Nat /\ places # {}
  <2>1. m \in Nat
    BY <1>1, <1>2
  <2>0. places \in SUBSET Nat
    BY <2>1
  <2>2. CASE Len(a) # Len(b)
    <3>1. m \in 1..m /\ (m > Len(a) \/ m > Len(b))
      BY <1>1, <1>2, <2>1, <2>2
    <3>2. m \in places
      BY <3>1
    <3> QED BY <2>0, <3>2
  <2>3. CASE Len(a) = Len(b)
    <3>1. PICK i \in 1..Len(a) : a[i] # b[i]
      BY <1>0, <2>3
    <3>2. i \in places
      BY <1>1, <1>2, <2>1, <2>3, <3>1
    <3> QED BY <2>0, <3>2
  <2> QED BY <2>2, <2>3
<1>4. FirstDifference(a, b) \in places /\ \A y \in places : FirstDifference(a, b) <= y
  <2> HIDE DEF places
  <2>1. \E x \in places : \A y \in places : x <= y
    BY <1>3, LeastNatural
  <2>2. FirstDifference(a, b) = Min(places)
    BY DEF FirstDifference, places
  <2> QED BY <2>1, <2>2 DEF Min
<1> DEFINE f == FirstDifference(a, b)
<1> HIDE DEF f, m
<1>5. f \in 1..m /\ (f > Len(a) \/ f > Len(b) \/ a[f] # b[f])
  BY <1>4 DEF f
<1>6. \A j \in 1..(f - 1) : j <= Len(a) /\ j <= Len(b) /\ a[j] = b[j]
  <2>1. ASSUME NEW j \in 1..(f - 1) PROVE j <= Len(a) /\ j <= Len(b) /\ a[j] = b[j]
    <3>1. j \in 1..m /\ ~(f <= j)
      BY <1>1, <1>2, <1>5
    <3>2. j \notin places
      BY <1>4, <3>1 DEF f
    <3> QED BY <1>1, <3>1, <3>2
  <2> QED BY <2>1
<1>7. f <= Len(a) + 1 /\ f <= Len(b) + 1
  <2>1. CASE f = 1
    BY <1>1, <2>1
  <2>2. CASE f # 1
    <3>1. f - 1 \in 1..(f - 1)
      BY <1>1, <1>2, <1>5, <2>2
    <3> QED BY <1>1, <1>2, <1>5, <1>6, <3>1
  <2> QED BY <2>1, <2>2
<1>8. f \in Nat \ {0} /\ (f <= Len(a) \/ f <= Len(b)) /\ (f <= Len(a) /\ f <= Len(b) => a[f] # b[f])
  BY <1>1, <1>2, <1>5
<1> QED BY <1>6, <1>7, <1>8 DEF DiffersFirst, f

LEMMA OneFirst ==
  ASSUME NEW S, NEW a \in Seq(S), NEW b \in Seq(S), NEW i, NEW k,
         DiffersFirst(a, b, i), DiffersFirst(b, a, k) \/ DiffersFirst(a, b, k)
  PROVE  i = k
<1>1. Len(a) \in Nat /\ Len(b) \in Nat
  OBVIOUS
<1>2. i \in Nat \ {0} /\ k \in Nat \ {0}
  BY DEF DiffersFirst
<1>3. CASE i < k
  <2>1. i \in 1..(k - 1)
    BY <1>2, <1>3
  <2>2. a[i] = b[i] /\ i <= Len(a) /\ i <= Len(b)
    BY <1>1, <1>2, <1>3, <2>1 DEF DiffersFirst
  <2> QED BY <2>2 DEF DiffersFirst
<1>4. CASE k < i
  <2>1. k \in 1..(i - 1)
    BY <1>2, <1>4
  <2>2. a[k] = b[k] /\ k <= Len(a) /\ k <= Len(b)
    BY <1>1, <1>2, <1>4, <2>1 DEF DiffersFirst
  <2> QED BY <2>2 DEF DiffersFirst
<1> QED BY <1>2, <1>3, <1>4

\* What differs first is where FirstDifference says, and only unequal sequences
\* differ.
LEMMA FirstIs ==
  ASSUME NEW S, NEW a \in Seq(S), NEW b \in Seq(S), NEW i, DiffersFirst(a, b, i)
  PROVE  a # b /\ FirstDifference(a, b) = i
<1>1. a # b
  BY DEF DiffersFirst
<1>2. DiffersFirst(a, b, FirstDifference(a, b))
  BY <1>1, FirstDifferenceIs
<1> QED BY <1>1, <1>2, OneFirst

LEMMA SameDifference ==
  ASSUME NEW S, NEW a \in Seq(S), NEW b \in Seq(S), a # b
  PROVE  FirstDifference(a, b) = FirstDifference(b, a)
<1>1. DiffersFirst(a, b, FirstDifference(a, b)) /\ DiffersFirst(b, a, FirstDifference(b, a))
  BY FirstDifferenceIs
<1> HIDE DEF FirstDifference
<1> QED BY <1>1, OneFirst

\* R orders S: of two different elements one is below the other.
Orders(R, S) ==
  /\ \A x, y \in S : x # y => (<<x, y>> \in R <=> <<y, x>> \notin R)
  /\ \A x \in S : <<x, x>> \notin R
  /\ \A x, y, z \in S : <<x, y>> \in R /\ <<y, z>> \in R => <<x, z>> \in R

\* The order of sequences that R gives, an absent element being below all others.
Before(a, b, R) ==
  LET i == FirstDifference(a, b) IN i > Len(a) \/ (i <= Len(b) /\ <<a[i], b[i]>> \in R)

LEMMA BeforeTotal ==
  ASSUME NEW S, NEW R, Orders(R, S), NEW a \in Seq(S), NEW b \in Seq(S), a # b
  PROVE  Before(a, b, R) <=> ~Before(b, a, R)
<1> DEFINE i == FirstDifference(a, b)
<1>1. DiffersFirst(a, b, i) /\ FirstDifference(b, a) = i
  BY FirstDifferenceIs, SameDifference
<1>2. Before(a, b, R) <=> i > Len(a) \/ (i <= Len(b) /\ <<a[i], b[i]>> \in R)
  BY DEF Before
<1>3. Before(b, a, R) <=> i > Len(b) \/ (i <= Len(a) /\ <<b[i], a[i]>> \in R)
  BY <1>1 DEF Before
<1> HIDE DEF i
<1>4. Len(a) \in Nat /\ Len(b) \in Nat /\ i \in Nat \ {0}
  BY <1>1 DEF DiffersFirst
<1>5. i <= Len(a) /\ i <= Len(b) => a[i] \in S /\ b[i] \in S /\ a[i] # b[i]
  BY <1>1, <1>4, ElementOfSeq DEF DiffersFirst
<1>6. i <= Len(a) \/ i <= Len(b)
  BY <1>1 DEF DiffersFirst
<1>7. i <= Len(a) /\ i <= Len(b) => (<<a[i], b[i]>> \in R <=> <<b[i], a[i]>> \notin R)
  BY <1>5 DEF Orders
<1> QED BY <1>2, <1>3, <1>4, <1>6, <1>7

LEMMA BeforeTransitive ==
  ASSUME NEW S, NEW R, Orders(R, S), NEW a \in Seq(S), NEW b \in Seq(S), NEW c \in Seq(S),
         a # b, b # c, Before(a, b, R), Before(b, c, R)
  PROVE  a # c /\ Before(a, c, R)
<1> DEFINE i == FirstDifference(a, b)
           j == FirstDifference(b, c)
<1>1. DiffersFirst(a, b, i) /\ DiffersFirst(b, c, j)
  BY FirstDifferenceIs
<1>2. i > Len(a) \/ (i <= Len(b) /\ <<a[i], b[i]>> \in R)
  BY DEF Before
<1>3. j > Len(b) \/ (j <= Len(c) /\ <<b[j], c[j]>> \in R)
  BY DEF Before
<1> HIDE DEF i, j
<1>4. Len(a) \in Nat /\ Len(b) \in Nat /\ Len(c) \in Nat /\ i \in Nat \ {0} /\ j \in Nat \ {0}
  BY <1>1 DEF DiffersFirst
<1>5. \A k : DiffersFirst(a, c, k) /\ (k > Len(a) \/ (k <= Len(c) /\ <<a[k], c[k]>> \in R))
             => a # c /\ Before(a, c, R)
  BY FirstIs DEF Before
<1>6. CASE i < j
  <2>1. i <= Len(b) /\ i <= Len(c) /\ b[i] = c[i] /\ \A k \in 1..(i - 1) : a[k] = c[k]
    BY <1>1, <1>4, <1>6 DEF DiffersFirst
  <2>2. DiffersFirst(a, c, i)
    BY <1>1, <1>4, <2>1 DEF DiffersFirst
  <2> QED BY <1>2, <1>5, <2>1, <2>2
<1>7. CASE j < i
  <2>1. j <= Len(a) /\ j <= Len(b) /\ a[j] = b[j] /\ \A k \in 1..(j - 1) : a[k] = c[k]
    BY <1>1, <1>4, <1>7 DEF DiffersFirst
  <2>2. DiffersFirst(a, c, j)
    BY <1>1, <1>4, <2>1 DEF DiffersFirst
  <2> QED BY <1>3, <1>4, <1>5, <2>1, <2>2
<1>8. CASE i = j
  <2>1. i <= Len(b)
    BY <1>1, <1>2, <1>4 DEF DiffersFirst
  <2>2. i <= Len(c) /\ <<b[i], c[i]>> \in R
    BY <1>3, <1>4, <1>8, <2>1
  <2>3. \A k \in 1..(i - 1) : a[k] = c[k]
    BY <1>1, <1>8 DEF DiffersFirst
  <2>4. CASE i > Len(a)
    <3>1. DiffersFirst(a, c, i)
      BY <1>1, <1>4, <2>2, <2>3, <2>4 DEF DiffersFirst
    <3> QED BY <1>5, <2>4, <3>1
  <2>5. CASE ~(i > Len(a))
    <3>1. a[i] \in S /\ b[i] \in S /\ c[i] \in S
      BY <1>4, <2>1, <2>2, <2>5, ElementOfSeq
    <3>2. <<a[i], c[i]>> \in R /\ a[i] # c[i]
      BY <1>2, <2>2, <2>5, <3>1 DEF Orders
    <3>3. DiffersFirst(a, c, i)
      BY <1>1, <1>4, <2>2, <2>3, <2>5, <3>2 DEF DiffersFirst
    <3> QED BY <1>5, <2>2, <3>2, <3>3
  <2> QED BY <2>4, <2>5
<1> QED BY <1>4, <1>6, <1>7, <1>8

-----------------------------------------------------------------------------
(* Strings, identifiers, pre-releases.                                     *)

IntegersBelow == {p \in Int \X Int : p[1] < p[2]}

LEMMA IntegersOrdered == Orders(IntegersBelow, Int)
BY DEF Orders, IntegersBelow

LEMMA TextIsBefore ==
  ASSUME NEW a \in Seq(Int), NEW b \in Seq(Int), a # b
  PROVE  TextBefore(a, b) <=> Before(a, b, IntegersBelow)
<1> DEFINE i == FirstDifference(a, b)
<1>1. DiffersFirst(a, b, i)
  BY FirstDifferenceIs
<1>2. TextBefore(a, b) <=> i > Len(a) \/ (i <= Len(b) /\ a[i] < b[i])
  BY DEF TextBefore
<1>3. Before(a, b, IntegersBelow) <=> i > Len(a) \/ (i <= Len(b) /\ <<a[i], b[i]>> \in IntegersBelow)
  BY DEF Before
<1> HIDE DEF i
<1>4. Len(a) \in Nat /\ Len(b) \in Nat /\ i \in Nat \ {0}
  BY <1>1 DEF DiffersFirst
<1>5. i <= Len(a) /\ i <= Len(b) => (a[i] < b[i] <=> <<a[i], b[i]>> \in IntegersBelow)
  <2>1. i <= Len(a) /\ i <= Len(b) => a[i] \in Int /\ b[i] \in Int
    BY <1>4, ElementOfSeq
  <2> QED BY <2>1 DEF IntegersBelow
<1> QED BY <1>2, <1>3, <1>4, <1>5

LEMMA TextTotal ==
  ASSUME NEW a \in Seq(Int), NEW b \in Seq(Int), a # b
  PROVE  TextBefore(a, b) <=> ~TextBefore(b, a)
BY IntegersOrdered, TextIsBefore, BeforeTotal

LEMMA TextTransitive ==
  ASSUME NEW a \in Seq(Int), NEW b \in Seq(Int), NEW c \in Seq(Int), a # b, b # c,
         TextBefore(a, b), TextBefore(b, c)
  PROVE  a # c /\ TextBefore(a, c)
<1>1. Before(a, b, IntegersBelow) /\ Before(b, c, IntegersBelow)
  BY TextIsBefore
<1>2. a # c /\ Before(a, c, IntegersBelow)
  BY <1>1, IntegersOrdered, BeforeTransitive
<1> QED BY <1>2, TextIsBefore

LEMMA IdentifierTotal ==
  ASSUME NEW a \in Identifier, NEW b \in Identifier
  PROVE  /\ ComparePrereleaseIdentifier(a, b) \in {-1, 0, 1}
         /\ ComparePrereleaseIdentifier(a, b) = -ComparePrereleaseIdentifier(b, a)
         /\ ComparePrereleaseIdentifier(a, b) = 0 <=> a = b
<1>1. a \in Seq(Int) /\ b \in Seq(Int) /\ Len(a) \in Nat /\ Len(b) \in Nat
  BY DEF Identifier
<1>2. IsNumeric(a) \in BOOLEAN /\ IsNumeric(b) \in BOOLEAN
  BY DEF IsNumeric
<1>3. a # b => (TextBefore(a, b) <=> ~TextBefore(b, a))
  BY <1>1, TextTotal
<1> QED BY <1>1, <1>2, <1>3 DEF ComparePrereleaseIdentifier, Sign

LEMMA IdentifierTransitive ==
  ASSUME NEW a \in Identifier, NEW b \in Identifier, NEW c \in Identifier,
         ComparePrereleaseIdentifier(a, b) = -1, ComparePrereleaseIdentifier(b, c) = -1
  PROVE  ComparePrereleaseIdentifier(a, c) = -1
<1>1. a \in Seq(Int) /\ b \in Seq(Int) /\ c \in Seq(Int)
      /\ Len(a) \in Nat /\ Len(b) \in Nat /\ Len(c) \in Nat
  BY DEF Identifier
<1>2. a # b /\ b # c
  BY DEF ComparePrereleaseIdentifier
<1>3. TextBefore(a, b) /\ TextBefore(b, c) => a # c /\ TextBefore(a, c)
  BY <1>1, <1>2, TextTransitive
<1>4. a # c
  <2>1. ComparePrereleaseIdentifier(b, a) = 1
    BY IdentifierTotal
  <2> QED BY <2>1
<1>0. IsNumeric(a) \in BOOLEAN /\ IsNumeric(b) \in BOOLEAN /\ IsNumeric(c) \in BOOLEAN
  BY DEF IsNumeric
<1>5. /\ IsNumeric(a) /\ IsNumeric(b) => Len(a) < Len(b) \/ (Len(a) = Len(b) /\ TextBefore(a, b))
      /\ ~IsNumeric(a) => ~IsNumeric(b) /\ TextBefore(a, b)
  BY <1>0, <1>1, <1>2 DEF ComparePrereleaseIdentifier, Sign
<1>6. /\ IsNumeric(b) /\ IsNumeric(c) => Len(b) < Len(c) \/ (Len(b) = Len(c) /\ TextBefore(b, c))
      /\ ~IsNumeric(b) => ~IsNumeric(c) /\ TextBefore(b, c)
  BY <1>0, <1>1, <1>2 DEF ComparePrereleaseIdentifier, Sign
<1>7. /\ IsNumeric(a) /\ IsNumeric(c) => Len(a) < Len(c) \/ (Len(a) = Len(c) /\ TextBefore(a, c))
      /\ ~IsNumeric(a) => ~IsNumeric(c) /\ TextBefore(a, c)
  BY <1>1, <1>3, <1>5, <1>6
<1> QED BY <1>0, <1>1, <1>4, <1>7 DEF ComparePrereleaseIdentifier, Sign

IdentifiersBelow == {p \in Identifier \X Identifier : ComparePrereleaseIdentifier(p[1], p[2]) = -1}

LEMMA IdentifiersOrdered == Orders(IdentifiersBelow, Identifier)
<1>1. \A a, b \in Identifier : <<a, b>> \in IdentifiersBelow <=> ComparePrereleaseIdentifier(a, b) = -1
  BY DEF IdentifiersBelow
<1>2. ASSUME NEW a \in Identifier, NEW b \in Identifier, a # b
      PROVE  <<a, b>> \in IdentifiersBelow <=> <<b, a>> \notin IdentifiersBelow
  BY <1>1, <1>2, IdentifierTotal
<1>3. ASSUME NEW a \in Identifier PROVE <<a, a>> \notin IdentifiersBelow
  BY <1>1, IdentifierTotal
<1>4. ASSUME NEW a \in Identifier, NEW b \in Identifier, NEW c \in Identifier,
             <<a, b>> \in IdentifiersBelow, <<b, c>> \in IdentifiersBelow
      PROVE  <<a, c>> \in IdentifiersBelow
  BY <1>1, <1>4, IdentifierTransitive
<1> QED BY <1>2, <1>3, <1>4 DEF Orders

LEMMA PrereleaseIs ==
  ASSUME NEW a \in {Release} \cup Seq(Identifier), NEW b \in {Release} \cup Seq(Identifier), a # b
  PROVE  ComparePrerelease(a, b) =
           Sign(IF Release \in {a, b} THEN b = Release ELSE Before(a, b, IdentifiersBelow))
<1>1. CASE Release \in {a, b}
  BY <1>1 DEF ComparePrerelease
<1>2. CASE Release \notin {a, b}
  <2> DEFINE i == FirstDifference(a, b)
  <2>1. a \in Seq(Identifier) /\ b \in Seq(Identifier)
    BY <1>2
  <2>2. DiffersFirst(a, b, i)
    BY <2>1, FirstDifferenceIs
  <2>3. ComparePrerelease(a, b) = IF i > Len(a) \/ i > Len(b) THEN Sign(i > Len(a))
                                  ELSE ComparePrereleaseIdentifier(a[i], b[i])
    BY <1>2 DEF ComparePrerelease
  <2>4. Before(a, b, IdentifiersBelow) <=>
          i > Len(a) \/ (i <= Len(b) /\ <<a[i], b[i]>> \in IdentifiersBelow)
    BY DEF Before
  <2> HIDE DEF i
  <2>5. Len(a) \in Nat /\ Len(b) \in Nat /\ i \in Nat \ {0}
    BY <2>1, <2>2 DEF DiffersFirst
  <2>6. i <= Len(a) /\ i <= Len(b) =>
          /\ a[i] \in Identifier /\ b[i] \in Identifier /\ a[i] # b[i]
    BY <2>1, <2>2, <2>5, ElementOfSeq DEF DiffersFirst
  <2>7. i <= Len(a) /\ i <= Len(b) =>
          ComparePrereleaseIdentifier(a[i], b[i]) = Sign(<<a[i], b[i]>> \in IdentifiersBelow)
    BY <2>6, IdentifierTotal DEF IdentifiersBelow, Sign
  <2> QED BY <1>2, <2>3, <2>4, <2>5, <2>7 DEF Sign
<1> QED BY <1>1, <1>2

LEMMA PrereleaseTotal ==
  ASSUME NEW a \in {Release} \cup Seq(Identifier), NEW b \in {Release} \cup Seq(Identifier)
  PROVE  /\ ComparePrerelease(a, b) \in {-1, 0, 1}
         /\ ComparePrerelease(a, b) = -ComparePrerelease(b, a)
         /\ ComparePrerelease(a, b) = 0 <=> a = b
<1>1. CASE a = b
  <2>1. ComparePrerelease(a, b) = 0 /\ ComparePrerelease(b, a) = 0
    BY <1>1 DEF ComparePrerelease
  <2>2. \A x, y \in Int : x + y = 0 => x = -y
    OBVIOUS
  <2>3. ComparePrerelease(a, b) + ComparePrerelease(b, a) = 0
    BY <2>1
  <2>4. ComparePrerelease(a, b) = -ComparePrerelease(b, a)
    <3>1. ComparePrerelease(a, b) \in Int /\ ComparePrerelease(b, a) \in Int
      BY <2>1
    <3> QED BY <2>2, <2>3, <3>1
  <2> QED BY <1>1, <2>1, <2>4
<1>2. CASE a # b
  <2>1. Release \notin {a, b} => (Before(a, b, IdentifiersBelow) <=> ~Before(b, a, IdentifiersBelow))
    BY <1>2, IdentifiersOrdered, BeforeTotal
  <2>2. ComparePrerelease(a, b) =
           Sign(IF Release \in {a, b} THEN b = Release ELSE Before(a, b, IdentifiersBelow))
    BY <1>2, PrereleaseIs
  <2>3. ComparePrerelease(b, a) =
           Sign(IF Release \in {a, b} THEN a = Release ELSE Before(b, a, IdentifiersBelow))
    BY <1>2, PrereleaseIs
  <2> QED BY <1>2, <2>1, <2>2, <2>3 DEF Sign
<1> QED BY <1>1, <1>2

LEMMA PrereleaseTransitive ==
  ASSUME NEW a \in {Release} \cup Seq(Identifier), NEW b \in {Release} \cup Seq(Identifier),
         NEW c \in {Release} \cup Seq(Identifier),
         ComparePrerelease(a, b) = -1, ComparePrerelease(b, c) = -1
  PROVE  ComparePrerelease(a, c) = -1
<1>1. a # b /\ b # c
  BY DEF ComparePrerelease
<1>2. IF Release \in {a, b} THEN b = Release ELSE Before(a, b, IdentifiersBelow)
  <2>1. Sign(IF Release \in {a, b} THEN b = Release ELSE Before(a, b, IdentifiersBelow)) = -1
    BY <1>1, PrereleaseIs
  <2> QED BY <2>1 DEF Sign
<1>3. IF Release \in {b, c} THEN c = Release ELSE Before(b, c, IdentifiersBelow)
  <2>1. Sign(IF Release \in {b, c} THEN c = Release ELSE Before(b, c, IdentifiersBelow)) = -1
    BY <1>1, PrereleaseIs
  <2> QED BY <2>1 DEF Sign
<1>4. a # Release /\ b # Release
  BY <1>1, <1>2, <1>3
<1>5. CASE c = Release
  BY <1>4, <1>5, PrereleaseIs DEF Sign
<1>6. CASE c # Release
  <2>1. a # c /\ Before(a, c, IdentifiersBelow)
    BY <1>1, <1>2, <1>3, <1>4, <1>6, IdentifiersOrdered, BeforeTransitive
  <2> QED BY <1>4, <1>6, <2>1, PrereleaseIs DEF Sign
<1> QED BY <1>5, <1>6

-----------------------------------------------------------------------------
(* Versions.                                                               *)

LEMMA CompareIs ==
  ASSUME NEW a \in Version, NEW b \in Version, Parses(a), Parses(b)
  PROVE  CompareServiceVersions(a, b) =
           IF a.core # b.core THEN Sign(TextBefore(a.core, b.core))
                              ELSE ComparePrerelease(a.prerelease, b.prerelease)
BY DEF CompareServiceVersions

LEMMA VersionFields ==
  ASSUME NEW a \in Version
  PROVE  a.core \in Seq(Int) /\ a.prerelease \in {Release} \cup Seq(Identifier)
BY SeqMonotonic DEF Version

LEMMA VersionTotal ==
  ASSUME NEW a \in Version, NEW b \in Version, Parses(a), Parses(b)
  PROVE  /\ CompareServiceVersions(a, b) \in {-1, 0, 1}
         /\ CompareServiceVersions(a, b) = -CompareServiceVersions(b, a)
         /\ CompareServiceVersions(a, b) = 0 <=> a = b
<1>1. CASE a.core # b.core
  <2>1. TextBefore(a.core, b.core) <=> ~TextBefore(b.core, a.core)
    BY <1>1, VersionFields, TextTotal
  <2> QED BY <1>1, <2>1, CompareIs DEF Sign
<1>2. CASE a.core = b.core
  <2>1. a = b <=> a.prerelease = b.prerelease
    BY <1>2 DEF Version
  <2>2. /\ ComparePrerelease(a.prerelease, b.prerelease) \in {-1, 0, 1}
        /\ ComparePrerelease(a.prerelease, b.prerelease) = -ComparePrerelease(b.prerelease, a.prerelease)
        /\ ComparePrerelease(a.prerelease, b.prerelease) = 0 <=> a.prerelease = b.prerelease
    BY VersionFields, PrereleaseTotal
  <2>3. /\ CompareServiceVersions(a, b) = ComparePrerelease(a.prerelease, b.prerelease)
        /\ CompareServiceVersions(b, a) = ComparePrerelease(b.prerelease, a.prerelease)
    BY <1>2, CompareIs
  <2> QED BY <2>1, <2>2, <2>3
<1> QED BY <1>1, <1>2

LEMMA VersionTransitive ==
  ASSUME NEW a \in Version, NEW b \in Version, NEW c \in Version, Parses(a), Parses(b), Parses(c),
         CompareServiceVersions(a, b) = -1, CompareServiceVersions(b, c) = -1
  PROVE  CompareServiceVersions(a, c) = -1
<1>1. /\ a.core # b.core => TextBefore(a.core, b.core)
      /\ a.core = b.core => ComparePrerelease(a.prerelease, b.prerelease) = -1
  BY CompareIs DEF Sign
<1>2. /\ b.core # c.core => TextBefore(b.core, c.core)
      /\ b.core = c.core => ComparePrerelease(b.prerelease, c.prerelease) = -1
  BY CompareIs DEF Sign
<1>3. CASE a.core = b.core /\ b.core = c.core
  BY <1>1, <1>2, <1>3, VersionFields, PrereleaseTransitive, CompareIs
<1>4. CASE a.core # b.core \/ b.core # c.core
  <2>1. a.core # c.core /\ TextBefore(a.core, c.core)
    BY <1>1, <1>2, <1>4, VersionFields, TextTransitive
  <2> QED BY <2>1, CompareIs DEF Sign
<1> QED BY <1>3, <1>4

-----------------------------------------------------------------------------
(* Numbers.  The value of digits is the last of the values of their        *)
(* prefixes.                                                               *)

PrefixValues(digits, m, v) == v = [n \in 0..m |-> IF n = 0 THEN 0 ELSE 10 * v[n - 1] + digits[n]]

LEMMA PrefixesExist ==
  ASSUME NEW digits, NEW m \in Nat
  PROVE  \E v : PrefixValues(digits, m, v)
<1> DEFINE S == {k \in Nat : \E v : PrefixValues(digits, k, v)}
<1>1. 0 \in S
  <2> DEFINE v == [n \in 0..0 |-> 0]
  <2>1. v = [n \in 0..0 |-> IF n = 0 THEN 0 ELSE 10 * v[n - 1] + digits[n]]
    OBVIOUS
  <2>2. PrefixValues(digits, 0, v)
    BY <2>1 DEF PrefixValues
  <2> QED BY <2>2
<1>2. ASSUME NEW k \in S PROVE k + 1 \in S
  <2>1. PICK v : PrefixValues(digits, k, v)
    OBVIOUS
  <2> DEFINE w == [n \in 0..(k + 1) |-> IF n = k + 1 THEN 10 * v[k] + digits[k + 1] ELSE v[n]]
  <2>2. \A n \in 0..k : v[n] = IF n = 0 THEN 0 ELSE 10 * v[n - 1] + digits[n]
    BY <2>1 DEF PrefixValues
  <2>3. \A n \in 0..(k + 1) : w[n] = IF n = 0 THEN 0 ELSE 10 * w[n - 1] + digits[n]
    <3>1. ASSUME NEW n \in 0..(k + 1)
          PROVE  w[n] = IF n = 0 THEN 0 ELSE 10 * w[n - 1] + digits[n]
      <4>1. CASE n = k + 1
        <5>1. n # 0 /\ k \in 0..(k + 1) /\ n - 1 = k /\ k # k + 1
          BY <4>1
        <5>2. w[n] = 10 * v[k] + digits[k + 1] /\ w[k] = v[k]
          BY <4>1, <5>1
        <5> QED BY <4>1, <5>1, <5>2
      <4>2. CASE n # k + 1 /\ n # 0
        <5>1. n \in 0..k /\ n - 1 \in 0..(k + 1) /\ n - 1 # k + 1
          BY <4>2
        <5>2. w[n] = v[n] /\ w[n - 1] = v[n - 1]
          BY <4>2, <5>1
        <5> QED BY <2>2, <4>2, <5>1, <5>2
      <4>3. CASE n = 0
        <5>1. w[n] = v[n] /\ n \in 0..k
          BY <4>3
        <5> QED BY <2>2, <4>3, <5>1
      <4> QED BY <4>1, <4>2, <4>3
    <3> QED BY <3>1
  <2>4. w = [n \in 0..(k + 1) |-> w[n]]
    OBVIOUS
  <2> HIDE DEF w
  <2>5. PrefixValues(digits, k + 1, w)
    BY <2>3, <2>4 DEF PrefixValues
  <2> QED BY <2>5
<1> HIDE DEF S
<1>3. S = Nat
  <2>1. S \in SUBSET Nat
    BY DEF S
  <2> QED BY <1>1, <1>2, <2>1, AllNaturals
<1> QED BY <1>3 DEF S

LEMMA ValueIsLast ==
  ASSUME NEW digits \in Seq(0..9)
  PROVE  \E v \in [0..Len(digits) -> Nat] :
           /\ Value(digits) = v[Len(digits)]
           /\ v[0] = 0
           /\ \A n \in Nat : n + 1 <= Len(digits) =>
                /\ v[n] \in Nat /\ v[n + 1] \in Nat /\ digits[n + 1] \in 0..9
                /\ v[n + 1] = 10 * v[n] + digits[n + 1]
<1>1. Len(digits) \in Nat
  OBVIOUS
<1> DEFINE m == Len(digits)
           v == CHOOSE f : PrefixValues(digits, m, f)
<1>2. Value(digits) = v[m]
  BY DEF Value, PrefixValues
<1>3. PrefixValues(digits, m, v)
  BY <1>1, PrefixesExist
<1> HIDE DEF v
<1>4. v[0] = 0 /\ \A n \in 1..m : v[n] = 10 * v[n - 1] + digits[n]
  BY <1>1, <1>3 DEF PrefixValues
<1> DEFINE S == {n \in Nat : n <= m => v[n] \in Nat}
<1>5. 0 \in S
  BY <1>4
<1>6. ASSUME NEW n \in S PROVE n + 1 \in S
  <2>1. CASE n + 1 <= m
    <3>1. v[n + 1] = 10 * v[n] + digits[n + 1] /\ v[n] \in Nat /\ digits[n + 1] \in 0..9
      BY <1>1, <1>4, <2>1, ElementOfSeq
    <3>2. \A k \in Nat, d \in 0..9 : 10 * k + d \in Nat
      OBVIOUS
    <3>3. v[n + 1] \in Nat
      BY <3>1, <3>2, Zenon
    <3>4. n + 1 \in Nat
      OBVIOUS
    <3> QED BY <3>3, <3>4, Zenon
  <2>2. CASE ~(n + 1 <= m)
    BY <2>2
  <2> QED BY <2>1, <2>2
<1> HIDE DEF S
<1>7. S = Nat
  <2>1. S \in SUBSET Nat
    BY DEF S
  <2> QED BY <1>5, <1>6, <2>1, AllNaturals
<1>8. \A n \in 0..m : v[n] \in Nat
  BY <1>1, <1>7 DEF S
<1>9. v \in [0..m -> Nat]
  BY <1>3, <1>8 DEF PrefixValues
<1>10. ASSUME NEW n \in Nat, n + 1 <= m
       PROVE  /\ v[n] \in Nat /\ v[n + 1] \in Nat /\ digits[n + 1] \in 0..9
              /\ v[n + 1] = 10 * v[n] + digits[n + 1]
  <2>1. n \in 0..m /\ n + 1 \in 1..m /\ n + 1 \in 0..m /\ n + 1 - 1 = n
    BY <1>1, <1>10
  <2> QED BY <1>4, <1>8, <2>1, ElementOfSeq
<1> QED BY <1>2, <1>4, <1>9, <1>10

LEMMA AnotherDigit ==
  /\ \A x, y \in Nat, c, d \in 0..9 : x < y => 10 * x + c < 10 * y + d
  /\ \A x \in Nat, c, d \in 0..9 : c < d => 10 * x + c < 10 * x + d
  /\ \A x \in Nat, c \in 0..9 : x >= 1 \/ c # 0 => 10 * x + c >= 1
OBVIOUS

\* Of two numbers without leading zeros, the longer one is greater.
LEMMA LongerIsGreater ==
  ASSUME NEW a \in Seq(0..9), NEW b \in Seq(0..9), Len(a) # 0, Len(a) < Len(b), b[1] # 0
  PROVE  Value(a) < Value(b)
<1>0. Len(a) \in Nat \ {0} /\ Len(b) \in Nat
  OBVIOUS
<1>1. PICK v \in [0..Len(a) -> Nat] :
        /\ Value(a) = v[Len(a)]
        /\ v[0] = 0
        /\ \A n \in Nat : n + 1 <= Len(a) =>
             v[n] \in Nat /\ v[n + 1] \in Nat /\ a[n + 1] \in 0..9 /\ v[n + 1] = 10 * v[n] + a[n + 1]
  BY ValueIsLast
<1>2. PICK w \in [0..Len(b) -> Nat] :
        /\ Value(b) = w[Len(b)]
        /\ w[0] = 0
        /\ \A n \in Nat : n + 1 <= Len(b) =>
             w[n] \in Nat /\ w[n + 1] \in Nat /\ b[n + 1] \in 0..9 /\ w[n + 1] = 10 * w[n] + b[n + 1]
  BY ValueIsLast
<1>3. w[1] >= 1
  <2>1. b[0 + 1] \in 0..9 /\ b[0 + 1] # 0 /\ w[0 + 1] = 10 * w[0] + b[0 + 1]
    BY <1>0, <1>2
  <2> QED BY <1>2, <2>1
<1>4. ASSUME NEW n \in Nat, n + 1 <= Len(b) => w[n + 1] >= 1, n + 2 <= Len(b)
      PROVE  w[n + 2] >= 1
  <2>1. n + 1 \in Nat /\ n + 1 <= Len(b) /\ n + 1 + 1 <= Len(b) /\ n + 1 + 1 = n + 2
    BY <1>0, <1>4
  <2>2. w[n + 1] \in Nat /\ b[n + 2] \in 0..9 /\ w[n + 2] = 10 * w[n + 1] + b[n + 2]
    BY <1>2, <2>1
  <2> QED BY <1>4, <2>1, <2>2, AnotherDigit
<1>5. \A n \in Nat : n + 1 <= Len(b) => w[n + 1] >= 1
  <2> DEFINE S == {n \in Nat : n + 1 <= Len(b) => w[n + 1] >= 1}
  <2>1. 0 \in S
    BY <1>3
  <2>2. ASSUME NEW n \in S PROVE n + 1 \in S
    <3>1. n + 1 + 1 = n + 2
      OBVIOUS
    <3>2. n + 2 <= Len(b) => w[n + 2] >= 1
      BY <1>4
    <3> QED BY <3>1, <3>2
  <2>3. S \in SUBSET Nat
    OBVIOUS
  <2>4. S = Nat
    <3> HIDE DEF S
    <3> QED BY <2>1, <2>2, <2>3, AllNaturals
  <2> QED BY <2>4
<1> DEFINE k == Len(b) - Len(a)
<1>6. k \in Nat \ {0} /\ k <= Len(b) /\ Len(a) + k = Len(b)
  BY <1>0
<1> HIDE DEF k
<1>7. v[0] < w[0 + k]
  <2>1. k - 1 \in Nat /\ k - 1 + 1 = k /\ 0 + k = k
    BY <1>6
  <2>2. w[k] >= 1 /\ w[k] \in Nat
    BY <1>2, <1>5, <1>6, <2>1
  <2> QED BY <1>1, <2>1, <2>2
<1>8. ASSUME NEW n \in Nat, n <= Len(a) => v[n] < w[n + k], n + 1 <= Len(a)
      PROVE  v[n + 1] < w[n + 1 + k]
  <2>1. n + k \in Nat /\ n <= Len(a) /\ n + k + 1 <= Len(b) /\ n + k + 1 = n + 1 + k
    BY <1>0, <1>6, <1>8
  <2>2. v[n] \in Nat /\ a[n + 1] \in 0..9 /\ v[n + 1] = 10 * v[n] + a[n + 1]
    BY <1>1, <1>8
  <2>3. w[n + k] \in Nat /\ b[n + k + 1] \in 0..9 /\ w[n + k + 1] = 10 * w[n + k] + b[n + k + 1]
    BY <1>2, <2>1
  <2>4. v[n + 1] < w[n + k + 1]
    BY <1>8, <2>1, <2>2, <2>3, AnotherDigit
  <2> QED BY <2>1, <2>4
<1>9. \A n \in Nat : n <= Len(a) => v[n] < w[n + k]
  <2> DEFINE S == {n \in Nat : n <= Len(a) => v[n] < w[n + k]}
  <2>1. 0 \in S
    BY <1>7
  <2>2. ASSUME NEW n \in S PROVE n + 1 \in S
    <3>1. n \in Nat /\ (n <= Len(a) => v[n] < w[n + k])
      OBVIOUS
    <3>2. n + 1 <= Len(a) => v[n + 1] < w[n + 1 + k]
      BY <1>8, <3>1
    <3>3. n + 1 \in Nat
      BY <3>1
    <3> QED BY <3>2, <3>3
  <2>3. S \in SUBSET Nat
    OBVIOUS
  <2>4. S = Nat
    <3> HIDE DEF S
    <3> QED BY <2>1, <2>2, <2>3, AllNaturals
  <2> QED BY <2>4
<1>10. v[Len(a)] < w[Len(a) + k]
  BY <1>0, <1>9
<1> QED BY <1>1, <1>2, <1>6, <1>10

\* Of two numbers of one length, that with the greater digit first is greater.
LEMMA FirstDigitDecides ==
  ASSUME NEW a \in Seq(0..9), NEW b \in Seq(0..9), Len(a) = Len(b), NEW i,
         DiffersFirst(a, b, i), a[i] < b[i]
  PROVE  Value(a) < Value(b)
<1>0. Len(a) \in Nat /\ i \in Nat \ {0} /\ i <= Len(a) /\ \A n \in 1..(i - 1) : a[n] = b[n]
  BY DEF DiffersFirst
<1>1. PICK v \in [0..Len(a) -> Nat] :
        /\ Value(a) = v[Len(a)]
        /\ v[0] = 0
        /\ \A n \in Nat : n + 1 <= Len(a) =>
             v[n] \in Nat /\ v[n + 1] \in Nat /\ a[n + 1] \in 0..9 /\ v[n + 1] = 10 * v[n] + a[n + 1]
  BY ValueIsLast
<1>2. PICK w \in [0..Len(b) -> Nat] :
        /\ Value(b) = w[Len(b)]
        /\ w[0] = 0
        /\ \A n \in Nat : n + 1 <= Len(b) =>
             w[n] \in Nat /\ w[n + 1] \in Nat /\ b[n + 1] \in 0..9 /\ w[n + 1] = 10 * w[n] + b[n + 1]
  BY ValueIsLast
<1> DEFINE P(n) == IF n < i THEN v[n] = w[n] ELSE v[n] < w[n]
<1>3. P(0)
  BY <1>0, <1>1, <1>2
<1>4. ASSUME NEW n \in Nat, n <= Len(a) => P(n), n + 1 <= Len(a)
      PROVE  P(n + 1)
  <2>1. n <= Len(a) /\ P(n)
    BY <1>0, <1>4
  <2>2. v[n] \in Nat /\ a[n + 1] \in 0..9 /\ v[n + 1] = 10 * v[n] + a[n + 1]
    BY <1>1, <1>4
  <2>3. w[n] \in Nat /\ b[n + 1] \in 0..9 /\ w[n + 1] = 10 * w[n] + b[n + 1]
    BY <1>2, <1>4
  <2>4. CASE n + 1 < i
    <3>1. n < i /\ n + 1 \in 1..(i - 1)
      BY <1>0, <2>4
    <3>2. a[n + 1] = b[n + 1] /\ v[n] = w[n]
      BY <1>0, <2>1, <3>1
    <3> QED BY <2>2, <2>3, <2>4, <3>2
  <2>5. CASE n + 1 = i
    <3>1. n < i /\ ~(n + 1 < i) /\ a[n + 1] < b[n + 1]
      BY <1>0, <2>5
    <3>2. v[n] = w[n]
      BY <2>1, <3>1
    <3>3. v[n + 1] < w[n + 1]
      BY <2>2, <2>3, <3>1, <3>2, AnotherDigit
    <3> QED BY <3>1, <3>3
  <2>6. CASE n + 1 > i
    <3>1. ~(n < i) /\ ~(n + 1 < i)
      BY <1>0, <2>6
    <3>2. v[n + 1] < w[n + 1]
      BY <2>1, <2>2, <2>3, <3>1, AnotherDigit
    <3> QED BY <3>1, <3>2
  <2> QED BY <1>0, <2>4, <2>5, <2>6
<1> HIDE DEF P
<1>5. \A n \in Nat : n <= Len(a) => P(n)
  <2> DEFINE S == {n \in Nat : n <= Len(a) => P(n)}
  <2>1. 0 \in S
    BY <1>3
  <2>2. ASSUME NEW n \in S PROVE n + 1 \in S
    BY <1>4
  <2>3. S \in SUBSET Nat
    OBVIOUS
  <2>4. S = Nat
    <3> HIDE DEF S
    <3> QED BY <2>1, <2>2, <2>3, AllNaturals
  <2> QED BY <2>4
<1>6. P(Len(a)) /\ ~(Len(a) < i)
  BY <1>0, <1>5
<1> QED BY <1>1, <1>2, <1>6 DEF P

LEMMA NumbersAreDigits ==
  ASSUME NEW x \in Identifier, IsNumeric(x)
  PROVE  x \in Seq(0..9) /\ Len(x) \in Nat \ {0}
<1>1. x \in Seq(Int) /\ x # <<>>
  BY DEF Identifier
<1>2. Len(x) \in Nat \ {0} /\ DOMAIN x = 1..Len(x) /\ x = [i \in 1..Len(x) |-> x[i]]
  BY <1>1
<1>3. \A i \in 1..Len(x) : x[i] \in 0..9
  BY <1>2, VersionAssumption DEF IsNumeric, OnlyDigits
<1>4. x \in [1..Len(x) -> 0..9]
  BY <1>2, <1>3
<1> QED BY <1>2, <1>4, SeqDef

LEMMA NumbersByValue ==
  ASSUME NEW a \in Identifier, NEW b \in Identifier, IsNumeric(a), IsNumeric(b), a # b,
         ComparePrereleaseIdentifier(a, b) = -1
  PROVE  Value(a) < Value(b)
<1>1. /\ a \in Seq(0..9) /\ b \in Seq(0..9)
      /\ Len(a) \in Nat \ {0} /\ Len(b) \in Nat \ {0}
  BY NumbersAreDigits
<1>2. CASE Len(a) # Len(b)
  <2>1. Len(a) < Len(b)
    BY <1>2 DEF ComparePrereleaseIdentifier, Sign
  <2>2. b[1] # 0
    BY <1>1, <2>1 DEF IsNumeric
  <2> QED BY <1>1, <2>1, <2>2, LongerIsGreater
<1>3. CASE Len(a) = Len(b)
  <2> DEFINE i == FirstDifference(a, b)
  <2>1. TextBefore(a, b)
    BY <1>3 DEF ComparePrereleaseIdentifier, Sign
  <2>2. i > Len(a) \/ (i <= Len(b) /\ a[i] < b[i])
    BY <2>1 DEF TextBefore
  <2>3. DiffersFirst(a, b, i)
    BY <1>1, FirstDifferenceIs
  <2> HIDE DEF i
  <2>4. a[i] < b[i]
    BY <1>1, <1>3, <2>2, <2>3 DEF DiffersFirst
  <2> QED BY <1>1, <1>3, <2>3, <2>4, FirstDigitDecides
<1> QED BY <1>2, <1>3

\* Two different identifiers compare as semantic versioning orders them.
LEMMA IdentifierBelowIs ==
  ASSUME NEW a \in Identifier, NEW b \in Identifier, a # b
  PROVE  ComparePrereleaseIdentifier(a, b) = -1 <=> IdentifierBelow(a, b)
<1>0. IsNumeric(a) \in BOOLEAN /\ IsNumeric(b) \in BOOLEAN
  BY DEF IsNumeric
<1>1. CASE IsNumeric(a) /\ IsNumeric(b)
  <2>1. ComparePrereleaseIdentifier(a, b) = -1 => Value(a) < Value(b)
    BY <1>1, NumbersByValue
  <2>2. ComparePrereleaseIdentifier(a, b) # -1 => Value(b) < Value(a)
    <3>1. ComparePrereleaseIdentifier(a, b) # -1 => ComparePrereleaseIdentifier(b, a) = -1
      BY IdentifierTotal
    <3> QED BY <1>1, <3>1, NumbersByValue
  <2>3. Value(a) \in Nat /\ Value(b) \in Nat
    BY <1>1, NumbersAreDigits, ValueIsLast
  <2> QED BY <1>1, <2>1, <2>2, <2>3 DEF IdentifierBelow
<1>2. CASE ~(IsNumeric(a) /\ IsNumeric(b))
  BY <1>0, <1>2 DEF IdentifierBelow, ComparePrereleaseIdentifier, Sign
<1> QED BY <1>1, <1>2

LEMMA OneIdentifierEach ==
  ASSUME NEW a \in Version, NEW b \in Version, Parses(a), Parses(b), a # b, a.core = b.core,
         Release \notin {a.prerelease, b.prerelease},
         Len(a.prerelease) = 1, Len(b.prerelease) = 1
  PROVE  CompareServiceVersions(a, b) = -1 <=> IdentifierBelow(a.prerelease[1], b.prerelease[1])
<1> DEFINE x == a.prerelease
           y == b.prerelease
<1>1. x \in Seq(Identifier) /\ y \in Seq(Identifier) /\ x # y
  BY DEF Version
<1>2. CompareServiceVersions(a, b) = ComparePrerelease(x, y)
  BY CompareIs
<1> HIDE DEF x, y
<1>3. Len(x) = 1 /\ Len(y) = 1 /\ Release \notin {x, y}
  BY DEF x, y
<1>4. x[1] \in Identifier /\ y[1] \in Identifier
  BY <1>1, <1>3, ElementOfSeq
<1>5. DiffersFirst(x, y, FirstDifference(x, y))
  BY <1>1, FirstDifferenceIs
<1>6. FirstDifference(x, y) = 1
  <2> HIDE DEF FirstDifference
  <2>1. FirstDifference(x, y) \in Nat \ {0} /\ FirstDifference(x, y) <= 1
    BY <1>3, <1>5 DEF DiffersFirst
  <2> QED BY <2>1
<1>7. x[1] # y[1]
  BY <1>3, <1>5, <1>6 DEF DiffersFirst
<1>8. ComparePrerelease(x, y) = ComparePrereleaseIdentifier(x[1], y[1])
  BY <1>1, <1>3, <1>6 DEF ComparePrerelease
<1>9. ComparePrereleaseIdentifier(x[1], y[1]) = -1 <=> IdentifierBelow(x[1], y[1])
  BY <1>4, <1>7, IdentifierBelowIs
<1> QED BY <1>2, <1>8, <1>9 DEF x, y

\* The versions that parse are in one total order, whatever the candidates are:
\* compareServiceVersions is antisymmetric, transitive and 0 for equal versions
\* only, puts a pre-release below its release, and orders numeric identifiers by
\* their value although it never computes one.
THEOREM VersionsAreOrdered == VersionInit => VersionOrder
<1> SUFFICES ASSUME left \in Candidates, right \in Candidates PROVE VersionOrder
  BY DEF VersionInit
<1> DEFINE order == CompareServiceVersions(left, right)
<1>1. \A v \in Candidates : v \in Version
  BY VersionAssumption
<1>2. \A a, b \in Candidates :
        CompareServiceVersions(a, b) = Incomparable <=> ~Parses(a) \/ ~Parses(b)
  <2>1. ASSUME NEW a \in Candidates, NEW b \in Candidates, Parses(a), Parses(b)
        PROVE  CompareServiceVersions(a, b) # Incomparable
    <3>1. CompareServiceVersions(a, b) \in {-1, 0, 1}
      BY <1>1, <2>1, VersionTotal
    <3> QED BY <3>1, VersionAssumption
  <2>2. ASSUME NEW a \in Candidates, NEW b \in Candidates, ~Parses(a) \/ ~Parses(b)
        PROVE  CompareServiceVersions(a, b) = Incomparable
    BY <2>2 DEF CompareServiceVersions
  <2> QED BY <2>1, <2>2
<1>3. ASSUME order # Incomparable
      PROVE  order = -CompareServiceVersions(right, left) /\ (order = 0 <=> left = right)
  <2>1. Parses(left) /\ Parses(right)
    BY <1>2, <1>3
  <2> QED BY <1>1, <2>1, VersionTotal
<1>4. ASSUME order # Incomparable, left.core = right.core, left.prerelease = Release
      PROVE  order \in {0, 1}
  <2>1. Parses(left) /\ Parses(right)
    BY <1>2, <1>4
  <2>2. order = ComparePrerelease(left.prerelease, right.prerelease)
    BY <1>1, <1>4, <2>1, CompareIs
  <2> QED BY <1>4, <2>2 DEF ComparePrerelease, Sign
<1>5. ASSUME NEW middle \in Candidates,
             CompareServiceVersions(left, middle) \in {-1, 0},
             CompareServiceVersions(middle, right) \in {-1, 0}
      PROVE  order \in {-1, 0}
  <2>1. Parses(left) /\ Parses(middle) /\ Parses(right)
    <3>1. -1 # Incomparable /\ 0 # Incomparable
      BY VersionAssumption
    <3> QED BY <1>2, <1>5, <3>1
  <2>2. left \in Version /\ middle \in Version /\ right \in Version
    BY <1>1
  <2>3. CASE left = middle
    BY <1>5, <2>3
  <2>4. CASE middle = right
    BY <1>5, <2>4
  <2>5. CASE left # middle /\ middle # right
    <3>1. CompareServiceVersions(left, middle) = -1 /\ CompareServiceVersions(middle, right) = -1
      BY <1>5, <2>1, <2>2, <2>5, VersionTotal
    <3> QED BY <2>1, <2>2, <3>1, VersionTransitive
  <2> QED BY <2>3, <2>4, <2>5
<1>6. ASSUME order # Incomparable, left.core = right.core,
             Release \notin {left.prerelease, right.prerelease},
             Len(left.prerelease) = 1, Len(right.prerelease) = 1, left # right
      PROVE  order = -1 <=> IdentifierBelow(left.prerelease[1], right.prerelease[1])
  <2>1. Parses(left) /\ Parses(right)
    BY <1>2, <1>6
  <2> QED BY <1>1, <1>6, <2>1, OneIdentifierEach
<1>7. order = Incomparable <=> ~Parses(left) \/ ~Parses(right)
  BY <1>2
<1> QED BY <1>3, <1>4, <1>5, <1>6, <1>7 DEF VersionOrder

-----------------------------------------------------------------------------
(* Sequences.                                                              *)

\* The flattened prefixes of seqs, up to the m-th.
Flattened(seqs, m, f) == f = [i \in 1..m |-> IF i = 1 THEN seqs[i] ELSE f[i - 1] \o seqs[i]]

LEMMA FlattenedExist ==
  ASSUME NEW seqs, NEW m \in Nat
  PROVE  \E f : Flattened(seqs, m, f)
<1> DEFINE S == {k \in Nat : \E f : Flattened(seqs, k, f)}
<1>1. 0 \in S
  <2> DEFINE f == [i \in 1..0 |-> 0]
  <2>1. f = [i \in 1..0 |-> IF i = 1 THEN seqs[i] ELSE f[i - 1] \o seqs[i]]
    OBVIOUS
  <2>2. Flattened(seqs, 0, f)
    BY <2>1 DEF Flattened
  <2> QED BY <2>2
<1>2. ASSUME NEW k \in S PROVE k + 1 \in S
  <2>1. PICK f : Flattened(seqs, k, f)
    OBVIOUS
  <2> DEFINE last == IF k = 0 THEN seqs[1] ELSE f[k] \o seqs[k + 1]
             g == [i \in 1..(k + 1) |-> IF i = k + 1 THEN last ELSE f[i]]
  <2>2. \A i \in 1..k : f[i] = IF i = 1 THEN seqs[i] ELSE f[i - 1] \o seqs[i]
    BY <2>1 DEF Flattened
  <2>3. ASSUME NEW i \in 1..(k + 1)
        PROVE  g[i] = IF i = 1 THEN seqs[i] ELSE g[i - 1] \o seqs[i]
    <3>1. CASE i = k + 1 /\ k = 0
      BY <3>1
    <3>2. CASE i = k + 1 /\ k # 0
      <4>1. i # 1 /\ k \in 1..(k + 1) /\ i - 1 = k /\ k # k + 1
        BY <3>2
      <4>2. g[i] = last /\ g[k] = f[k]
        BY <3>2, <4>1
      <4> QED BY <3>2, <4>1, <4>2
    <3>3. CASE i # k + 1 /\ i # 1
      <4>1. i \in 1..k /\ i - 1 \in 1..(k + 1) /\ i - 1 # k + 1
        BY <3>3
      <4>2. g[i] = f[i] /\ g[i - 1] = f[i - 1]
        BY <3>3, <4>1
      <4> QED BY <2>2, <3>3, <4>1, <4>2
    <3>4. CASE i # k + 1 /\ i = 1
      <4>1. g[i] = f[i] /\ i \in 1..k
        BY <3>4
      <4> QED BY <2>2, <3>4, <4>1
    <3> QED BY <3>1, <3>2, <3>3, <3>4
  <2>4. g = [i \in 1..(k + 1) |-> g[i]]
    OBVIOUS
  <2> HIDE DEF g
  <2>5. Flattened(seqs, k + 1, g)
    BY <2>3, <2>4 DEF Flattened
  <2> QED BY <2>5
<1> HIDE DEF S
<1>3. S = Nat
  <2>1. S \in SUBSET Nat
    BY DEF S
  <2> QED BY <1>1, <1>2, <2>1, AllNaturals
<1> QED BY <1>3 DEF S

\* What is flattened has the elements of its parts.
LEMMA FlattenFits ==
  ASSUME NEW S, NEW seqs \in Seq(Seq(S))
  PROVE  FlattenSeq(seqs) \in Seq(S)
<1>1. Len(seqs) \in Nat
  OBVIOUS
<1>2. CASE Len(seqs) = 0
  <2>1. FlattenSeq(seqs) = seqs
    BY <1>2 DEF FlattenSeq
  <2>2. seqs = <<>>
    BY <1>2
  <2>3. <<>> \in Seq(S)
    OBVIOUS
  <2> QED BY <2>1, <2>2, <2>3
<1>3. CASE Len(seqs) # 0
  <2> DEFINE m == Len(seqs)
             f == CHOOSE g : Flattened(seqs, m, g)
  <2>1. FlattenSeq(seqs) = f[m]
    BY <1>3 DEF FlattenSeq, Flattened
  <2>2. Flattened(seqs, m, f)
    BY <1>1, FlattenedExist
  <2> HIDE DEF f
  <2>3. \A i \in 1..m : f[i] = IF i = 1 THEN seqs[i] ELSE f[i - 1] \o seqs[i]
    BY <2>2 DEF Flattened
  <2>4. \A i \in 1..m : seqs[i] \in Seq(S)
    BY ElementOfSeq
  <2>5. \A k \in Nat : (k + 1 <= m => f[k + 1] \in Seq(S)) /\ k + 2 <= m => f[k + 2] \in Seq(S)
    <3>1. \A i \in 1..m : i # 1 /\ f[i - 1] \in Seq(S) => f[i] \in Seq(S)
      <4>1. ASSUME NEW i \in 1..m, i # 1, f[i - 1] \in Seq(S) PROVE f[i] \in Seq(S)
        <5>1. f[i] = f[i - 1] \o seqs[i]
          BY <2>3, <4>1
        <5> QED BY <2>4, <4>1, <5>1
      <4> QED BY <4>1
    <3> HIDE DEF m
    <3>2. m \in Nat
      BY <1>1 DEF m
    <3>3. ASSUME NEW k \in Nat, k + 1 <= m => f[k + 1] \in Seq(S), k + 2 <= m
          PROVE  f[k + 2] \in Seq(S)
      <4>1. k + 2 \in 1..m /\ k + 2 # 1 /\ k + 2 - 1 = k + 1 /\ k + 1 <= m
        BY <3>2, <3>3
      <4> QED BY <3>1, <3>3, <4>1
    <3> QED BY <3>3
  <2>6. 1 <= m => f[1] \in Seq(S)
    BY <1>1, <2>3, <2>4
  <2> HIDE DEF m
  <2> DEFINE N == {k \in Nat : k + 1 <= m => f[k + 1] \in Seq(S)}
  <2>7. N = Nat
    <3>1. 0 \in N
      BY <2>6
    <3>2. ASSUME NEW k \in N PROVE k + 1 \in N
      <4>1. k \in Nat /\ (k + 2 <= m => f[k + 2] \in Seq(S))
        BY <2>5
      <4>2. k + 1 + 1 = k + 2
        OBVIOUS
      <4> QED BY <4>1, <4>2
    <3>3. N \in SUBSET Nat
      OBVIOUS
    <3> HIDE DEF N
    <3> QED BY <3>1, <3>2, <3>3, AllNaturals
  <2>8. \A k \in Nat : k + 1 <= m => f[k + 1] \in Seq(S)
    BY <2>7
  <2>9. m - 1 \in Nat /\ m - 1 + 1 = m
    BY <1>1, <1>3 DEF m
  <2>10. f[m] \in Seq(S)
    BY <2>8, <2>9
  <2> QED BY <2>1, <2>10
<1> QED BY <1>2, <1>3

\* Sequences of a given length from given elements.
LEMMA SeqFits ==
  ASSUME NEW S, NEW s, NEW n \in Nat, s = [i \in 1..n |-> s[i]], \A i \in 1..n : s[i] \in S
  PROVE  s \in Seq(S)
<1>1. s \in [1..n -> S]
  OBVIOUS
<1> QED BY <1>1, SeqDef

\* One sequence behind the other.
LEMMA ConcatFits ==
  ASSUME NEW S, NEW a \in Seq(S), NEW b \in Seq(S)
  PROVE  a \o b \in Seq(S)
OBVIOUS

LEMMA ReverseFits ==
  ASSUME NEW S, NEW s \in Seq(S)
  PROVE  Reverse(s) \in Seq(S)
<1>1. Len(s) \in Nat /\ \A i \in 1..Len(s) : Len(s) - i + 1 \in 1..Len(s)
  OBVIOUS
<1>2. \A i \in 1..Len(s) : s[(Len(s) - i) + 1] \in S
  BY <1>1, ElementOfSeq
<1>3. Reverse(s) = [i \in 1..Len(s) |-> Reverse(s)[i]]
      /\ \A i \in 1..Len(s) : Reverse(s)[i] \in S
  BY <1>2 DEF Reverse
<1> QED BY <1>1, <1>3, SeqFits

LEMMA FrontFits ==
  ASSUME NEW S, NEW s \in Seq(S)
  PROVE  Front(s) \in Seq(S)
<1>1. Len(s) \in Nat /\ Len(s) - 1 \in Int /\ 1 \in Int
  OBVIOUS
<1>2. \A i \in 1..(Len(s) - 1) : s[i] \in S
  BY <1>1, ElementOfSeq
<1> QED BY <1>1, <1>2, SubSeqProperties DEF Front

\* Of the elements of s, those outside B come after one of G.
Guarded(s, B, G) == \A i \in 1..Len(s) : s[i] \in B \/ \E j \in 1..(i - 1) : s[j] \in G

Has(s, G) == \E j \in 1..Len(s) : s[j] \in G

LEMMA GuardedByNone ==
  ASSUME NEW B, NEW s \in Seq(B), NEW G
  PROVE  Guarded(s, B, G)
BY ElementOfSeq DEF Guarded

LEMMA GuardedConcat ==
  ASSUME NEW S, NEW B, NEW G, NEW s \in Seq(S), NEW u \in Seq(S), Guarded(s, B, G),
         Has(s, G) \/ Guarded(u, B, G)
  PROVE  Guarded(s \o u, B, G)
<1>1. Len(s) \in Nat /\ Len(u) \in Nat /\ Len(s \o u) = Len(s) + Len(u)
  BY ConcatProperties
<1>2. \A i \in 1..Len(s \o u) : (s \o u)[i] = IF i <= Len(s) THEN s[i] ELSE u[i - Len(s)]
  BY ConcatProperties
<1> SUFFICES ASSUME NEW i \in 1..Len(s \o u), (s \o u)[i] \notin B
             PROVE  \E j \in 1..(i - 1) : (s \o u)[j] \in G
  BY DEF Guarded
<1>3. CASE i <= Len(s)
  <2>1. i \in 1..Len(s) /\ s[i] \notin B
    BY <1>1, <1>2, <1>3
  <2>2. PICK j \in 1..(i - 1) : s[j] \in G
    BY <2>1 DEF Guarded
  <2>3. j \in 1..Len(s \o u) /\ j <= Len(s)
    BY <1>1, <1>3, <2>2
  <2> QED BY <1>2, <2>2, <2>3
<1>4. CASE i > Len(s) /\ Has(s, G)
  <2>1. PICK j \in 1..Len(s) : s[j] \in G
    BY <1>4 DEF Has
  <2>2. j \in 1..Len(s \o u) /\ j <= Len(s) /\ j \in 1..(i - 1)
    BY <1>1, <1>4, <2>1
  <2> QED BY <1>2, <2>1, <2>2
<1>5. CASE i > Len(s) /\ Guarded(u, B, G)
  <2>1. i - Len(s) \in 1..Len(u) /\ u[i - Len(s)] \notin B
    BY <1>1, <1>2, <1>5
  <2>2. PICK j \in 1..(i - Len(s) - 1) : u[j] \in G
    BY <1>5, <2>1 DEF Guarded
  <2>3. j + Len(s) \in 1..(i - 1) /\ j + Len(s) \in 1..Len(s \o u)
        /\ ~(j + Len(s) <= Len(s)) /\ j + Len(s) - Len(s) = j
    BY <1>1, <1>5, <2>1, <2>2
  <2>4. (s \o u)[j + Len(s)] = u[j]
    BY <1>2, <2>3
  <2> QED BY <2>2, <2>3, <2>4
<1> QED BY <1>1, <1>3, <1>4, <1>5

LEMMA HasConcat ==
  ASSUME NEW S, NEW G, NEW s \in Seq(S), NEW u \in Seq(S), Has(s, G) \/ Has(u, G)
  PROVE  Has(s \o u, G)
<1>1. Len(s) \in Nat /\ Len(u) \in Nat /\ Len(s \o u) = Len(s) + Len(u)
  BY ConcatProperties
<1>2. \A i \in 1..Len(s \o u) : (s \o u)[i] = IF i <= Len(s) THEN s[i] ELSE u[i - Len(s)]
  BY ConcatProperties
<1>3. CASE Has(s, G)
  <2>1. PICK j \in 1..Len(s) : s[j] \in G
    BY <1>3 DEF Has
  <2>2. j \in 1..Len(s \o u) /\ (s \o u)[j] = s[j]
    BY <1>1, <1>2
  <2> QED BY <2>1, <2>2 DEF Has
<1>4. CASE Has(u, G)
  <2>1. PICK j \in 1..Len(u) : u[j] \in G
    BY <1>4 DEF Has
  <2>2. j + Len(s) \in 1..Len(s \o u) /\ ~(j + Len(s) <= Len(s)) /\ j + Len(s) - Len(s) = j
    BY <1>1
  <2>3. (s \o u)[j + Len(s)] = u[j]
    BY <1>2, <2>2
  <2> QED BY <2>1, <2>2, <2>3 DEF Has
<1> QED BY <1>3, <1>4

\* The first element is not guarded, and if it does not guard, the rest is.
LEMMA GuardedTail ==
  ASSUME NEW S, NEW B, NEW G, NEW s \in Seq(S), s # <<>>, Guarded(s, B, G)
  PROVE  /\ Head(s) \in B
         /\ Head(s) \notin G => Guarded(Tail(s), B, G)
<1>1. Len(s) \in Nat \ {0} /\ Head(s) = s[1]
  OBVIOUS
<1>2. Len(Tail(s)) = Len(s) - 1 /\ \A i \in 1..Len(Tail(s)) : Tail(s)[i] = s[i + 1]
  BY HeadTailProperties
<1>3. Head(s) \in B
  BY <1>1 DEF Guarded
<1>4. ASSUME Head(s) \notin G, NEW i \in 1..Len(Tail(s)), Tail(s)[i] \notin B
      PROVE  \E j \in 1..(i - 1) : Tail(s)[j] \in G
  <2>1. i + 1 \in 1..Len(s) /\ s[i + 1] \notin B
    BY <1>1, <1>2, <1>4
  <2>2. PICK j \in 1..(i + 1 - 1) : s[j] \in G
    BY <2>1 DEF Guarded
  <2>3. j # 1
    BY <1>1, <1>4, <2>2
  <2>4. j - 1 \in 1..(i - 1) /\ j - 1 \in 1..Len(Tail(s)) /\ j - 1 + 1 = j
    BY <1>1, <1>2, <1>4, <2>2, <2>3
  <2> QED BY <1>2, <2>2, <2>4
<1> QED BY <1>3, <1>4 DEF Guarded

\* What is flattened, prefix by prefix.
LEMMA FlattenSteps ==
  ASSUME NEW S, NEW seqs \in Seq(Seq(S)), NEW n \in Nat, n = Len(seqs), n # 0, NEW X,
         seqs[1] \in X[1], \A i \in 2..n : \A a \in X[i - 1] : a \o seqs[i] \in X[i]
  PROVE  FlattenSeq(seqs) \in X[n]
<1> DEFINE f == CHOOSE g : Flattened(seqs, n, g)
<1>1. FlattenSeq(seqs) = f[n]
  BY DEF FlattenSeq, Flattened
<1>2. Flattened(seqs, n, f)
  BY FlattenedExist
<1> HIDE DEF f
<1>3. \A i \in 1..n : f[i] = IF i = 1 THEN seqs[i] ELSE f[i - 1] \o seqs[i]
  BY <1>2 DEF Flattened
<1>4. f[1] \in X[1]
  BY <1>3
<1>5. ASSUME NEW i \in 2..n, f[i - 1] \in X[i - 1] PROVE f[i] \in X[i]
  <2>1. i \in 1..n /\ i # 1
    OBVIOUS
  <2>2. f[i] = f[i - 1] \o seqs[i]
    BY <1>3, <2>1
  <2> QED BY <1>5, <2>2
<1> DEFINE N == {k \in Nat : k + 1 <= n => f[k + 1] \in X[k + 1]}
<1>6. 0 \in N
  BY <1>4
<1>7. ASSUME NEW k \in N PROVE k + 1 \in N
  <2>1. k \in Nat /\ k + 1 + 1 - 1 = k + 1
    OBVIOUS
  <2>2. ASSUME k + 1 + 1 <= n PROVE f[k + 1 + 1] \in X[k + 1 + 1]
    <3>1. k + 1 + 1 \in 2..n /\ f[k + 1] \in X[k + 1]
      BY <2>2
    <3>2. f[k + 1 + 1 - 1] \in X[k + 1 + 1 - 1]
      BY <2>1, <3>1
    <3> QED BY <1>5, <3>1, <3>2
  <2> QED BY <2>1, <2>2
<1>8. N \in SUBSET Nat
  OBVIOUS
<1> HIDE DEF N
<1>9. N = Nat
  BY <1>6, <1>7, <1>8, AllNaturals
<1>10. n - 1 \in N /\ n - 1 + 1 = n
  BY <1>9
<1>11. \A k \in N : k + 1 <= n => f[k + 1] \in X[k + 1]
  BY DEF N
<1>12. f[n] \in X[n]
  BY <1>10, <1>11
<1> QED BY <1>1, <1>12

\* Parts that are each guarded are guarded one behind the other.
LEMMA PartsGuarded ==
  ASSUME NEW S, NEW B, NEW G, NEW n \in Nat, NEW parts, parts = [i \in 1..n |-> parts[i]],
         \A i \in 1..n : parts[i] \in Seq(S) /\ Guarded(parts[i], B, G)
  PROVE  /\ Guarded(FlattenSeq(parts), B, G)
         /\ (\E i \in 1..n : Has(parts[i], G)) => Has(FlattenSeq(parts), G)
<1>1. parts \in Seq(Seq(S))
  BY SeqFits
<1>2. Len(parts) = n
  BY <1>1
<1>3. CASE n = 0
  <2>1. FlattenSeq(parts) = parts
    BY <1>2, <1>3 DEF FlattenSeq
  <2>2. Guarded(parts, B, G)
    BY <1>2, <1>3 DEF Guarded
  <2> QED BY <1>3, <2>1, <2>2
<1>4. CASE n # 0
  <2> DEFINE Fits(i) == {a \in Seq(S) : Guarded(a, B, G) /\ \A k \in 1..i : Has(parts[k], G) => Has(a, G)}
             X == [i \in 1..n |-> Fits(i)]
  <2>1. parts[1] \in Fits(1)
    BY <1>4
  <2>2. ASSUME NEW i \in 2..n, NEW a \in Fits(i - 1) PROVE a \o parts[i] \in Fits(i)
    <3>1. i \in 1..n /\ a \in Seq(S) /\ parts[i] \in Seq(S) /\ a \o parts[i] \in Seq(S)
      BY ConcatFits
    <3>2. Guarded(a \o parts[i], B, G)
      BY <3>1, GuardedConcat
    <3>3. ASSUME NEW k \in 1..i, Has(parts[k], G) PROVE Has(a \o parts[i], G)
      <4>1. k = i \/ k \in 1..(i - 1)
        OBVIOUS
      <4>2. Has(a, G) \/ Has(parts[i], G)
        BY <3>3, <4>1
      <4> QED BY <3>1, <4>2, HasConcat
    <3> QED BY <3>1, <3>2, <3>3
  <2>3. \A i \in 1..n : X[i] = Fits(i)
    OBVIOUS
  <2> HIDE DEF Fits, X
  <2>4. 1 \in 1..n /\ n \in 1..n /\ \A i \in 2..n : i \in 1..n /\ i - 1 \in 1..n
    BY <1>4
  <2>5. parts[1] \in X[1] /\ \A i \in 2..n : \A a \in X[i - 1] : a \o parts[i] \in X[i]
    BY <2>1, <2>2, <2>3, <2>4
  <2>6. FlattenSeq(parts) \in X[n]
    BY <1>1, <1>2, <1>4, <2>5, FlattenSteps
  <2>7. FlattenSeq(parts) \in Fits(n)
    BY <2>3, <2>4, <2>6
  <2> QED BY <2>7 DEF Fits
<1> QED BY <1>3, <1>4

-----------------------------------------------------------------------------
(* Transactions and their scripts.                                         *)

Transaction ==
  [kind : Kinds, target : Service, version : Versions \cup {0}, prior : Record \cup {None}, restart : BOOLEAN,
   before : Machine, legacy : Seq(LegacySet),
   stopped : SUBSET Service, disabled : SUBSET Service, off : SUBSET Service,
   mutated : BOOLEAN, created : BOOLEAN, yielded : BOOLEAN,
   restored : Service \cup {None}, answered : BOOLEAN, unsure : BOOLEAN]

Verbs ==
  {"backup", "bootout", "bootstrap", "commit", "define", "disable-now", "disable", "drop-one", "drop-previous",
   "drop-two", "enable-and-run", "enable-now", "enable", "forget", "kickstart", "pending", "previous", "quiesce",
   "ready", "restore-definition", "restore-files", "runtime", "start", "stop", "test-backup", "undefine",
   "unstage", "wipe", "write-planned", "write-prior", "yield"}

Blocks == {"try", "prelude", "finish", "committed", "after", "legacies"}
Answers == {"throw", "ignore", "disable", "cleanup"}
Conditions == {"always", "restored", "unrestored", "handed-back"}

Fields(undos) ==
  [do : Verbs, to : Service, in : Blocks, on : Answers, when : Conditions,
   restores : BOOLEAN, undo : undos, clears : BOOLEAN, discards : BOOLEAN]

\* What returns to a prior installation needs one; only the canonical service is
\* defined, and only the definitions and the records of victims are removed.
Proper(step, prior, victims) ==
  /\ step.do \in {"backup", "write-prior"} => prior # None
  /\ step.do \in {"define", "restore-definition"} => step.to = Canonical
  /\ step.do \in {"undefine", "forget"} => step.to \in victims

Taking == {step \in Fields({<<>>}) : Proper(step, None, {Canonical})}
Steps(prior, victims) == {step \in Fields(Seq(Taking)) : Proper(step, prior, victims)}
Plain(prior, victims) == {step \in Steps(prior, victims) : step.on \in {"throw", "ignore"}}
Ready(prior) ==
  {step \in Plain(prior, {Canonical}) : step.do = "ready" /\ step.when = "always" /\ step.on = "throw"}

\* No definition of a legacy service is removed before the canonical service answered.
Careful(s, prior) == Guarded(s, Plain(prior, {Canonical}), Ready(prior))

InstallInv ==
  /\ InstallTypeOK
  /\ tx \in Transaction
  /\ undo \in Seq(Seq(Taking))
  /\ phase = "forward" =>
       /\ script \in Seq(Plain(tx.prior, Service))
       /\ tx.kind = "uninstall" \/ tx.answered \/ Careful(script, tx.prior)
  /\ phase # "forward" => script \in Seq(Steps(tx.prior, {Canonical}))

-----------------------------------------------------------------------------
(* Steps.                                                                  *)

LEMMA StepSets ==
  ASSUME NEW prior, NEW victims, Canonical \in victims
  PROVE  /\ Taking \subseteq Steps(prior, {Canonical})
         /\ Steps(prior, {Canonical}) \subseteq Steps(prior, victims)
         /\ Plain(prior, {Canonical}) \subseteq Plain(prior, victims)
         /\ Plain(prior, victims) \subseteq Steps(prior, victims)
         /\ Ready(prior) \subseteq Plain(prior, {Canonical})
<1>1. Taking \subseteq Steps(prior, {Canonical})
  <2> SUFFICES ASSUME NEW step \in Taking PROVE step \in Steps(prior, {Canonical})
    OBVIOUS
  <2>1. step \in Fields({<<>>}) /\ Proper(step, None, {Canonical})
    BY DEF Taking
  <2>2. <<>> \in Seq(Taking)
    OBVIOUS
  <2>3. step \in Fields(Seq(Taking))
    BY <2>1, <2>2 DEF Fields
  <2>4. Proper(step, prior, {Canonical})
    BY <2>1 DEF Proper
  <2> QED BY <2>3, <2>4 DEF Steps
<1>2. Steps(prior, {Canonical}) \subseteq Steps(prior, victims)
  BY DEF Steps, Proper
<1>3. Plain(prior, {Canonical}) \subseteq Plain(prior, victims)
  BY <1>2 DEF Plain
<1> QED BY <1>1, <1>2, <1>3 DEF Plain, Ready

\* A command that the code runs, or runs whatever comes of it.
LEMMA CommandFits ==
  ASSUME NEW do \in Verbs, NEW s \in Service, NEW prior, NEW victims,
         do \in {"backup", "write-prior"} => prior # None,
         do \in {"define", "restore-definition"} => s = Canonical,
         do \in {"undefine", "forget"} => s \in victims
  PROVE  /\ Command(do, s) \in Plain(prior, victims)
         /\ Lenient(do, s) \in Plain(prior, victims)
<1>1. <<>> \in Seq(Taking)
  BY EmptySeq
<1>2. Command(do, s) \in Fields(Seq(Taking)) /\ Lenient(do, s) \in Fields(Seq(Taking))
  <2> HIDE DEF Verbs, Taking
  <2> QED BY <1>1 DEF Command, Lenient, Fields, Blocks, Answers, Conditions
<1>3. Proper(Command(do, s), prior, victims) /\ Proper(Lenient(do, s), prior, victims)
  BY DEF Proper, Command, Lenient
<1>4. Command(do, s).on = "throw" /\ Lenient(do, s).on = "ignore"
  BY DEF Command, Lenient
<1> QED BY <1>2, <1>3, <1>4 DEF Steps, Plain

\* The same of what takes it back.
LEMMA TakingFits ==
  ASSUME NEW do \in Verbs \ {"backup", "write-prior"}, NEW s \in Service,
         do \in {"define", "restore-definition", "undefine", "forget"} => s = Canonical
  PROVE  Command(do, s) \in Taking /\ Lenient(do, s) \in Taking
<1>1. Command(do, s) \in Fields({<<>>}) /\ Lenient(do, s) \in Fields({<<>>})
  BY DEF Command, Lenient, Fields, Blocks, Answers, Conditions
<1>2. Proper(Command(do, s), None, {Canonical}) /\ Proper(Lenient(do, s), None, {Canonical})
  BY DEF Proper, Command, Lenient
<1> QED BY <1>1, <1>2 DEF Taking

\* What a block, a way back or a flag adds to a step.
LEMMA PlainExcept ==
  ASSUME NEW prior, NEW victims, NEW step \in Plain(prior, victims)
  PROVE  /\ \A block \in Blocks : [step EXCEPT !.in = block] \in Plain(prior, victims)
         /\ \A back \in Seq(Taking) : [step EXCEPT !.undo = back] \in Plain(prior, victims)
         /\ \A b \in BOOLEAN : [step EXCEPT !.clears = b] \in Plain(prior, victims)
         /\ \A b \in BOOLEAN, back \in Seq(Taking) :
              [step EXCEPT !.discards = b, !.undo = back] \in Plain(prior, victims)
         /\ \A condition \in Conditions : When(condition, step) \in Plain(prior, victims)
<1>1. step \in Fields(Seq(Taking)) /\ Proper(step, prior, victims) /\ step.on \in {"throw", "ignore"}
  BY DEF Plain, Steps
<1>2. ASSUME NEW s \in Fields(Seq(Taking)), s.do = step.do, s.to = step.to, s.on = step.on
      PROVE  s \in Plain(prior, victims)
  BY <1>1, <1>2 DEF Plain, Steps, Proper
<1>3. ASSUME NEW block \in Blocks PROVE [step EXCEPT !.in = block] \in Plain(prior, victims)
  <2> DEFINE s == [step EXCEPT !.in = block]
  <2>1. s \in Fields(Seq(Taking)) /\ s.do = step.do /\ s.to = step.to /\ s.on = step.on
    BY <1>1 DEF Fields
  <2> QED BY <1>2, <2>1
<1>4. ASSUME NEW back \in Seq(Taking) PROVE [step EXCEPT !.undo = back] \in Plain(prior, victims)
  <2> DEFINE s == [step EXCEPT !.undo = back]
  <2>1. s \in Fields(Seq(Taking)) /\ s.do = step.do /\ s.to = step.to /\ s.on = step.on
    BY <1>1 DEF Fields
  <2> QED BY <1>2, <2>1
<1>5. ASSUME NEW b \in BOOLEAN PROVE [step EXCEPT !.clears = b] \in Plain(prior, victims)
  <2> DEFINE s == [step EXCEPT !.clears = b]
  <2>1. s \in Fields(Seq(Taking)) /\ s.do = step.do /\ s.to = step.to /\ s.on = step.on
    BY <1>1 DEF Fields
  <2> QED BY <1>2, <2>1
<1>6. ASSUME NEW b \in BOOLEAN, NEW back \in Seq(Taking)
      PROVE  [step EXCEPT !.discards = b, !.undo = back] \in Plain(prior, victims)
  <2> DEFINE s == [step EXCEPT !.discards = b, !.undo = back]
  <2>1. s \in Fields(Seq(Taking)) /\ s.do = step.do /\ s.to = step.to /\ s.on = step.on
    BY <1>1 DEF Fields
  <2> QED BY <1>2, <2>1
<1>7. ASSUME NEW condition \in Conditions PROVE When(condition, step) \in Plain(prior, victims)
  <2> DEFINE s == [step EXCEPT !.when = condition]
  <2>1. s \in Fields(Seq(Taking)) /\ s.do = step.do /\ s.to = step.to /\ s.on = step.on
    BY <1>1 DEF Fields
  <2> QED BY <1>2, <2>1 DEF When
<1> QED BY <1>3, <1>4, <1>5, <1>6, <1>7

LEMMA InFits ==
  ASSUME NEW prior, NEW victims, NEW s \in Seq(Plain(prior, victims)), NEW block \in Blocks
  PROVE  In(block, s) \in Seq(Plain(prior, victims))
<1>1. Len(s) \in Nat /\ DOMAIN s = 1..Len(s) /\ \A i \in 1..Len(s) : s[i] \in Plain(prior, victims)
  BY ElementOfSeq
<1>2. \A i \in 1..Len(s) : [s[i] EXCEPT !.in = block] \in Plain(prior, victims)
  BY <1>1, PlainExcept
<1>3. In(block, s) = [i \in 1..Len(s) |-> In(block, s)[i]]
      /\ \A i \in 1..Len(s) : In(block, s)[i] = [s[i] EXCEPT !.in = block]
  BY <1>1 DEF In
<1>4. \A i \in 1..Len(s) : In(block, s)[i] \in Plain(prior, victims)
  BY <1>2, <1>3
<1> QED BY <1>1, <1>3, <1>4, SeqFits

\* The same command for several services.
LEMMA AllFits ==
  ASSUME NEW do \in Verbs, NEW services \in Seq(LegacySet), NEW prior, NEW victims,
         do \notin {"backup", "write-prior", "define", "restore-definition"},
         do \in {"undefine", "forget"} => LegacySet \subseteq victims
  PROVE  All(do, services) \in Seq(Plain(prior, victims))
<1>1. Len(services) \in Nat /\ DOMAIN services = 1..Len(services)
      /\ \A i \in 1..Len(services) : services[i] \in LegacySet
  BY LenProperties, ElementOfSeq
<1>2. \A i \in 1..Len(services) : Command(do, services[i]) \in Plain(prior, victims)
  BY <1>1, CommandFits DEF Service
<1>3. All(do, services) = [i \in 1..Len(services) |-> All(do, services)[i]]
      /\ \A i \in 1..Len(services) : All(do, services)[i] = Command(do, services[i])
  BY <1>1 DEF All
<1> QED BY <1>1, <1>2, <1>3, SeqFits

LEMMA OnlyFits ==
  ASSUME NEW S, NEW s \in Seq(S), NEW condition
  PROVE  Only(condition, s) \in Seq(S)
<1>1. <<>> \in Seq(S)
  BY EmptySeq
<1> QED BY <1>1 DEF Only

\* What is flattened, of parts that each fit.
LEMMA PartsFit ==
  ASSUME NEW S, NEW n \in Nat, NEW parts, parts = [i \in 1..n |-> parts[i]], \A i \in 1..n : parts[i] \in Seq(S)
  PROVE  FlattenSeq(parts) \in Seq(S)
<1>1. parts \in Seq(Seq(S))
  BY SeqFits
<1> QED BY <1>1, FlattenFits

LEMMA ReadyIs ==
  ASSUME NEW prior
  PROVE  /\ Command("ready", Canonical) \in Ready(prior)
         /\ [Command("ready", Canonical) EXCEPT !.clears = TRUE] \in Ready(prior)
<1>1. Command("ready", Canonical) \in Plain(prior, {Canonical})
  BY CommandFits DEF Verbs, Service
<1>2. [Command("ready", Canonical) EXCEPT !.clears = TRUE] \in Plain(prior, {Canonical})
  BY <1>1, PlainExcept
<1>3. /\ Command("ready", Canonical).do = "ready" /\ Command("ready", Canonical).when = "always"
      /\ Command("ready", Canonical).on = "throw"
      /\ [Command("ready", Canonical) EXCEPT !.clears = TRUE].do = "ready"
      /\ [Command("ready", Canonical) EXCEPT !.clears = TRUE].when = "always"
      /\ [Command("ready", Canonical) EXCEPT !.clears = TRUE].on = "throw"
  BY DEF Command
<1> QED BY <1>1, <1>2, <1>3 DEF Ready

LEMMA CarefulStart ==
  ASSUME NEW prior, NEW s \in Seq(Plain(prior, {Canonical}))
  PROVE  s \in Seq(Plain(prior, Service)) /\ Careful(s, prior)
<1>1. Plain(prior, {Canonical}) \subseteq Plain(prior, Service)
  BY StepSets DEF Service
<1>2. s \in Seq(Plain(prior, Service))
  BY <1>1, SeqMonotonic
<1> QED BY <1>2, GuardedByNone DEF Careful

LEMMA CarefulConcat ==
  ASSUME NEW prior, NEW s \in Seq(Plain(prior, Service)), NEW u \in Seq(Plain(prior, Service)),
         Careful(s, prior), Has(s, Ready(prior)) \/ Careful(u, prior)
  PROVE  s \o u \in Seq(Plain(prior, Service)) /\ Careful(s \o u, prior)
<1>1. s \o u \in Seq(Plain(prior, Service))
  BY ConcatProperties
<1> QED BY <1>1, GuardedConcat DEF Careful

\* What follows an answer of the canonical service may remove definitions.
LEMMA CarefulThen ==
  ASSUME NEW prior, NEW s \in Seq(Plain(prior, Service)), NEW u \in Seq(Plain(prior, Service)),
         Careful(s, prior), Has(s, Ready(prior))
  PROVE  s \o u \in Seq(Plain(prior, Service)) /\ Careful(s \o u, prior) /\ Has(s \o u, Ready(prior))
BY CarefulConcat, HasConcat

-----------------------------------------------------------------------------
(* The parts of the scripts.                                               *)

\* The commands about the canonical service.
LEMMA CanonicalFits ==
  ASSUME NEW prior
  PROVE  \A do \in Verbs \ {"backup", "write-prior"} :
           /\ Command(do, Canonical) \in Plain(prior, {Canonical})
           /\ Lenient(do, Canonical) \in Plain(prior, {Canonical})
BY CommandFits DEF Service

LEMMA RecordsFit ==
  ASSUME NEW t
  PROVE  /\ Prelude(t) \in Seq(Plain(t.prior, {Canonical}))
         /\ Stage(t) \in Seq(Plain(t.prior, {Canonical}))
         /\ Finish \in Seq(Plain(t.prior, {Canonical}))
<1>0. PICK P : P = Plain(t.prior, {Canonical})
  OBVIOUS
<1>1. /\ Command("previous", Canonical) \in P /\ Command("drop-one", Canonical) \in P
      /\ Command("pending", Canonical) \in P /\ Lenient("unstage", Canonical) \in P
      /\ Command("commit", Canonical) \in P /\ Command("drop-previous", Canonical) \in P
  BY <1>0, CanonicalFits DEF Verbs
<1>2. \A s \in Seq(P), block \in Blocks : In(block, s) \in Seq(P)
  BY <1>0, InFits
<1>3. Prelude(t) \in Seq(P)
  <2>1. /\ <<Command("previous", Canonical)>> \in Seq(P)
        /\ <<Command("drop-one", Canonical)>> \in Seq(P)
        /\ <<Command("pending", Canonical)>> \in Seq(P)
    BY <1>1
  <2>2. Only(t.prior # None /\ t.prior = ReadRecord(t.before), <<Command("previous", Canonical)>>) \in Seq(P)
    BY <2>1, OnlyFits
  <2>3. Only(t.prior # None /\ t.prior.format = 1, <<Command("drop-one", Canonical)>>) \in Seq(P)
    BY <2>1, OnlyFits
  <2>4. (   Only(t.prior # None /\ t.prior = ReadRecord(t.before), <<Command("previous", Canonical)>>)
         \o Only(t.prior # None /\ t.prior.format = 1, <<Command("drop-one", Canonical)>>)
         \o <<Command("pending", Canonical)>>) \in Seq(P)
    BY <2>1, <2>2, <2>3, ConcatFits
  <2> QED BY <1>2, <2>4 DEF Prelude, Blocks
<1>4. Finish \in Seq(P)
  <2>1. <<Lenient("unstage", Canonical), Command("commit", Canonical),
          Command("drop-one", Canonical), Command("drop-previous", Canonical)>> \in Seq(P)
    BY <1>1
  <2> QED BY <1>2, <2>1 DEF Finish, Blocks
<1>5. Stage(t) \in Seq(P)
  <2>1. CASE t.prior # None
    <3>1. Command("backup", Canonical) \in P
      BY <1>0, <2>1, CommandFits DEF Verbs, Service
    <3>2. <<Command("backup", Canonical)>> \in Seq(P)
      BY <3>1
    <3> QED BY <3>2, OnlyFits DEF Stage
  <2>2. CASE t.prior = None
    BY <2>2, EmptySeq DEF Stage, Only
  <2> QED BY <2>1, <2>2
<1> QED BY <1>0, <1>3, <1>4, <1>5

-----------------------------------------------------------------------------
(* The scripts of Linux.                                                   *)

\* A script removes definitions only after an answer.
Fitting(s, prior) == s \in Seq(Plain(prior, Service)) /\ Careful(s, prior)

\* It ends with what finishes an installation.
Finishing(s, prior) == \E x \in Seq(Plain(prior, Service)) : s = x \o Finish

\* It ends with u, which is about the canonical service, and then r.
Composed(s, prior, u, r) == \E a \in Seq(Plain(prior, {Canonical})) : s = a \o u \o r

\* The commands that define the new service and run it.
LinuxNew ==
  <<Command("runtime", Canonical), Command("define", Canonical), Command("enable-now", Canonical),
    Command("ready", Canonical), Command("commit", Canonical)>>
WindowsNew ==
  <<Command("runtime", Canonical), Command("define", Canonical), Command("start", Canonical),
    Command("ready", Canonical)>>
MacNew(prior) ==
  LET remove == <<Command("bootout", Canonical), Command("undefine", Canonical), Command("wipe", Canonical)>>
  IN  <<Command("runtime", Canonical), Command("define", Canonical), Command("bootout", Canonical),
        Command("enable", Canonical),
        [Command("bootstrap", Canonical) EXCEPT !.undo = IF prior = None THEN remove ELSE <<>>],
        Command("kickstart", Canonical),
        [Command("ready", Canonical) EXCEPT !.clears = TRUE],
        Command("commit", Canonical)>>

\* The commands that run it again.
LinuxAgain == <<Command("start", Canonical), Command("ready", Canonical)>>
WindowsAgain == <<Command("enable", Canonical), Command("start", Canonical), Command("ready", Canonical)>>
MacAgain ==
  << [Command("enable", Canonical) EXCEPT
        !.undo = <<Command("disable", Canonical), Command("bootout", Canonical)>>],
     Command("kickstart", Canonical), [Command("ready", Canonical) EXCEPT !.clears = TRUE] >>

\* What removes the legacy services.
LinuxRemoval(services) == All("undefine", services) \o All("forget", services)

LEMMA LinuxInstallFits ==
  ASSUME NEW t, t.legacy \in Seq(LegacySet)
  PROVE  /\ Fitting(LinuxInstall(t), t.prior) /\ Finishing(LinuxInstall(t), t.prior)
         /\ Composed(LinuxInstall(t), t.prior, LinuxNew, In("committed", LinuxRemoval(t.legacy)) \o Finish)
<1>0. PICK P : P = Plain(t.prior, {Canonical})
  OBVIOUS
<1>1. /\ Command("quiesce", Canonical) \in P /\ Command("runtime", Canonical) \in P
      /\ Command("define", Canonical) \in P /\ Command("enable-now", Canonical) \in P
      /\ Command("ready", Canonical) \in P /\ Command("commit", Canonical) \in P
  BY <1>0, CanonicalFits DEF Verbs
<1>2. All("quiesce", t.legacy) \in Seq(P) /\ All("disable-now", t.legacy) \in Seq(P)
  BY <1>0, AllFits DEF Verbs
<1>3. /\ All("undefine", t.legacy) \in Seq(Plain(t.prior, Service))
      /\ All("forget", t.legacy) \in Seq(Plain(t.prior, Service))
  BY AllFits DEF Verbs, Service
<1>4. Prelude(t) \in Seq(P) /\ Stage(t) \in Seq(P) /\ Finish \in Seq(P)
  BY <1>0, RecordsFit
<1> DEFINE u == <<Command("runtime", Canonical), Command("define", Canonical), Command("enable-now", Canonical),
                  Command("ready", Canonical), Command("commit", Canonical)>>
           a ==    Prelude(t) \o Stage(t)
                \o <<Command("quiesce", Canonical)>> \o All("quiesce", t.legacy) \o All("disable-now", t.legacy)
           b == In("committed", All("undefine", t.legacy) \o All("forget", t.legacy))
<1>5. u \in Seq(P) /\ <<Command("quiesce", Canonical)>> \in Seq(P)
  BY <1>1
<1>6. Has(u, Ready(t.prior))
  <2>1. Len(u) = 5 /\ u[4] = Command("ready", Canonical)
    OBVIOUS
  <2> HIDE DEF u
  <2> QED BY <2>1, ReadyIs DEF Has
<1> HIDE DEF u
<1>7. a \in Seq(P)
  BY <1>2, <1>4, <1>5, ConcatFits
<1>8. LinuxInstall(t) = a \o u \o b \o Finish
  BY DEF LinuxInstall, u
<1> HIDE DEF a
<1>9. a \o u \in Seq(P) /\ Has(a \o u, Ready(t.prior))
  BY <1>5, <1>6, <1>7, HasConcat, ConcatFits
<1>10. a \o u \in Seq(Plain(t.prior, Service)) /\ Careful(a \o u, t.prior)
  BY <1>0, <1>9, CarefulStart
<1>11. b \in Seq(Plain(t.prior, Service))
  BY <1>3, ConcatFits, InFits DEF Blocks
<1> HIDE DEF b
<1>12. Finish \in Seq(Plain(t.prior, Service))
  BY <1>0, <1>4, CarefulStart
<1>13. /\ a \o u \o b \in Seq(Plain(t.prior, Service)) /\ Careful(a \o u \o b, t.prior)
       /\ Has(a \o u \o b, Ready(t.prior))
  BY <1>9, <1>10, <1>11, CarefulThen
<1>14. a \o u \o b \o Finish \in Seq(Plain(t.prior, Service)) /\ Careful(a \o u \o b \o Finish, t.prior)
  BY <1>12, <1>13, CarefulThen
<1>15. Finishing(LinuxInstall(t), t.prior)
  BY <1>8, <1>13 DEF Finishing
<1>16. a \o u \o b \o Finish = a \o u \o (b \o Finish)
  <2> DEFINE v == a \o u
             S == Plain(t.prior, Service)
  <2>1. v \in Seq(S) /\ b \in Seq(S) /\ Finish \in Seq(S)
    BY <1>10, <1>11, <1>12
  <2> HIDE DEF v, S
  <2>2. v \o b \o Finish = v \o (b \o Finish)
    BY <2>1, ConcatAssociative
  <2> QED BY <2>2 DEF v
<1>17. \E x \in Seq(Plain(t.prior, {Canonical})) : LinuxInstall(t) = x \o u \o (b \o Finish)
  BY <1>0, <1>7, <1>8, <1>16
<1>18. u = LinuxNew /\ b = In("committed", LinuxRemoval(t.legacy))
  BY DEF u, b, LinuxNew, LinuxRemoval
<1>19. Composed(LinuxInstall(t), t.prior, LinuxNew, In("committed", LinuxRemoval(t.legacy)) \o Finish)
  BY <1>17, <1>18 DEF Composed
<1> QED BY <1>8, <1>14, <1>15, <1>19 DEF Fitting

\* An answer of the canonical service, if it is started again.
LEMMA AnsweredBetween ==
  ASSUME NEW prior, NEW restart \in BOOLEAN, NEW a \in Seq(Plain(prior, {Canonical})),
         NEW u \in Seq(Plain(prior, {Canonical})), Has(u, Ready(prior)), NEW b \in Seq(Plain(prior, Service))
  PROVE  /\ a \o Only(restart, u) \o b \in Seq(Plain(prior, Service))
         /\ restart => Careful(a \o Only(restart, u) \o b, prior)
<1>1. Only(restart, u) \in Seq(Plain(prior, {Canonical}))
  BY OnlyFits
<1>2. a \o Only(restart, u) \in Seq(Plain(prior, {Canonical}))
  BY <1>1, ConcatFits
<1>3. a \o Only(restart, u) \in Seq(Plain(prior, Service)) /\ Careful(a \o Only(restart, u), prior)
  BY <1>2, CarefulStart
<1>4. a \o Only(restart, u) \o b \in Seq(Plain(prior, Service))
  BY <1>3, ConcatFits
<1>5. ASSUME restart PROVE Careful(a \o Only(restart, u) \o b, prior)
  <2>1. Only(restart, u) = u
    BY <1>5 DEF Only
  <2>2. Has(a \o u, Ready(prior))
    BY HasConcat
  <2> QED BY <1>3, <2>1, <2>2, CarefulThen
<1> QED BY <1>4, <1>5

LEMMA LinuxStartFits ==
  ASSUME NEW t, t.legacy \in Seq(LegacySet), t.restart \in BOOLEAN
  PROVE  /\ LinuxStart(t) \in Seq(Plain(t.prior, Service))
         /\ t.restart => Careful(LinuxStart(t), t.prior)
         /\ Composed(LinuxStart(t), t.prior, Only(t.restart, LinuxAgain), In("after", LinuxRemoval(t.legacy)))
<1>0. PICK P : P = Plain(t.prior, {Canonical})
  OBVIOUS
<1>1. /\ Command("quiesce", Canonical) \in P /\ Command("start", Canonical) \in P
      /\ Command("ready", Canonical) \in P
  BY <1>0, CanonicalFits DEF Verbs
<1>2. All("quiesce", t.legacy) \in Seq(P) /\ All("disable-now", t.legacy) \in Seq(P)
  BY <1>0, AllFits DEF Verbs
<1> DEFINE u == <<Command("start", Canonical), Command("ready", Canonical)>>
           a == Only(t.restart, <<Command("quiesce", Canonical)>>)
                \o All("quiesce", t.legacy) \o All("disable-now", t.legacy)
           b == In("after", All("undefine", t.legacy) \o All("forget", t.legacy))
<1>3. u \in Seq(P) /\ <<Command("quiesce", Canonical)>> \in Seq(P)
  BY <1>1
<1>4. Has(u, Ready(t.prior))
  <2>1. Len(u) = 2 /\ u[2] = Command("ready", Canonical)
    OBVIOUS
  <2> HIDE DEF u
  <2> QED BY <2>1, ReadyIs DEF Has
<1> HIDE DEF u
<1>5. a \in Seq(P)
  <2>1. Only(t.restart, <<Command("quiesce", Canonical)>>) \in Seq(P)
    BY <1>3, OnlyFits
  <2> QED BY <1>2, <2>1, ConcatFits
<1>6. b \in Seq(Plain(t.prior, Service))
  <2>1. All("forget", t.legacy) \in Seq(Plain(t.prior, Service))
    BY AllFits DEF Verbs, Service
  <2>2. All("undefine", t.legacy) \in Seq(Plain(t.prior, Service))
    BY AllFits DEF Verbs, Service
  <2> QED BY <2>1, <2>2, ConcatFits, InFits DEF Blocks
<1>7. LinuxStart(t) = a \o Only(t.restart, u) \o b
  BY DEF LinuxStart, u
<1> HIDE DEF a, b
<1>8. /\ a \o Only(t.restart, u) \o b \in Seq(Plain(t.prior, Service))
      /\ t.restart => Careful(a \o Only(t.restart, u) \o b, t.prior)
  BY <1>0, <1>3, <1>4, <1>5, <1>6, AnsweredBetween
<1>9. u = LinuxAgain /\ b = In("after", LinuxRemoval(t.legacy))
  BY DEF u, b, LinuxAgain, LinuxRemoval
<1>10. Composed(LinuxStart(t), t.prior, Only(t.restart, LinuxAgain), In("after", LinuxRemoval(t.legacy)))
  BY <1>0, <1>5, <1>7, <1>9 DEF Composed
<1> QED BY <1>7, <1>8, <1>10

-----------------------------------------------------------------------------
(* The scripts of Windows.                                                 *)

\* What uninstalls a service, one behind the other.
LEMMA UninstallFits ==
  ASSUME NEW s \in Service, NEW prior, NEW victims, s \in victims
  PROVE  /\ LinuxUninstall(s) \in Seq(Plain(prior, victims))
         /\ WindowsUninstall(s) \in Seq(Plain(prior, victims))
<1>0. PICK P : P = Plain(prior, victims)
  OBVIOUS
<1>1. /\ Command("quiesce", s) \in P /\ Command("disable-now", s) \in P /\ Command("undefine", s) \in P
      /\ Command("forget", s) \in P /\ Command("wipe", s) \in P /\ Lenient("stop", s) \in P
  BY <1>0, CommandFits DEF Verbs
<1>2. <<Command("quiesce", s), Command("disable-now", s), Command("undefine", s),
        Command("forget", s), Command("wipe", s)>> \in Seq(P)
  BY <1>1
<1>3. <<Command("quiesce", s), Lenient("stop", s), Command("undefine", s),
        Command("forget", s), Command("wipe", s)>> \in Seq(P)
  BY <1>1
<1> QED BY <1>0, <1>2, <1>3, InFits DEF LinuxUninstall, WindowsUninstall, Blocks

LEMMA WindowsUninstallsFit ==
  ASSUME NEW services \in Seq(LegacySet), NEW prior
  PROVE  Each(WindowsUninstall, services) \in Seq(Plain(prior, Service))
<1>1. Len(services) \in Nat /\ DOMAIN services = 1..Len(services)
      /\ \A i \in 1..Len(services) : services[i] \in Service
  BY LenProperties, ElementOfSeq DEF Service
<1>2. \A i \in 1..Len(services) : WindowsUninstall(services[i]) \in Seq(Plain(prior, Service))
  BY <1>1, UninstallFits
<1> DEFINE parts == [i \in 1..Len(services) |-> WindowsUninstall(services[i])]
<1>3. Each(WindowsUninstall, services) = FlattenSeq(parts)
  BY <1>1 DEF Each
<1>4. parts = [i \in 1..Len(services) |-> parts[i]]
  OBVIOUS
<1>5. \A i \in 1..Len(services) : parts[i] \in Seq(Plain(prior, Service))
  BY <1>2
<1> HIDE DEF parts
<1> QED BY <1>1, <1>3, <1>4, <1>5, PartsFit

LEMMA WindowsInstallFits ==
  ASSUME NEW t, t.legacy \in Seq(LegacySet)
  PROVE  /\ Fitting(WindowsInstall(t), t.prior)
         /\ \E x \in Seq(Plain(t.prior, Service)) :
              WindowsInstall(t) = x \o Finish \o Only(t.kind = "replace", Each(WindowsUninstall, t.legacy))
         /\ Composed(WindowsInstall(t), t.prior, WindowsNew,
                     Finish \o Only(t.kind = "replace", Each(WindowsUninstall, t.legacy)))
<1>0. PICK P : P = Plain(t.prior, {Canonical})
  OBVIOUS
<1>1. /\ Command("quiesce", Canonical) \in P /\ Lenient("stop", Canonical) \in P
      /\ Command("runtime", Canonical) \in P /\ Command("define", Canonical) \in P
      /\ Command("start", Canonical) \in P /\ Command("ready", Canonical) \in P
  BY <1>0, CanonicalFits DEF Verbs
<1>2. All("quiesce", t.legacy) \in Seq(P) /\ All("disable", t.legacy) \in Seq(P)
  BY <1>0, AllFits DEF Verbs
<1>3. Prelude(t) \in Seq(P) /\ Stage(t) \in Seq(P) /\ Finish \in Seq(P)
  BY <1>0, RecordsFit
<1> DEFINE u == <<Command("runtime", Canonical), Command("define", Canonical), Command("start", Canonical),
                  Command("ready", Canonical)>>
           quieted == Only(t.kind = "replace", In("legacies", All("quiesce", t.legacy) \o All("disable", t.legacy)))
           stopped == Only(t.before.defined[Canonical] # 0, <<Lenient("stop", Canonical)>>)
           a == quieted \o Prelude(t) \o Stage(t) \o <<Command("quiesce", Canonical)>> \o stopped
           b == Only(t.kind = "replace", Each(WindowsUninstall, t.legacy))
<1>4. u \in Seq(P) /\ <<Command("quiesce", Canonical)>> \in Seq(P) /\ <<Lenient("stop", Canonical)>> \in Seq(P)
  BY <1>1
<1>5. Has(u, Ready(t.prior))
  <2>1. Len(u) = 4 /\ u[4] = Command("ready", Canonical)
    OBVIOUS
  <2> HIDE DEF u
  <2> QED BY <2>1, ReadyIs DEF Has
<1> HIDE DEF u
<1>6. a \in Seq(P)
  <2>1. quieted \in Seq(P)
    BY <1>0, <1>2, ConcatFits, InFits, OnlyFits DEF Blocks
  <2>2. stopped \in Seq(P)
    BY <1>4, OnlyFits
  <2> HIDE DEF quieted, stopped
  <2> QED BY <1>3, <1>4, <2>1, <2>2, ConcatFits
<1>7. b \in Seq(Plain(t.prior, Service))
  BY WindowsUninstallsFit, OnlyFits
<1>8. WindowsInstall(t) = a \o u \o Finish \o b
  BY DEF WindowsInstall, u
<1> HIDE DEF a, b
<1>9. a \o u \in Seq(P) /\ Has(a \o u, Ready(t.prior))
  BY <1>4, <1>5, <1>6, HasConcat, ConcatFits
<1>10. a \o u \in Seq(Plain(t.prior, Service)) /\ Careful(a \o u, t.prior)
  BY <1>0, <1>9, CarefulStart
<1>11. Finish \in Seq(Plain(t.prior, Service))
  BY <1>0, <1>3, CarefulStart
<1>12. /\ a \o u \o Finish \in Seq(Plain(t.prior, Service)) /\ Careful(a \o u \o Finish, t.prior)
       /\ Has(a \o u \o Finish, Ready(t.prior))
  BY <1>9, <1>10, <1>11, CarefulThen
<1>13. a \o u \o Finish \o b \in Seq(Plain(t.prior, Service)) /\ Careful(a \o u \o Finish \o b, t.prior)
  BY <1>7, <1>12, CarefulThen
<1>14. WindowsInstall(t) = (a \o u) \o Finish \o Only(t.kind = "replace", Each(WindowsUninstall, t.legacy))
  BY <1>8 DEF b
<1>15. a \o u \o Finish \o b = a \o u \o (Finish \o b)
  <2> DEFINE v == a \o u
             S == Plain(t.prior, Service)
  <2>1. v \in Seq(S) /\ b \in Seq(S) /\ Finish \in Seq(S)
    BY <1>7, <1>10, <1>11
  <2> HIDE DEF v, S
  <2>2. v \o Finish \o b = v \o (Finish \o b)
    BY <2>1, ConcatAssociative
  <2> QED BY <2>2 DEF v
<1>16. \E x \in Seq(Plain(t.prior, {Canonical})) : WindowsInstall(t) = x \o u \o (Finish \o b)
  BY <1>0, <1>6, <1>8, <1>15
<1>17. u = WindowsNew /\ b = Only(t.kind = "replace", Each(WindowsUninstall, t.legacy))
  BY DEF u, b, WindowsNew
<1>18. Composed(WindowsInstall(t), t.prior, WindowsNew,
                Finish \o Only(t.kind = "replace", Each(WindowsUninstall, t.legacy)))
  BY <1>16, <1>17 DEF Composed
<1> QED BY <1>8, <1>10, <1>13, <1>14, <1>18 DEF Fitting

LEMMA WindowsStartFits ==
  ASSUME NEW t, t.legacy \in Seq(LegacySet), t.restart \in BOOLEAN
  PROVE  /\ WindowsStart(t) \in Seq(Plain(t.prior, Service))
         /\ t.restart => Careful(WindowsStart(t), t.prior)
         /\ Composed(WindowsStart(t), t.prior, Only(t.restart, WindowsAgain), Each(WindowsUninstall, t.legacy))
<1>0. PICK P : P = Plain(t.prior, {Canonical})
  OBVIOUS
<1>1. /\ Command("quiesce", Canonical) \in P /\ Command("enable", Canonical) \in P
      /\ Command("start", Canonical) \in P /\ Command("ready", Canonical) \in P
  BY <1>0, CanonicalFits DEF Verbs
<1>2. All("quiesce", t.legacy) \in Seq(P) /\ All("disable", t.legacy) \in Seq(P)
  BY <1>0, AllFits DEF Verbs
<1> DEFINE u == <<Command("enable", Canonical), Command("start", Canonical), Command("ready", Canonical)>>
           a == Only(t.restart, <<Command("quiesce", Canonical)>>)
                \o All("quiesce", t.legacy) \o All("disable", t.legacy)
           b == Each(WindowsUninstall, t.legacy)
<1>3. u \in Seq(P) /\ <<Command("quiesce", Canonical)>> \in Seq(P)
  BY <1>1
<1>4. Has(u, Ready(t.prior))
  <2>1. Len(u) = 3 /\ u[3] = Command("ready", Canonical)
    OBVIOUS
  <2> HIDE DEF u
  <2> QED BY <2>1, ReadyIs DEF Has
<1> HIDE DEF u
<1>5. a \in Seq(P)
  <2>1. Only(t.restart, <<Command("quiesce", Canonical)>>) \in Seq(P)
    BY <1>3, OnlyFits
  <2> QED BY <1>2, <2>1, ConcatFits
<1>6. b \in Seq(Plain(t.prior, Service))
  BY WindowsUninstallsFit
<1>7. WindowsStart(t) = a \o Only(t.restart, u) \o b
  BY DEF WindowsStart, u
<1> HIDE DEF a, b
<1>8. /\ a \o Only(t.restart, u) \o b \in Seq(Plain(t.prior, Service))
      /\ t.restart => Careful(a \o Only(t.restart, u) \o b, t.prior)
  BY <1>0, <1>3, <1>4, <1>5, <1>6, AnsweredBetween
<1>9. u = WindowsAgain /\ b = Each(WindowsUninstall, t.legacy)
  BY DEF u, b, WindowsAgain
<1>10. Composed(WindowsStart(t), t.prior, Only(t.restart, WindowsAgain), Each(WindowsUninstall, t.legacy))
  BY <1>0, <1>5, <1>7, <1>9 DEF Composed
<1> QED BY <1>7, <1>8, <1>10

-----------------------------------------------------------------------------
(* The scripts of macOS.                                                   *)

LEMMA MacQuiesceFits ==
  ASSUME NEW t, NEW s \in Service, NEW restoreStopped \in BOOLEAN, NEW prior, NEW victims
  PROVE  MacQuiesce(t, s, restoreStopped) \in Seq(Plain(prior, victims))
<1>0. PICK P : P = Plain(prior, victims)
  OBVIOUS
<1>1. Command("disable", s) \in P /\ Command("quiesce", s) \in P
  BY <1>0, CommandFits DEF Verbs
<1>2. /\ Command("enable", s) \in Taking /\ Lenient("bootstrap", s) \in Taking
      /\ Command("kickstart", s) \in Taking
  BY TakingFits DEF Verbs
<1>3. /\ <<Command("enable", s)>> \in Seq(Taking)
      /\ <<Command("enable", s), Lenient("bootstrap", s), Command("kickstart", s)>> \in Seq(Taking)
      /\ <<>> \in Seq(Taking)
  BY <1>2
<1> DEFINE back == IF s # Winner(t) THEN <<>>
                   ELSE <<Command("enable", s), Lenient("bootstrap", s), Command("kickstart", s)>>
           one == [Command("disable", s) EXCEPT !.undo = <<Command("enable", s)>>]
           two == [Command("quiesce", s) EXCEPT !.discards = s # Winner(t) /\ ~restoreStopped, !.undo = back]
<1>4. back \in Seq(Taking)
  BY <1>3
<1> HIDE DEF back
<1>5. one \in P /\ two \in P
  <2>1. one \in P
    BY <1>0, <1>1, <1>3, PlainExcept
  <2>2. (s # Winner(t) /\ ~restoreStopped) \in BOOLEAN
    OBVIOUS
  <2>3. two \in P
    BY <1>0, <1>1, <1>4, <2>2, PlainExcept
  <2> QED BY <2>1, <2>3
<1>6. MacQuiesce(t, s, restoreStopped) = <<one, two>>
  BY DEF MacQuiesce, back
<1> HIDE DEF one, two
<1>7. <<one, two>> \in Seq(P)
  BY <1>5
<1> QED BY <1>0, <1>6, <1>7

LEMMA MacQuiesceLegaciesFits ==
  ASSUME NEW t, t.legacy \in Seq(LegacySet), NEW prior, NEW victims
  PROVE  MacQuiesceLegacies(t) \in Seq(Plain(prior, victims))
<1> DEFINE services == t.legacy
<1>1. Len(services) \in Nat /\ DOMAIN services = 1..Len(services)
      /\ \A i \in 1..Len(services) : services[i] \in Service
  BY LenProperties, ElementOfSeq DEF Service
<1>2. \A i \in 1..Len(services) : MacQuiesce(t, services[i], FALSE) \in Seq(Plain(prior, victims))
  BY <1>1, MacQuiesceFits
<1> DEFINE parts == [i \in 1..Len(services) |-> MacQuiesce(t, services[i], FALSE)]
<1>3. MacQuiesceLegacies(t) = FlattenSeq(parts)
  BY <1>1 DEF MacQuiesceLegacies, Each
<1>4. parts = [i \in 1..Len(services) |-> parts[i]]
  OBVIOUS
<1>5. \A i \in 1..Len(services) : parts[i] \in Seq(Plain(prior, victims))
  BY <1>2
<1> HIDE DEF parts
<1> QED BY <1>1, <1>3, <1>4, <1>5, PartsFit

LEMMA MacBootoutFits ==
  ASSUME NEW services \in Seq(LegacySet), NEW clearLast \in BOOLEAN, NEW prior, NEW victims
  PROVE  MacBootout(services, clearLast) \in Seq(Plain(prior, victims))
<1>1. Len(services) \in Nat /\ DOMAIN services = 1..Len(services)
      /\ \A i \in 1..Len(services) : services[i] \in Service
  BY LenProperties, ElementOfSeq DEF Service
<1>2. \A i \in 1..Len(services) : Command("bootout", services[i]) \in Plain(prior, victims)
  BY <1>1, CommandFits DEF Verbs
<1>3. \A i \in 1..Len(services) :
        [Command("bootout", services[i]) EXCEPT !.clears = clearLast /\ i = Len(services)] \in Plain(prior, victims)
  <2>1. ASSUME NEW i \in 1..Len(services)
        PROVE  [Command("bootout", services[i]) EXCEPT !.clears = clearLast /\ i = Len(services)]
                 \in Plain(prior, victims)
    <3>1. (clearLast /\ i = Len(services)) \in BOOLEAN
      OBVIOUS
    <3> QED BY <1>2, <3>1, PlainExcept
  <2> QED BY <2>1
<1> DEFINE steps == MacBootout(services, clearLast)
<1>4. steps = [i \in 1..Len(services) |-> steps[i]]
      /\ \A i \in 1..Len(services) :
           steps[i] = [Command("bootout", services[i]) EXCEPT !.clears = clearLast /\ i = Len(services)]
  BY <1>1 DEF MacBootout
<1>5. \A i \in 1..Len(services) : steps[i] \in Plain(prior, victims)
  BY <1>3, <1>4
<1> HIDE DEF steps
<1>6. steps \in Seq(Plain(prior, victims))
  BY <1>1, <1>4, <1>5, SeqFits
<1> QED BY <1>6 DEF steps

LEMMA MacCleanupFits ==
  ASSUME NEW services \in Seq(Service), NEW prior
  PROVE  MacCleanup(services) \in Seq(Plain(prior, Service))
<1>0. PICK P : P = Plain(prior, Service)
  OBVIOUS
<1>1. Len(services) \in Nat /\ DOMAIN services = 1..Len(services)
      /\ \A i \in 1..Len(services) : services[i] \in Service
  BY LenProperties, ElementOfSeq
<1> DEFINE Part(s) == << [Command("undefine", s) EXCEPT !.clears = TRUE], Command("forget", s), Command("wipe", s) >>
<1>2. ASSUME NEW s \in Service PROVE Part(s) \in Seq(P)
  <2>1. Command("undefine", s) \in P /\ Command("forget", s) \in P /\ Command("wipe", s) \in P
    BY <1>0, CommandFits DEF Verbs
  <2> DEFINE one == [Command("undefine", s) EXCEPT !.clears = TRUE]
  <2>2. one \in P
    BY <1>0, <2>1, PlainExcept
  <2> HIDE DEF one
  <2>3. << one, Command("forget", s), Command("wipe", s) >> \in Seq(P)
    BY <2>1, <2>2
  <2> QED BY <2>3 DEF one
<1> DEFINE parts == [i \in 1..Len(services) |-> Part(services[i])]
<1>3. MacCleanup(services) = FlattenSeq(parts)
  BY <1>1 DEF MacCleanup, Each
<1> HIDE DEF Part
<1>4. parts = [i \in 1..Len(services) |-> parts[i]]
  OBVIOUS
<1>5. \A i \in 1..Len(services) : parts[i] \in Seq(P)
  BY <1>1, <1>2
<1> HIDE DEF parts
<1> QED BY <1>0, <1>1, <1>3, <1>4, <1>5, PartsFit

LEMMA MacUninstallFits ==
  ASSUME NEW t, NEW s \in Service, NEW prior
  PROVE  MacUninstall(t, s) \in Seq(Plain(prior, Service))
<1>0. PICK P : P = Plain(prior, Service)
  OBVIOUS
<1>1. <<Command("bootout", s)>> \in Seq(P)
  <2>1. Command("bootout", s) \in P
    BY <1>0, CommandFits DEF Verbs
  <2> QED BY <2>1
<1>2. <<s>> \in Seq(Service)
  OBVIOUS
<1>3. MacCleanup(<<s>>) \in Seq(P)
  BY <1>0, <1>2, MacCleanupFits
<1>4. MacQuiesce(t, s, TRUE) \in Seq(P)
  BY <1>0, MacQuiesceFits
<1> QED BY <1>0, <1>1, <1>3, <1>4, ConcatFits DEF MacUninstall

LEMMA LegaciesAreServices ==
  ASSUME NEW services \in Seq(LegacySet)
  PROVE  services \in Seq(Service)
<1>1. LegacySet \subseteq Service
  BY DEF Service
<1> QED BY <1>1, SeqMonotonic

LEMMA MacStartFits ==
  ASSUME NEW t, t.legacy \in Seq(LegacySet), t.restart \in BOOLEAN
  PROVE  /\ MacStart(t) \in Seq(Plain(t.prior, Service))
         /\ t.restart => Careful(MacStart(t), t.prior)
         /\ Composed(MacStart(t), t.prior, Only(t.restart, MacAgain), MacCleanup(t.legacy))
<1>0. PICK P : P = Plain(t.prior, {Canonical})
  OBVIOUS
<1>1. /\ Command("enable", Canonical) \in P /\ Command("kickstart", Canonical) \in P
      /\ [Command("ready", Canonical) EXCEPT !.clears = TRUE] \in P
      /\ [Command("ready", Canonical) EXCEPT !.clears = TRUE] \in Ready(t.prior)
  <2>1. Ready(t.prior) \subseteq P
    BY <1>0, StepSets
  <2> QED BY <1>0, <2>1, CanonicalFits, ReadyIs DEF Verbs
<1>2. <<Command("disable", Canonical), Command("bootout", Canonical)>> \in Seq(Taking)
  <2>1. Command("disable", Canonical) \in Taking /\ Command("bootout", Canonical) \in Taking
    BY TakingFits DEF Verbs, Service
  <2> QED BY <2>1
<1> DEFINE enable == [Command("enable", Canonical) EXCEPT
                        !.undo = <<Command("disable", Canonical), Command("bootout", Canonical)>>]
           ready == [Command("ready", Canonical) EXCEPT !.clears = TRUE]
           u == <<enable, Command("kickstart", Canonical), ready>>
           quiesced == Only(t.restart, MacQuiesce(t, Canonical, Winner(t) = None))
           a == MacQuiesceLegacies(t) \o quiesced \o MacBootout(t.legacy, ~t.restart)
           b == MacCleanup(t.legacy)
<1>3. enable \in P
  BY <1>0, <1>1, <1>2, PlainExcept
<1>4. MacStart(t) = a \o Only(t.restart, u) \o b
  BY DEF MacStart
<1> HIDE DEF enable
<1>5. u \in Seq(P) /\ Has(u, Ready(t.prior))
  <2>1. Len(u) = 3 /\ u[3] = ready
    OBVIOUS
  <2>2. ready \in P /\ ready \in Ready(t.prior)
    BY <1>1
  <2> HIDE DEF ready
  <2>3. u \in Seq(P)
    BY <1>1, <1>3, <2>2
  <2> HIDE DEF u
  <2> QED BY <2>1, <2>2, <2>3 DEF Has
<1> HIDE DEF u
<1>6. a \in Seq(P)
  <2>1. (Winner(t) = None) \in BOOLEAN /\ Canonical \in Service
    BY DEF Service
  <2>2. MacQuiesce(t, Canonical, Winner(t) = None) \in Seq(P)
    BY <1>0, <2>1, MacQuiesceFits
  <2>3. quiesced \in Seq(P)
    BY <2>2, OnlyFits
  <2>4. MacBootout(t.legacy, ~t.restart) \in Seq(P)
    BY <1>0, MacBootoutFits
  <2>5. MacQuiesceLegacies(t) \in Seq(P)
    BY <1>0, MacQuiesceLegaciesFits
  <2> HIDE DEF quiesced
  <2> QED BY <2>3, <2>4, <2>5, ConcatFits
<1>7. b \in Seq(Plain(t.prior, Service))
  BY MacCleanupFits, LegaciesAreServices
<1> HIDE DEF a, b
<1>8. /\ a \o Only(t.restart, u) \o b \in Seq(Plain(t.prior, Service))
      /\ t.restart => Careful(a \o Only(t.restart, u) \o b, t.prior)
  BY <1>0, <1>5, <1>6, <1>7, AnsweredBetween
<1>9. u = MacAgain /\ b = MacCleanup(t.legacy)
  BY DEF u, b, MacAgain, enable
<1>10. Composed(MacStart(t), t.prior, Only(t.restart, MacAgain), MacCleanup(t.legacy))
  BY <1>0, <1>6, <1>4, <1>9 DEF Composed
<1> QED BY <1>4, <1>8, <1>10

LEMMA MacInstallFits ==
  ASSUME NEW t, t.legacy \in Seq(LegacySet)
  PROVE  /\ Fitting(MacInstall(t), t.prior) /\ Finishing(MacInstall(t), t.prior)
         /\ Composed(MacInstall(t), t.prior, MacNew(t.prior), MacCleanup(t.legacy) \o Finish)
<1>0. PICK P : P = Plain(t.prior, {Canonical})
  OBVIOUS
<1>1. /\ Command("quiesce", Canonical) \in P /\ Command("test-backup", Canonical) \in P
      /\ Command("runtime", Canonical) \in P /\ Command("define", Canonical) \in P
      /\ Command("bootout", Canonical) \in P /\ Command("enable", Canonical) \in P
      /\ Command("bootstrap", Canonical) \in P /\ Command("kickstart", Canonical) \in P
      /\ Command("commit", Canonical) \in P
  BY <1>0, CanonicalFits DEF Verbs
<1>2. Prelude(t) \in Seq(P) /\ Stage(t) \in Seq(P) /\ Finish \in Seq(P)
  BY <1>0, RecordsFit
<1> DEFINE restore == <<Command("bootout", Canonical), Command("restore-files", Canonical),
                        Command("restore-definition", Canonical)>>
           remove == <<Command("bootout", Canonical), Command("undefine", Canonical), Command("wipe", Canonical)>>
           tested == [Command("test-backup", Canonical) EXCEPT !.undo = restore]
           bootstrap == [Command("bootstrap", Canonical) EXCEPT !.undo = IF t.prior = None THEN remove ELSE <<>>]
           ready == [Command("ready", Canonical) EXCEPT !.clears = TRUE]
           begin == IF t.prior = None THEN <<Command("quiesce", Canonical)>> ELSE Stage(t)
           quiesced == Only(t.prior # None, MacQuiesce(t, Canonical, Winner(t) = None))
           kept == Only(t.prior # None, <<tested>>)
           u == <<Command("runtime", Canonical), Command("define", Canonical), Command("bootout", Canonical),
                  Command("enable", Canonical), bootstrap, Command("kickstart", Canonical), ready,
                  Command("commit", Canonical)>>
           a == Prelude(t) \o begin \o quiesced \o MacQuiesceLegacies(t) \o kept \o MacBootout(t.legacy, FALSE)
           b == MacCleanup(t.legacy)
<1>3. restore \in Seq(Taking) /\ remove \in Seq(Taking) /\ <<>> \in Seq(Taking)
  <2>1. /\ Command("bootout", Canonical) \in Taking /\ Command("restore-files", Canonical) \in Taking
        /\ Command("restore-definition", Canonical) \in Taking /\ Command("undefine", Canonical) \in Taking
        /\ Command("wipe", Canonical) \in Taking
    BY TakingFits DEF Verbs, Service
  <2> QED BY <2>1
<1>4. MacInstall(t) = a \o u \o b \o Finish
  BY DEF MacInstall
<1> HIDE DEF restore, remove
<1>5. tested \in P /\ bootstrap \in P
  <2>1. tested \in P
    BY <1>0, <1>1, <1>3, PlainExcept
  <2>2. (IF t.prior = None THEN remove ELSE <<>>) \in Seq(Taking)
    BY <1>3
  <2> QED BY <1>0, <1>1, <2>1, <2>2, PlainExcept
<1>6. ready \in P /\ ready \in Ready(t.prior)
  <2>1. Ready(t.prior) \subseteq P
    BY <1>0, StepSets
  <2> QED BY <2>1, ReadyIs
<1> HIDE DEF tested, bootstrap, ready
<1>7. u \in Seq(P) /\ Has(u, Ready(t.prior))
  <2>1. Len(u) = 8 /\ u[7] = ready
    OBVIOUS
  <2>2. u \in Seq(P)
    BY <1>1, <1>5, <1>6
  <2> HIDE DEF u
  <2> QED BY <1>6, <2>1, <2>2 DEF Has
<1> HIDE DEF u
<1>8. a \in Seq(P)
  <2>1. (Winner(t) = None) \in BOOLEAN /\ Canonical \in Service
    BY DEF Service
  <2>2. MacQuiesce(t, Canonical, Winner(t) = None) \in Seq(P)
    BY <1>0, <2>1, MacQuiesceFits
  <2>3. quiesced \in Seq(P)
    BY <2>2, OnlyFits
  <2>4. MacBootout(t.legacy, FALSE) \in Seq(P)
    BY <1>0, MacBootoutFits
  <2>5. MacQuiesceLegacies(t) \in Seq(P)
    BY <1>0, MacQuiesceLegaciesFits
  <2>6. <<Command("quiesce", Canonical)>> \in Seq(P)
    BY <1>1
  <2>7. begin \in Seq(P)
    BY <1>2, <2>6
  <2>8. <<tested>> \in Seq(P)
    BY <1>5
  <2>9. kept \in Seq(P)
    BY <2>8, OnlyFits
  <2> HIDE DEF begin, quiesced, kept
  <2> QED BY <1>2, <2>3, <2>4, <2>5, <2>7, <2>9, ConcatFits
<1>9. b \in Seq(Plain(t.prior, Service))
  BY MacCleanupFits, LegaciesAreServices
<1> HIDE DEF a, b
<1>10. a \o u \in Seq(P) /\ Has(a \o u, Ready(t.prior))
  BY <1>7, <1>8, HasConcat, ConcatFits
<1>11. a \o u \in Seq(Plain(t.prior, Service)) /\ Careful(a \o u, t.prior)
  BY <1>0, <1>10, CarefulStart
<1>12. Finish \in Seq(Plain(t.prior, Service))
  BY <1>0, <1>2, CarefulStart
<1>13. /\ a \o u \o b \in Seq(Plain(t.prior, Service)) /\ Careful(a \o u \o b, t.prior)
       /\ Has(a \o u \o b, Ready(t.prior))
  BY <1>9, <1>10, <1>11, CarefulThen
<1>14. a \o u \o b \o Finish \in Seq(Plain(t.prior, Service)) /\ Careful(a \o u \o b \o Finish, t.prior)
  BY <1>12, <1>13, CarefulThen
<1>15. Finishing(MacInstall(t), t.prior)
  BY <1>4, <1>13 DEF Finishing
<1>16. a \o u \o b \o Finish = a \o u \o (b \o Finish)
  <2> DEFINE v == a \o u
             S == Plain(t.prior, Service)
  <2>1. v \in Seq(S) /\ b \in Seq(S) /\ Finish \in Seq(S)
    BY <1>9, <1>11, <1>12
  <2> HIDE DEF v, S
  <2>2. v \o b \o Finish = v \o (b \o Finish)
    BY <2>1, ConcatAssociative
  <2> QED BY <2>2 DEF v
<1>17. \E x \in Seq(Plain(t.prior, {Canonical})) : MacInstall(t) = x \o u \o (b \o Finish)
  BY <1>0, <1>4, <1>8, <1>16
<1>18. u = MacNew(t.prior) /\ b = MacCleanup(t.legacy)
  BY DEF u, b, MacNew, remove, bootstrap, ready
<1>19. Composed(MacInstall(t), t.prior, MacNew(t.prior), MacCleanup(t.legacy) \o Finish)
  BY <1>17, <1>18 DEF Composed
<1> QED BY <1>4, <1>14, <1>15, <1>19 DEF Fitting

LEMMA OwnedStartFits ==
  ASSUME NEW s \in Service, NEW prior
  PROVE  /\ In("after", <<Command("enable", s), Command("kickstart", s)>>) \in Seq(Plain(prior, {Canonical}))
         /\ In("after", <<Command("start", s)>>) \in Seq(Plain(prior, {Canonical}))
<1>1. /\ Command("enable", s) \in Plain(prior, {Canonical}) /\ Command("kickstart", s) \in Plain(prior, {Canonical})
      /\ Command("start", s) \in Plain(prior, {Canonical})
  BY CommandFits DEF Verbs
<1>2. /\ <<Command("enable", s), Command("kickstart", s)>> \in Seq(Plain(prior, {Canonical}))
      /\ <<Command("start", s)>> \in Seq(Plain(prior, {Canonical}))
  BY <1>1
<1> QED BY <1>2, InFits DEF Blocks

\* A transaction begins with a script of these commands; unless it uninstalls,
\* or leaves the canonical service running, it removes nothing before an answer.
LEMMA ScriptFits ==
  ASSUME NEW t \in Transaction
  PROVE  /\ Script(t) \in Seq(Plain(t.prior, Service))
         /\ t.kind = "uninstall" \/ ~t.restart \/ Careful(Script(t), t.prior)
<1>1. /\ t.legacy \in Seq(LegacySet) /\ t.restart \in BOOLEAN /\ t.target \in Service /\ t.kind \in Kinds
      /\ t.target \in Service
  BY DEF Transaction
<1>2. CASE t.kind \in {"install", "replace"}
  <2>1. Script(t) \in {LinuxInstall(t), WindowsInstall(t), MacInstall(t)}
    BY <1>2 DEF Script
  <2> QED BY <1>1, <2>1, LinuxInstallFits, WindowsInstallFits, MacInstallFits DEF Fitting
<1>3. CASE t.kind = "start"
  <2>1. Script(t) \in {LinuxStart(t), WindowsStart(t), MacStart(t)}
    BY <1>3 DEF Script
  <2>2. ASSUME NEW s \in {LinuxStart(t), WindowsStart(t), MacStart(t)}
        PROVE  s \in Seq(Plain(t.prior, Service)) /\ (~t.restart \/ Careful(s, t.prior))
    BY <1>1, LinuxStartFits, WindowsStartFits, MacStartFits
  <2> QED BY <2>1, <2>2
<1>4. CASE t.kind = "uninstall"
  <2>1. Script(t) \in {LinuxUninstall(t.target), WindowsUninstall(t.target), MacUninstall(t, t.target)}
    BY <1>4 DEF Script
  <2> QED BY <1>1, <1>4, <2>1, UninstallFits, MacUninstallFits
<1>5. CASE t.kind = "start-owned"
  <2>1. Script(t) \in {In("after", <<Command("enable", t.target), Command("kickstart", t.target)>>),
                       In("after", <<Command("start", t.target)>>)}
    BY <1>5 DEF Script
  <2>2. Script(t) \in Seq(Plain(t.prior, {Canonical}))
    BY <1>1, <2>1, OwnedStartFits
  <2> QED BY <2>2, CarefulStart
<1> QED BY <1>1, <1>2, <1>3, <1>4, <1>5 DEF Kinds

-----------------------------------------------------------------------------
(* The scripts of the catch blocks: they remove no definition of a legacy  *)
(* service.                                                                *)

LEMMA PlainAreSteps ==
  ASSUME NEW prior, NEW s \in Seq(Plain(prior, {Canonical}))
  PROVE  s \in Seq(Steps(prior, {Canonical}))
<1>1. Plain(prior, {Canonical}) \subseteq Steps(prior, {Canonical})
  BY StepSets
<1> QED BY <1>1, SeqMonotonic

\* A legacy service is started again, or disabled if that fails.
Again(when, do, l) == [When(when, Command(do, l)) EXCEPT !.on = "disable", !.restores = TRUE]

\* The legacy services that are started again, whatever holds of the commands that do.
LEMMA ReinstateWithin ==
  ASSUME NEW t, t.legacy \in Seq(LegacySet), NEW when, NEW P,
         \A do \in {"enable-now", "enable-and-run", "start"}, l \in LegacySet :
           Again(when, do, l) \in P
  PROVE  Reinstate(t, when) \in Seq(P)
<1> DEFINE enabling == IF t.before.platform = "linux" THEN "enable-now" ELSE "enable-and-run"
           chosen == [i \in DOMAIN t.legacy |-> Only(t.legacy[i] \in t.stopped, <<t.legacy[i]>>)]
           reversed == Reverse(FlattenSeq(chosen))
           first == [i \in DOMAIN reversed |-> Only(reversed[i] \in t.disabled, <<Again(when, enabling, reversed[i])>>)]
           then == [i \in DOMAIN reversed |-> Only(reversed[i] \notin t.disabled, <<Again(when, "start", reversed[i])>>)]
<1>1. Reinstate(t, when) = FlattenSeq(first) \o FlattenSeq(then)
  BY DEF Reinstate, Each, Where, Again
<1>2. reversed \in Seq(LegacySet)
  <2>1. Len(t.legacy) \in Nat /\ DOMAIN t.legacy = 1..Len(t.legacy)
        /\ \A i \in 1..Len(t.legacy) : t.legacy[i] \in LegacySet
    BY LenProperties, ElementOfSeq
  <2>2. \A i \in 1..Len(t.legacy) : <<t.legacy[i]>> \in Seq(LegacySet)
    BY <2>1
  <2>3. \A i \in 1..Len(t.legacy) : chosen[i] \in Seq(LegacySet)
    BY <2>1, <2>2, OnlyFits
  <2>4. chosen = [i \in 1..Len(t.legacy) |-> chosen[i]]
    BY <2>1
  <2> HIDE DEF chosen
  <2>5. FlattenSeq(chosen) \in Seq(LegacySet)
    BY <2>1, <2>3, <2>4, PartsFit
  <2> QED BY <2>5, ReverseFits
<1> HIDE DEF chosen, reversed
<1>3. Len(reversed) \in Nat /\ DOMAIN reversed = 1..Len(reversed)
      /\ \A i \in 1..Len(reversed) : reversed[i] \in LegacySet
  BY <1>2, LenProperties, ElementOfSeq
<1>4. ASSUME NEW do \in {enabling, "start"}, NEW l \in LegacySet
      PROVE  <<Again(when, do, l)>> \in Seq(P)
  <2>1. do \in {"enable-now", "enable-and-run", "start"}
    BY <1>4
  <2>2. Again(when, do, l) \in P
    BY <2>1
  <2> QED BY <2>2
<1> HIDE DEF enabling
<1>5. \A i \in 1..Len(reversed) : first[i] \in Seq(P) /\ then[i] \in Seq(P)
  <2>1. ASSUME NEW i \in 1..Len(reversed) PROVE first[i] \in Seq(P) /\ then[i] \in Seq(P)
    <3>1. <<Again(when, enabling, reversed[i])>> \in Seq(P) /\ <<Again(when, "start", reversed[i])>> \in Seq(P)
      BY <1>3, <1>4
    <3>2. /\ first[i] = Only(reversed[i] \in t.disabled, <<Again(when, enabling, reversed[i])>>)
          /\ then[i] = Only(reversed[i] \notin t.disabled, <<Again(when, "start", reversed[i])>>)
      BY <1>3
    <3> QED BY <3>1, <3>2, OnlyFits
  <2> QED BY <2>1
<1>6. first = [i \in 1..Len(reversed) |-> first[i]] /\ then = [i \in 1..Len(reversed) |-> then[i]]
  BY <1>3
<1> HIDE DEF first, then
<1>7. FlattenSeq(first) \in Seq(P) /\ FlattenSeq(then) \in Seq(P)
  BY <1>3, <1>5, <1>6, PartsFit
<1> QED BY <1>1, <1>7, ConcatFits

LEMMA AfterStartWithin ==
  ASSUME NEW t, NEW P, Reinstate(t, "unrestored") \in Seq(P)
  PROVE  ReinstateAfterStart(t) \in Seq(P)
<1> DEFINE all == Reinstate(t, "unrestored")
           chosen == [i \in DOMAIN all |-> Only(all[i].do = "start" \/ Canonical \notin t.stopped, <<all[i]>>)]
<1>1. ReinstateAfterStart(t) = FlattenSeq(chosen)
  BY DEF ReinstateAfterStart, Each, Where
<1> HIDE DEF all
<1>2. Len(all) \in Nat /\ DOMAIN all = 1..Len(all) /\ \A i \in 1..Len(all) : all[i] \in P
  BY LenProperties, ElementOfSeq DEF all
<1>3. \A i \in 1..Len(all) : <<all[i]>> \in Seq(P)
  BY <1>2
<1>4. \A i \in 1..Len(all) : chosen[i] \in Seq(P)
  BY <1>2, <1>3, OnlyFits
<1>5. chosen = [i \in 1..Len(all) |-> chosen[i]]
  BY <1>2
<1> HIDE DEF chosen
<1> QED BY <1>1, <1>2, <1>4, <1>5, PartsFit

LEMMA ReinstateFits ==
  ASSUME NEW t, t.legacy \in Seq(LegacySet), NEW when \in Conditions, NEW prior
  PROVE  Reinstate(t, when) \in Seq(Steps(prior, {Canonical}))
<1>0. PICK P : P = Steps(prior, {Canonical})
  OBVIOUS
<1>1. ASSUME NEW do \in {"enable-now", "enable-and-run", "start"}, NEW l \in LegacySet
      PROVE  Again(when, do, l) \in P
  <2>1. Command(do, l) \in Plain(prior, {Canonical})
    <3>1. do \in Verbs /\ l \in Service
      BY DEF Verbs, Service
    <3> HIDE DEF Verbs
    <3> QED BY <3>1, CommandFits
  <2>2. When(when, Command(do, l)) \in Plain(prior, {Canonical})
    BY <2>1, PlainExcept
  <2> DEFINE s == When(when, Command(do, l))
             r == [s EXCEPT !.on = "disable", !.restores = TRUE]
  <2>3. s \in Fields(Seq(Taking)) /\ Proper(s, prior, {Canonical})
    BY <2>2 DEF Plain, Steps
  <2> HIDE DEF s
  <2>4. r \in Fields(Seq(Taking)) /\ r.do = s.do /\ r.to = s.to
    BY <2>3 DEF Fields, Answers
  <2> HIDE DEF r
  <2>5. r \in P
    BY <1>0, <2>3, <2>4 DEF Steps, Proper
  <2> QED BY <2>5 DEF r, s, Again
<1>2. Reinstate(t, when) \in Seq(P)
  BY <1>1, ReinstateWithin
<1> QED BY <1>0, <1>2

LEMMA LinuxInstallRollbackFits ==
  ASSUME NEW t, t.legacy \in Seq(LegacySet)
  PROVE  LinuxInstallRollback(t) \in Seq(Steps(t.prior, {Canonical}))
<1>0. PICK P : P = Plain(t.prior, {Canonical})
  OBVIOUS
<1>00. PICK Q : Q = Steps(t.prior, {Canonical})
  OBVIOUS
<1> DEFINE again == t.prior # None /\ Canonical \in t.stopped
           stopped == <<Lenient("disable-now", Canonical)>>
           restored == <<Command("restore-files", Canonical), Command("restore-definition", Canonical)>>
           one == << When("restored", Lenient("disable-now", Canonical)) >>
           two == << When("unrestored", Lenient(IF again THEN "enable-now" ELSE "enable", Canonical)) >>
           three == << When("unrestored", Lenient("start", Canonical)) >>
<1>1. /\ Lenient("disable-now", Canonical) \in P /\ Command("restore-files", Canonical) \in P
      /\ Command("restore-definition", Canonical) \in P /\ Lenient("start", Canonical) \in P
      /\ Lenient("enable-now", Canonical) \in P /\ Lenient("enable", Canonical) \in P
  BY <1>0, CanonicalFits DEF Verbs
<1>2. /\ When("restored", Lenient("disable-now", Canonical)) \in P
      /\ When("unrestored", Lenient(IF again THEN "enable-now" ELSE "enable", Canonical)) \in P
      /\ When("unrestored", Lenient("start", Canonical)) \in P
  <2>1. Lenient(IF again THEN "enable-now" ELSE "enable", Canonical) \in P
    BY <1>1
  <2> HIDE DEF again
  <2> QED BY <1>0, <1>1, <2>1, PlainExcept DEF Conditions
<1>3. LinuxInstallRollback(t) =
           Only(t.mutated, stopped)
        \o Only(t.prior # None /\ t.mutated, restored)
        \o Only(~again, Reinstate(t, "unrestored"))
        \o Only(t.prior # None, one \o (IF t.mutated THEN two ELSE Only(again, three)))
  BY DEF LinuxInstallRollback
<1>4. /\ stopped \in Seq(P) /\ restored \in Seq(P) /\ one \in Seq(P) /\ two \in Seq(P) /\ three \in Seq(P)
  BY <1>1, <1>2
<1> HIDE DEF stopped, restored, one, two, three, again
<1>5. /\ stopped \in Seq(Q) /\ restored \in Seq(Q) /\ one \in Seq(Q) /\ two \in Seq(Q) /\ three \in Seq(Q)
  BY <1>0, <1>00, <1>4, PlainAreSteps
<1>6. Reinstate(t, "unrestored") \in Seq(Q)
  BY <1>00, ReinstateFits DEF Conditions
<1>7. Only(t.mutated, stopped) \in Seq(Q) /\ Only(t.prior # None /\ t.mutated, restored) \in Seq(Q)
      /\ Only(~again, Reinstate(t, "unrestored")) \in Seq(Q)
  BY <1>5, <1>6, OnlyFits
<1>8. Only(t.prior # None, one \o (IF t.mutated THEN two ELSE Only(again, three))) \in Seq(Q)
  <2>1. (IF t.mutated THEN two ELSE Only(again, three)) \in Seq(Q)
    BY <1>5, OnlyFits
  <2>2. one \o (IF t.mutated THEN two ELSE Only(again, three)) \in Seq(Q)
    BY <1>5, <2>1, ConcatFits
  <2> QED BY <2>2, OnlyFits
<1> QED BY <1>00, <1>3, <1>7, <1>8, ConcatFits

LEMMA ReinstateAfterStartFits ==
  ASSUME NEW t, t.legacy \in Seq(LegacySet), NEW prior
  PROVE  ReinstateAfterStart(t) \in Seq(Steps(prior, {Canonical}))
BY ReinstateFits, AfterStartWithin DEF Conditions

LEMMA StartRollbackFits ==
  ASSUME NEW t, t.legacy \in Seq(LegacySet)
  PROVE  /\ LinuxStartRollback(t) \in Seq(Steps(t.prior, {Canonical}))
         /\ WindowsStartRollback(t) \in Seq(Steps(t.prior, {Canonical}))
<1>0. PICK P : P = Plain(t.prior, {Canonical})
  OBVIOUS
<1>00. PICK Q : Q = Steps(t.prior, {Canonical})
  OBVIOUS
<1> DEFINE again == Canonical \in t.stopped
           stopped == <<Lenient("stop", Canonical)>>
           disabled == <<Lenient("disable", Canonical)>>
           one == << When("restored", Lenient("disable-now", Canonical)) >>
           two == << When("unrestored", Lenient("enable", Canonical)) >>
           three == << When("unrestored", Lenient("start", Canonical)) >>
<1>1. /\ Lenient("stop", Canonical) \in P /\ Lenient("disable", Canonical) \in P
      /\ Lenient("disable-now", Canonical) \in P /\ Lenient("start", Canonical) \in P
      /\ Lenient("enable", Canonical) \in P
  BY <1>0, CanonicalFits DEF Verbs
<1>2. /\ When("restored", Lenient("disable-now", Canonical)) \in P
      /\ When("unrestored", Lenient("enable", Canonical)) \in P
      /\ When("unrestored", Lenient("start", Canonical)) \in P
  BY <1>0, <1>1, PlainExcept DEF Conditions
<1>3. LinuxStartRollback(t) = Only(t.restart, stopped) \o ReinstateAfterStart(t)
                              \o Only(t.restart, one \o Only(again, three))
  BY DEF LinuxStartRollback
<1>4. WindowsStartRollback(t) = Only(t.restart, disabled) \o ReinstateAfterStart(t)
                                \o Only(t.restart, two \o Only(again, three))
  BY DEF WindowsStartRollback
<1>5. stopped \in Seq(P) /\ disabled \in Seq(P) /\ one \in Seq(P) /\ two \in Seq(P) /\ three \in Seq(P)
  BY <1>1, <1>2
<1> HIDE DEF stopped, disabled, one, two, three, again
<1>6. stopped \in Seq(Q) /\ disabled \in Seq(Q) /\ one \in Seq(Q) /\ two \in Seq(Q) /\ three \in Seq(Q)
  BY <1>0, <1>00, <1>5, PlainAreSteps
<1>7. ReinstateAfterStart(t) \in Seq(Q)
  BY <1>00, ReinstateAfterStartFits
<1>8. Only(t.restart, stopped) \in Seq(Q) /\ Only(t.restart, disabled) \in Seq(Q) /\ Only(again, three) \in Seq(Q)
  BY <1>6, OnlyFits
<1>9. one \o Only(again, three) \in Seq(Q) /\ two \o Only(again, three) \in Seq(Q)
  BY <1>6, <1>8, ConcatFits
<1>10. /\ Only(t.restart, one \o Only(again, three)) \in Seq(Q)
       /\ Only(t.restart, two \o Only(again, three)) \in Seq(Q)
  BY <1>9, OnlyFits
<1>11. LinuxStartRollback(t) \in Seq(Q)
  BY <1>3, <1>7, <1>8, <1>10, ConcatFits
<1>12. WindowsStartRollback(t) \in Seq(Q)
  BY <1>4, <1>7, <1>8, <1>10, ConcatFits
<1> QED BY <1>00, <1>11, <1>12

LEMMA WindowsInstallRollbackFits ==
  ASSUME NEW t
  PROVE  WindowsInstallRollback(t) \in Seq(Steps(t.prior, {Canonical}))
<1>0. PICK P : P = Plain(t.prior, {Canonical})
  OBVIOUS
<1> DEFINE files == <<Command("restore-files", Canonical)>>
           definition == <<Command("restore-definition", Canonical)>>
           start == <<Command("start", Canonical)>>
           both == definition \o Only(Canonical \in t.stopped, start)
           all == files \o Only(t.before.defined[Canonical] # 0, both)
<1>1. /\ Command("restore-files", Canonical) \in P /\ Command("restore-definition", Canonical) \in P
      /\ Command("start", Canonical) \in P
  BY <1>0, CanonicalFits DEF Verbs
<1>2. files \in Seq(P) /\ definition \in Seq(P) /\ start \in Seq(P)
  BY <1>1
<1>3. WindowsInstallRollback(t) = Only(t.prior # None /\ t.mutated, all)
  BY DEF WindowsInstallRollback
<1> HIDE DEF files, definition, start
<1>4. both \in Seq(P)
  <2>1. Only(Canonical \in t.stopped, start) \in Seq(P)
    BY <1>2, OnlyFits
  <2> QED BY <1>2, <2>1, ConcatFits
<1> HIDE DEF both
<1>5. all \in Seq(P)
  <2>1. Only(t.before.defined[Canonical] # 0, both) \in Seq(P)
    BY <1>4, OnlyFits
  <2> QED BY <1>2, <2>1, ConcatFits
<1> HIDE DEF all
<1>6. WindowsInstallRollback(t) \in Seq(P)
  BY <1>3, <1>5, OnlyFits
<1> QED BY <1>0, <1>6, PlainAreSteps

LEMMA RollbackFits ==
  ASSUME NEW t \in Transaction, undo \in Seq(Seq(Taking))
  PROVE  Rollback(t) \in Seq(Steps(t.prior, {Canonical}))
<1>1. t.legacy \in Seq(LegacySet) /\ t.before.platform \in Platform
  BY DEF Transaction, Machine
<1>2. FlattenSeq(Reverse(undo)) \in Seq(Steps(t.prior, {Canonical}))
  <2>1. Taking \subseteq Steps(t.prior, {Canonical})
    BY StepSets
  <2>2. FlattenSeq(Reverse(undo)) \in Seq(Taking)
    BY ReverseFits, FlattenFits
  <2> QED BY <2>1, <2>2, SeqMonotonic
<1>3. Rollback(t) \in {FlattenSeq(Reverse(undo)), LinuxStartRollback(t), LinuxInstallRollback(t),
                       WindowsStartRollback(t), WindowsInstallRollback(t)}
  <2>1. t.before.platform = "darwin" \/ t.before.platform = "linux" \/ t.before.platform = "win32"
    BY <1>1 DEF Platform
  <2> QED BY <2>1 DEF Rollback
<1> QED BY <1>1, <1>2, <1>3, LinuxInstallRollbackFits, StartRollbackFits, WindowsInstallRollbackFits

LEMMA MendFits ==
  ASSUME NEW m
  PROVE  Mend(m) \in Seq(Steps(tx.prior, {Canonical}))
<1>0. PICK P : P = Plain(tx.prior, {Canonical})
  OBVIOUS
<1>1. /\ Lenient("drop-two", Canonical) \in P /\ Lenient("drop-previous", Canonical) \in P
      /\ Command("write-planned", Canonical) \in P
  BY <1>0, CanonicalFits DEF Verbs
<1>2. /\ <<Lenient("drop-two", Canonical)>> \in Seq(P) /\ <<Lenient("drop-previous", Canonical)>> \in Seq(P)
      /\ <<Command("write-planned", Canonical)>> \in Seq(P) /\ <<>> \in Seq(P)
  BY <1>1
<1>3. CASE tx.prior # None
  <2>1. Command("write-prior", Canonical) \in P
    BY <1>0, <1>3, CommandFits DEF Verbs, Service
  <2>2. <<Command("write-prior", Canonical)>> \in Seq(P)
    BY <2>1
  <2>3. Only(tx.prior.format = 1, <<Lenient("drop-two", Canonical)>>) \in Seq(P)
    BY <1>2, OnlyFits
  <2> DEFINE all == <<Command("write-prior", Canonical)>>
                    \o Only(tx.prior.format = 1, <<Lenient("drop-two", Canonical)>>)
                    \o <<Lenient("drop-previous", Canonical)>>
  <2>4. all \in Seq(P)
    BY <1>2, <2>2, <2>3, ConcatFits
  <2>5. Mend(m) \in {<<>>, Only(Owns(m, tx.prior), all)}
    BY <1>3 DEF Mend
  <2> HIDE DEF all
  <2> QED BY <1>0, <1>2, <2>4, <2>5, OnlyFits, PlainAreSteps
<1>4. CASE tx.prior = None
  <2>1. Mend(m) \in {<<>>, <<Command("write-planned", Canonical)>>, <<Lenient("drop-two", Canonical)>>}
    BY <1>4 DEF Mend
  <2>2. Mend(m) \in Seq(P)
    BY <1>2, <2>1
  <2> QED BY <1>0, <2>2, PlainAreSteps
<1> QED BY <1>3, <1>4

\* The canonical service is uninstalled, and a failure skips the rest of it.
LEMMA CleanupFits ==
  ASSUME NEW prior, NEW s,
         s = [i \in 1..5 |-> [WindowsUninstall(Canonical)[i] EXCEPT !.on = IF @ = "throw" THEN "cleanup" ELSE @]]
  PROVE  s \in Seq(Steps(prior, {Canonical}))
<1>1. WindowsUninstall(Canonical) \in Seq(Plain(prior, {Canonical}))
  BY UninstallFits DEF Service
<1>2. Len(WindowsUninstall(Canonical)) = 5
  <2> DEFINE w == <<Command("quiesce", Canonical), Lenient("stop", Canonical), Command("undefine", Canonical),
                    Command("forget", Canonical), Command("wipe", Canonical)>>
  <2>1. Len(w) = 5 /\ DOMAIN w = 1..5
    OBVIOUS
  <2>2. WindowsUninstall(Canonical) = In("after", w)
    BY DEF WindowsUninstall
  <2> HIDE DEF w
  <2>3. DOMAIN WindowsUninstall(Canonical) = 1..5
    BY <2>1, <2>2 DEF In
  <2> QED BY <1>1, <2>3, LenProperties
<1>3. \A i \in 1..5 : WindowsUninstall(Canonical)[i] \in Plain(prior, {Canonical})
  BY <1>1, <1>2, ElementOfSeq
<1>4. ASSUME NEW p \in Plain(prior, {Canonical})
      PROVE  [p EXCEPT !.on = IF @ = "throw" THEN "cleanup" ELSE @] \in Steps(prior, {Canonical})
  <2> DEFINE r == [p EXCEPT !.on = IF @ = "throw" THEN "cleanup" ELSE @]
  <2>1. p \in Fields(Seq(Taking)) /\ Proper(p, prior, {Canonical})
    BY DEF Plain, Steps
  <2>2. r \in Fields(Seq(Taking)) /\ r.do = p.do /\ r.to = p.to
    BY <2>1 DEF Fields, Answers
  <2> HIDE DEF r
  <2>3. r \in Steps(prior, {Canonical})
    BY <2>1, <2>2 DEF Steps, Proper
  <2> QED BY <2>3 DEF r
<1>5. \A i \in 1..5 : s[i] \in Steps(prior, {Canonical})
  BY <1>3, <1>4
<1>6. s = [i \in 1..5 |-> s[i]] /\ 5 \in Nat
  OBVIOUS
<1> QED BY <1>5, <1>6, SeqFits

LEMMA HandBackFits ==
  ASSUME NEW m, tx \in Transaction
  PROVE  HandBack(m) \in Seq(Steps(tx.prior, {Canonical}))
<1>0. PICK P : P = Steps(tx.prior, {Canonical})
  OBVIOUS
<1> DEFINE attempted == ReadRecord(m) # None /\ Owns(m, ReadRecord(m))
           before == ReadRecord(tx.before)
           uninstalls == [i \in 1..5 |-> [WindowsUninstall(Canonical)[i] EXCEPT
                                           !.on = IF @ = "throw" THEN "cleanup" ELSE @]]
           keeps == before # None /\ Owns(m, before)
           yields == <<Lenient("stop", Canonical), Lenient("yield", Canonical)>>
           yielding == keeps /\ tx.before.running # Canonical /\ tx.stopped \ {Canonical} # {}
<1>1. HandBack(m) = Only(attempted /\ ~keeps, uninstalls) \o Only(yielding, yields) \o Reinstate(tx, "handed-back")
  BY DEF HandBack
<1>2. uninstalls \in Seq(P)
  BY <1>0, CleanupFits
<1>3. yields \in Seq(P)
  <2>1. /\ Lenient("stop", Canonical) \in Plain(tx.prior, {Canonical})
        /\ Lenient("yield", Canonical) \in Plain(tx.prior, {Canonical})
    BY CanonicalFits DEF Verbs
  <2>2. yields \in Seq(Plain(tx.prior, {Canonical}))
    BY <2>1
  <2> QED BY <1>0, <2>2, PlainAreSteps
<1>4. Reinstate(tx, "handed-back") \in Seq(P)
  <2>1. tx.legacy \in Seq(LegacySet)
    BY DEF Transaction
  <2> QED BY <1>0, <2>1, ReinstateFits DEF Conditions
<1> HIDE DEF attempted, keeps, yielding, uninstalls, yields
<1>5. Only(attempted /\ ~keeps, uninstalls) \in Seq(P) /\ Only(yielding, yields) \in Seq(P)
  BY <1>2, <1>3, OnlyFits
<1> QED BY <1>0, <1>1, <1>4, <1>5, ConcatFits

-----------------------------------------------------------------------------
(* What commands do to a machine.                                          *)

LEMMA RecordsChange ==
  ASSUME NEW m \in Machine, NEW r \in Record \cup {None}
  PROVE  /\ [m EXCEPT !.two = r] \in Machine /\ [m EXCEPT !.two = r].defined = m.defined
         /\ [m EXCEPT !.one = r] \in Machine /\ [m EXCEPT !.one = r].defined = m.defined
         /\ [m EXCEPT !.previous = r] \in Machine /\ [m EXCEPT !.previous = r].defined = m.defined
<1>1. [m EXCEPT !.two = r] \in Machine /\ [m EXCEPT !.two = r].defined = m.defined
  BY DEF Machine
<1>2. [m EXCEPT !.one = r] \in Machine /\ [m EXCEPT !.one = r].defined = m.defined
  BY DEF Machine
<1>3. [m EXCEPT !.previous = r] \in Machine /\ [m EXCEPT !.previous = r].defined = m.defined
  BY DEF Machine
<1> QED BY <1>1, <1>2, <1>3

LEMMA RuntimeChanges ==
  ASSUME NEW m \in Machine, NEW b \in Bytes
  PROVE  [m EXCEPT !.runtime = b] \in Machine /\ [m EXCEPT !.runtime = b].defined = m.defined
BY DEF Machine

LEMMA BackupsChange ==
  ASSUME NEW m \in Machine, NEW b \in SUBSET [of : Record, bytes : Bytes, format : 0..2]
  PROVE  [m EXCEPT !.backups = b] \in Machine /\ [m EXCEPT !.backups = b].defined = m.defined
BY DEF Machine

LEMMA CommandsChange ==
  ASSUME NEW m \in Machine, NEW s \in Service
  PROVE  /\ Started(m, s) \in Machine /\ Started(m, s).defined = m.defined
         /\ Stopped(m, s) \in Machine /\ Stopped(m, s).defined = m.defined
         /\ Enabled(m, s) \in Machine /\ Enabled(m, s).defined = m.defined
         /\ Disabled(m, s) \in Machine /\ Disabled(m, s).defined = m.defined
<1>1. Started(m, s) \in Machine /\ Started(m, s).defined = m.defined
  BY DEF Machine, Started
<1>2. Stopped(m, s) \in Machine /\ Stopped(m, s).defined = m.defined
  BY DEF Machine, Stopped
<1>3. Enabled(m, s) \in Machine /\ Enabled(m, s).defined = m.defined
  BY DEF Machine, Enabled
<1>4. Disabled(m, s) \in Machine /\ Disabled(m, s).defined = m.defined
  BY DEF Machine, Disabled
<1> QED BY <1>1, <1>2, <1>3, <1>4

Redefined(m, s, format, enabled) == [m EXCEPT !.defined[s] = format, !.enabled = enabled]

LEMMA DefinitionChanges ==
  ASSUME NEW m \in Machine, NEW s \in Service, NEW format \in 0..2, NEW enabled \in SUBSET Service
  PROVE  /\ Redefined(m, s, format, enabled) \in Machine
         /\ \A x \in Service : Redefined(m, s, format, enabled).defined[x] = IF x = s THEN format ELSE m.defined[x]
BY DEF Machine, Redefined

LEMMA LoadedChanges ==
  ASSUME NEW m \in Machine, NEW e \in SUBSET Service
  PROVE  [m EXCEPT !.loaded = e] \in Machine /\ [m EXCEPT !.loaded = e].defined = m.defined
BY DEF Machine

\* The service manager.
LEMMA CommandedChanges ==
  ASSUME NEW m \in Machine, NEW s \in Service, NEW do \in Verbs
  PROVE  /\ Commanded(m, do, s) \in Machine
         /\ \A x \in Service :
              Commanded(m, do, s).defined[x] = IF do = "undefine" /\ x = s THEN 0 ELSE m.defined[x]
<1> DEFINE c == Commanded(m, do, s)
<1> SUFFICES /\ c \in Machine
             /\ \A x \in Service : c.defined[x] = IF do = "undefine" /\ x = s THEN 0 ELSE m.defined[x]
  OBVIOUS
<1> HIDE DEF Verbs, c
<1>1. CASE do \in {"start", "kickstart", "stop", "quiesce", "enable", "disable"}
  <2>1. do # "undefine" /\ (c = Started(m, s) \/ c = Stopped(m, s) \/ c = Enabled(m, s) \/ c = Disabled(m, s))
    BY <1>1 DEF Commanded, c
  <2>2. /\ Started(m, s) \in Machine /\ Started(m, s).defined = m.defined
        /\ Stopped(m, s) \in Machine /\ Stopped(m, s).defined = m.defined
        /\ Enabled(m, s) \in Machine /\ Enabled(m, s).defined = m.defined
        /\ Disabled(m, s) \in Machine /\ Disabled(m, s).defined = m.defined
    BY CommandsChange
  <2> QED BY <2>1, <2>2
<1>2. CASE do = "enable-now"
  <2>1. c = Started(Enabled(m, s), s) /\ do # "undefine"
    BY <1>2 DEF Commanded, c
  <2>2. Enabled(m, s) \in Machine /\ Enabled(m, s).defined = m.defined
    BY CommandsChange
  <2>3. Started(Enabled(m, s), s) \in Machine /\ Started(Enabled(m, s), s).defined = m.defined
    BY <2>2, CommandsChange
  <2> QED BY <2>1, <2>3
<1>3. CASE do = "disable-now"
  <2>1. c = Stopped(Disabled(m, s), s) /\ do # "undefine"
    BY <1>3 DEF Commanded, c
  <2>2. Disabled(m, s) \in Machine /\ Disabled(m, s).defined = m.defined
    BY CommandsChange
  <2>3. Stopped(Disabled(m, s), s) \in Machine /\ Stopped(Disabled(m, s), s).defined = m.defined
    BY <2>2, CommandsChange
  <2> QED BY <2>1, <2>3
<1>4. CASE do = "bootout"
  <2>1. c = [Stopped(m, s) EXCEPT !.loaded = Stopped(m, s).loaded \ {s}] /\ do # "undefine"
    BY <1>4 DEF Commanded, c
  <2>2. Stopped(m, s) \in Machine /\ Stopped(m, s).defined = m.defined
    BY CommandsChange
  <2>3. Stopped(m, s).loaded \ {s} \in SUBSET Service
    BY <2>2 DEF Machine
  <2> QED BY <2>1, <2>2, <2>3, LoadedChanges
<1>5. CASE do = "bootstrap"
  <2>1. c = [Started(m, s) EXCEPT !.loaded = Started(m, s).loaded \cup {s}] /\ do # "undefine"
    BY <1>5 DEF Commanded, c
  <2>2. Started(m, s) \in Machine /\ Started(m, s).defined = m.defined
    BY CommandsChange
  <2>3. Started(m, s).loaded \cup {s} \in SUBSET Service
    BY <2>2 DEF Machine
  <2> QED BY <2>1, <2>2, <2>3, LoadedChanges
<1>6. CASE do = "undefine"
  <2> DEFINE e == IF m.platform = "win32" THEN m.enabled \ {s} ELSE m.enabled
  <2>1. c = Redefined(m, s, 0, e)
    BY <1>6 DEF Commanded, Redefined, c
  <2>2. e \in SUBSET Service /\ 0 \in 0..2
    BY DEF Machine
  <2> HIDE DEF e
  <2>3. c \in Machine /\ \A x \in Service : c.defined[x] = IF x = s THEN 0 ELSE m.defined[x]
    BY <2>1, <2>2, DefinitionChanges
  <2> QED BY <1>6, <2>3
<1>7. CASE do = "wipe"
  <2> DEFINE b == IF s = Canonical THEN Absent ELSE m.runtime
  <2>1. c = [m EXCEPT !.runtime = b] /\ do # "undefine"
    BY <1>7 DEF Commanded, c
  <2>2. b \in Bytes
    BY DEF Machine, Bytes
  <2> HIDE DEF b
  <2> QED BY <2>1, <2>2, RuntimeChanges
<1>8. CASE do = "forget"
  <2>1. do # "undefine" /\ (c = [m EXCEPT !.two = None, !.one = None, !.previous = None]
                            \/ c = [m EXCEPT !.listed = m.listed \ {s}])
    BY <1>8 DEF Commanded, c
  <2>2. /\ [m EXCEPT !.two = None, !.one = None, !.previous = None] \in Machine
        /\ [m EXCEPT !.two = None, !.one = None, !.previous = None].defined = m.defined
    BY DEF Machine
  <2>3. [m EXCEPT !.listed = m.listed \ {s}] \in Machine /\ [m EXCEPT !.listed = m.listed \ {s}].defined = m.defined
    BY DEF Machine
  <2> QED BY <2>1, <2>2, <2>3
<1>9. CASE do \notin {"start", "kickstart", "stop", "quiesce", "enable", "disable", "enable-now", "disable-now",
                      "bootout", "bootstrap", "undefine", "wipe", "forget"}
  <2>1. c = m /\ do # "undefine"
    BY <1>9 DEF Commanded, c
  <2> QED BY <2>1
<1> QED BY <1>1, <1>2, <1>3, <1>4, <1>5, <1>6, <1>7, <1>8, <1>9

LEMMA PlannedFits ==
  ASSUME tx \in Transaction, count \in Nat
  PROVE  Planned \in Record /\ Installed \in Record
BY DEF Transaction, Planned, Installed, Record

LEMMA BackupIs ==
  ASSUME NEW m \in Machine, Backups(m) # {}
  PROVE  Backup(m).bytes \in Bytes /\ Backup(m).format \in 0..2
<1>1. Backup(m) \in Backups(m)
  BY DEF Backup
<1>2. Backup(m) \in m.backups
  BY <1>1 DEF Backups
<1>3. m.backups \in SUBSET [of : Record, bytes : Bytes, format : 0..2]
  BY DEF Machine
<1> QED BY <1>2, <1>3

\* A command leaves a machine, and no definition of a legacy service is gone but
\* one that it removes.
LEMMA EffectFits ==
  ASSUME tx \in Transaction, count \in Nat, NEW m \in Machine, NEW step \in Steps(tx.prior, Service),
         Can(m, step.do, step.to)
  PROVE  /\ Effect(m, step.do, step.to) \in Machine
         /\ \A l \in LegacySet : m.defined[l] # 0 /\ Effect(m, step.do, step.to).defined[l] = 0
                                   => step.do = "undefine" /\ step.to = l
<1> DEFINE do == step.do
           s == step.to
           c == Effect(m, do, s)
<1>1. do \in Verbs /\ s \in Service /\ (do \in {"backup", "write-prior"} => tx.prior # None)
      /\ (do \in {"define", "restore-definition"} => s = Canonical)
  BY DEF Steps, Fields, Proper
<1>2. /\ Can(m, do, s) /\ tx.prior \in Record \cup {None} /\ Planned \in Record /\ Installed \in Record
      /\ tx.version \in Bytes
  BY PlannedFits DEF Transaction, Bytes
<1> SUFFICES /\ c \in Machine
             /\ \A l \in LegacySet : m.defined[l] # 0 /\ c.defined[l] = 0 => do = "undefine" /\ s = l
  OBVIOUS
<1> HIDE DEF Verbs, do, s, c
<1>3. CASE do \in {"previous", "drop-previous", "drop-one", "drop-two", "pending", "write-planned", "commit",
                   "write-prior"}
  <2>1. PICK r \in Record \cup {None} :
          c \in {[m EXCEPT !.previous = r], [m EXCEPT !.two = r], [m EXCEPT !.one = r]}
    <3>1. CASE do = "previous"
      <4>1. c = [m EXCEPT !.previous = tx.prior]
        BY <3>1 DEF Effect, c
      <4> QED BY <1>2, <4>1
    <3>2. CASE do = "drop-previous"
      <4>1. c = [m EXCEPT !.previous = None]
        BY <3>2 DEF Effect, c
      <4> QED BY <4>1
    <3>3. CASE do = "drop-one"
      <4>1. c = [m EXCEPT !.one = None]
        BY <3>3 DEF Effect, c
      <4> QED BY <4>1
    <3>4. CASE do = "drop-two"
      <4>1. c = [m EXCEPT !.two = None]
        BY <3>4 DEF Effect, c
      <4> QED BY <4>1
    <3>5. CASE do = "pending"
      <4> DEFINE r == IF tx.prior # None THEN Planned ELSE None
      <4>1. c = [m EXCEPT !.two = r]
        BY <3>5 DEF Effect, c
      <4>2. r \in Record \cup {None}
        BY <1>2
      <4> HIDE DEF r
      <4> QED BY <4>1, <4>2
    <3>6. CASE do = "write-planned"
      <4>1. c = [m EXCEPT !.two = Planned]
        BY <3>6 DEF Effect, c
      <4> QED BY <1>2, <4>1
    <3>7. CASE do = "commit"
      <4>1. c = [m EXCEPT !.two = Installed]
        BY <3>7 DEF Effect, c
      <4> QED BY <1>2, <4>1
    <3>8. CASE do = "write-prior"
      <4>1. c = [m EXCEPT !.one = tx.prior] \/ c = [m EXCEPT !.two = tx.prior]
        BY <3>8 DEF Effect, c
      <4> QED BY <1>2, <4>1
    <3> QED BY <1>3, <3>1, <3>2, <3>3, <3>4, <3>5, <3>6, <3>7, <3>8
  <2>2. /\ [m EXCEPT !.two = r] \in Machine /\ [m EXCEPT !.two = r].defined = m.defined
        /\ [m EXCEPT !.one = r] \in Machine /\ [m EXCEPT !.one = r].defined = m.defined
        /\ [m EXCEPT !.previous = r] \in Machine /\ [m EXCEPT !.previous = r].defined = m.defined
    BY RecordsChange
  <2> QED BY <2>1, <2>2
<1>4. CASE do = "backup"
  <2> DEFINE b == m.backups \cup {[of |-> tx.prior, bytes |-> m.runtime, format |-> m.defined[s]]}
  <2>1. c = m \/ c = [m EXCEPT !.backups = b]
    BY <1>4 DEF Effect, c
  <2>2. b \in SUBSET [of : Record, bytes : Bytes, format : 0..2]
    <3>1. /\ m.backups \in SUBSET [of : Record, bytes : Bytes, format : 0..2]
          /\ m.runtime \in Bytes /\ m.defined[s] \in 0..2
      BY <1>1 DEF Machine
    <3>2. tx.prior \in Record
      BY <1>1, <1>2, <1>4
    <3> QED BY <3>1, <3>2
  <2> HIDE DEF b
  <2>3. c \in Machine /\ c.defined = m.defined
    BY <2>1, <2>2, BackupsChange
  <2> QED BY <2>3
<1>5. CASE do = "unstage"
  <2>1. c = [m EXCEPT !.backups = m.backups \ Backups(m)]
    BY <1>5 DEF Effect, c
  <2>2. m.backups \ Backups(m) \in SUBSET [of : Record, bytes : Bytes, format : 0..2]
    BY DEF Machine
  <2>3. c \in Machine /\ c.defined = m.defined
    BY <2>1, <2>2, BackupsChange
  <2> QED BY <2>3
<1>6. CASE do = "runtime"
  <2>1. c = [m EXCEPT !.runtime = tx.version]
    BY <1>6 DEF Effect, c
  <2>2. c \in Machine /\ c.defined = m.defined
    BY <1>2, <2>1, RuntimeChanges
  <2> QED BY <2>2
<1>7. CASE do = "restore-files"
  <2>1. c = [m EXCEPT !.runtime = Backup(m).bytes]
    BY <1>7 DEF Effect, c
  <2>2. Backup(m).bytes \in Bytes
    BY <1>2, <1>7, BackupIs DEF Can
  <2>3. c \in Machine /\ c.defined = m.defined
    BY <2>1, <2>2, RuntimeChanges
  <2> QED BY <2>3
<1>8. CASE do \in {"define", "restore-definition"}
  <2> DEFINE e == IF m.platform = "win32" THEN m.enabled \cup {s} ELSE m.enabled
  <2>1. PICK format \in 0..2 :
          c = Redefined(m, s, format, e) /\ (do = "define" => format = 2)
    <3>1. CASE do = "define"
      <4>1. c = Redefined(m, s, 2, e)
        BY <3>1 DEF Effect, Redefined, c
      <4> QED BY <4>1
    <3>2. CASE do = "restore-definition"
      <4>1. c = Redefined(m, s, Backup(m).format, e)
        BY <3>2 DEF Effect, Redefined, c
      <4>2. Backup(m).format \in 0..2
        BY <1>2, <3>2, BackupIs DEF Can
      <4>3. do # "define"
        BY <3>2
      <4> QED BY <4>1, <4>2, <4>3
    <3> QED BY <1>8, <3>1, <3>2
  <2>2. e \in SUBSET Service
    BY <1>1 DEF Machine
  <2> HIDE DEF e
  <2>3. c \in Machine /\ \A x \in Service : c.defined[x] = IF x = s THEN format ELSE m.defined[x]
    BY <1>1, <2>1, <2>2, DefinitionChanges
  <2>4. do = "define" \/ s \notin LegacySet
    BY <1>1, <1>8, TargetsAssumption
  <2>5. ASSUME NEW l \in LegacySet, m.defined[l] # 0 PROVE c.defined[l] # 0
    <3>1. l \in Service
      BY DEF Service
    <3> QED BY <2>1, <2>3, <2>4, <2>5, <3>1
  <2> QED BY <2>3, <2>5
<1>9. CASE do = "yield"
  <2>1. c = Disabled(m, s)
    BY <1>9 DEF Effect, c
  <2>2. c \in Machine /\ c.defined = m.defined
    BY <1>1, <2>1, CommandsChange
  <2> QED BY <2>2
<1>10. CASE do = "enable-and-run"
  <2>1. c = Started(Enabled(m, s), s)
    BY <1>10 DEF Effect, c
  <2>2. Enabled(m, s) \in Machine /\ Enabled(m, s).defined = m.defined
    BY <1>1, CommandsChange
  <2>3. c \in Machine /\ c.defined = m.defined
    BY <1>1, <2>1, <2>2, CommandsChange
  <2> QED BY <2>3
<1>11. CASE do \notin {"previous", "drop-previous", "drop-one", "drop-two", "pending", "write-planned", "commit",
                       "write-prior", "backup", "unstage", "runtime", "restore-files", "define",
                       "restore-definition", "yield", "enable-and-run"}
  <2>1. c = Commanded(m, do, s)
    BY <1>11 DEF Effect, c
  <2>2. c \in Machine /\ \A x \in Service : c.defined[x] = IF do = "undefine" /\ x = s THEN 0 ELSE m.defined[x]
    BY <1>1, <2>1, CommandedChanges
  <2>3. LegacySet \subseteq Service
    BY DEF Service
  <2> QED BY <2>2, <2>3
<1> QED BY <1>3, <1>4, <1>5, <1>6, <1>7, <1>8, <1>9, <1>10, <1>11

LEMMA AfterFailureFits ==
  ASSUME tx \in Transaction, count \in Nat, NEW m \in Machine, NEW step \in Steps(tx.prior, Service),
         NEW n \in AfterFailure(m, step.do, step.to)
  PROVE  /\ n \in Machine
         /\ \A l \in LegacySet : m.defined[l] # 0 /\ n.defined[l] = 0 => step.do = "undefine" /\ step.to = l
<1>1. CASE n = m
  BY <1>1
<1>2. CASE n = Effect(m, step.do, step.to) /\ Can(m, step.do, step.to)
  BY <1>2, EffectFits
<1>3. CASE n = [m EXCEPT !.runtime = Mixed]
  <2>1. Mixed \in Bytes
    BY DEF Bytes
  <2>2. n \in Machine /\ n.defined = m.defined
    BY <1>3, <2>1, RuntimeChanges
  <2> QED BY <2>2
<1>4. CASE n = Enabled(m, step.to)
  <2>1. step.to \in Service
    BY DEF Steps, Fields
  <2>2. n \in Machine /\ n.defined = m.defined
    BY <1>4, <2>1, CommandsChange
  <2> QED BY <2>2
<1> QED BY <1>1, <1>2, <1>3, <1>4 DEF AfterFailure

-----------------------------------------------------------------------------
(* Transactions begin and take notes.                                      *)

LEMMA RecordRead ==
  ASSUME NEW m \in Machine
  PROVE  ReadRecord(m) \in Record \cup {None} /\ PreviousOwner(m) \in Record \cup {None}
<1>1. m.two \in Record \cup {None} /\ m.one \in Record \cup {None} /\ m.previous \in Record \cup {None}
  BY DEF Machine
<1>2. ReadRecord(m) \in Record \cup {None}
  BY <1>1 DEF ReadRecord
<1> QED BY <1>1, <1>2 DEF PreviousOwner

LEMMA BegunFits ==
  ASSUME NEW kind \in Kinds, NEW target \in Service, NEW version \in Versions \cup {0},
         NEW prior \in Record \cup {None}, NEW restart \in BOOLEAN, NEW m \in Machine,
         NEW t, t = Begun(kind, target, version, prior, restart, m)
  PROVE  /\ t \in Transaction
         /\ t.kind = kind /\ t.prior = prior /\ t.restart = restart /\ t.answered = ~restart
<1> DEFINE chosen == [i \in DOMAIN Legacies |-> Only(Legacies[i] \in m.listed, <<Legacies[i]>>)]
           legacy == FlattenSeq(chosen)
<1>1. legacy \in Seq(LegacySet)
  <2>1. Legacies \in Seq(LegacySet)
    BY TargetsAssumption
  <2>2. Len(Legacies) \in Nat /\ DOMAIN Legacies = 1..Len(Legacies)
        /\ \A i \in 1..Len(Legacies) : Legacies[i] \in LegacySet
    BY <2>1, LenProperties, ElementOfSeq
  <2>3. \A i \in 1..Len(Legacies) : <<Legacies[i]>> \in Seq(LegacySet)
    BY <2>2
  <2>4. \A i \in 1..Len(Legacies) : chosen[i] \in Seq(LegacySet)
    BY <2>2, <2>3, OnlyFits
  <2>5. chosen = [i \in 1..Len(Legacies) |-> chosen[i]]
    BY <2>2
  <2> HIDE DEF chosen
  <2> QED BY <2>2, <2>4, <2>5, PartsFit
<1>2. t = [kind |-> kind, target |-> target, version |-> version, prior |-> prior, restart |-> restart,
           before |-> m, legacy |-> legacy, stopped |-> {}, disabled |-> {}, off |-> {},
           mutated |-> FALSE, created |-> FALSE, yielded |-> FALSE,
           restored |-> None, answered |-> ~restart, unsure |-> FALSE]
  BY DEF Begun, Each, Where
<1> HIDE DEF legacy
<1>3. (~restart) \in BOOLEAN
  OBVIOUS
<1>4. t \in Transaction
  BY <1>1, <1>2, <1>3 DEF Transaction
<1>5. t.kind = kind /\ t.prior = prior /\ t.restart = restart /\ t.answered = ~restart
  BY <1>2
<1> QED BY <1>4, <1>5

\* What the code notes leaves the transaction what it is.
LEMMA NotedFits ==
  ASSUME tx \in Transaction, NEW step \in Steps(tx.prior, Service)
  PROVE  /\ Tried(step) \in Transaction /\ Noted(step) \in Transaction
         /\ Tried(step).prior = tx.prior /\ Noted(step).prior = tx.prior
         /\ Tried(step).kind = tx.kind /\ Noted(step).kind = tx.kind
         /\ Tried(step).answered = tx.answered
         /\ Noted(step).answered = (tx.answered \/ step.do = "ready")
<1>1. step.to \in Service /\ step.restores \in BOOLEAN
  BY DEF Steps, Fields
<1> DEFINE u == Tried(step)
           n == Noted(step)
<1>2. u \in Transaction /\ u.prior = tx.prior /\ u.kind = tx.kind /\ u.answered = tx.answered
  <2> DEFINE disabled == IF phase = "forward" /\ step.do \in {"disable", "disable-now"}
                         THEN tx.disabled \cup {step.to} ELSE tx.disabled
             off == IF phase = "forward" /\ step.do = "enable" THEN tx.off \ {step.to} ELSE tx.off
             mutated == tx.mutated \/ step.do = "runtime"
  <2>1. u = [tx EXCEPT !.disabled = disabled, !.off = off, !.mutated = mutated]
    BY DEF Tried
  <2>2. disabled \in SUBSET Service /\ off \in SUBSET Service /\ mutated \in BOOLEAN
    BY <1>1 DEF Transaction
  <2> HIDE DEF u, disabled, off, mutated
  <2> QED BY <2>1, <2>2 DEF Transaction
<1>3. /\ n \in Transaction /\ n.prior = u.prior /\ n.kind = u.kind
      /\ n.answered = (u.answered \/ step.do = "ready")
  <2> DEFINE off == IF TurnsOff(step) THEN u.off \cup {step.to} ELSE u.off
             stopped == IF step.do = "quiesce" /\ machine.running = step.to THEN u.stopped \cup {step.to} ELSE u.stopped
             created == u.created \/ step.do = "define"
             answered == u.answered \/ step.do = "ready"
             yielded == u.yielded \/ step.do = "yield"
             restored == IF step.restores THEN step.to ELSE u.restored
  <2>1. n = [u EXCEPT !.off = off, !.stopped = stopped, !.created = created, !.answered = answered,
                      !.yielded = yielded, !.restored = restored]
    BY DEF Noted
  <2> HIDE DEF u
  <2>2. /\ off \in SUBSET Service /\ stopped \in SUBSET Service /\ created \in BOOLEAN
        /\ answered \in BOOLEAN /\ yielded \in BOOLEAN /\ restored \in Service \cup {None}
    BY <1>1, <1>2 DEF Transaction
  <2>3. answered = (u.answered \/ step.do = "ready")
    OBVIOUS
  <2> HIDE DEF n, off, stopped, created, answered, yielded, restored
  <2>5. u \in Transaction
    BY <1>2
  <2> DEFINE w == [u EXCEPT !.off = off, !.stopped = stopped, !.created = created]
  <2>8. w \in Transaction
    BY <2>5, <2>2 DEF Transaction
  <2>9. n = [w EXCEPT !.answered = answered, !.yielded = yielded, !.restored = restored]
    BY <2>5, <2>1 DEF Transaction
  <2> DEFINE y == [w EXCEPT !.answered = answered, !.yielded = yielded]
  <2>10. n = [y EXCEPT !.restored = restored]
    BY <2>8, <2>9 DEF Transaction
  <2> HIDE DEF w
  <2>11. y \in Transaction
    BY <2>8, <2>2 DEF Transaction
  <2> HIDE DEF y
  <2>4. n \in Transaction
    <3>1. restored \in Service \cup {None}
      BY <2>2
    <3> QED BY <2>10, <2>11, <3>1 DEF Transaction
  <2>6. n.prior = u.prior /\ n.kind = u.kind
    BY <2>5, <2>1 DEF Transaction
  <2>7. n.answered = answered
    BY <2>5, <2>1 DEF Transaction
  <2> QED BY <2>3, <2>4, <2>6, <2>7
<1>4. n.answered = (tx.answered \/ step.do = "ready")
  <2> HIDE DEF u, n
  <2> QED BY <1>2, <1>3
<1>5. n \in Transaction /\ n.prior = tx.prior /\ n.kind = tx.kind
  <2> HIDE DEF u, n
  <2> QED BY <1>2, <1>3
<1> HIDE DEF u, n
<1>6. u = Tried(step) /\ n = Noted(step)
  BY DEF u, n
<1>7. Tried(step) \in Transaction /\ Noted(step) \in Transaction
  BY <1>2, <1>5, <1>6
<1>8. Tried(step).prior = tx.prior /\ Noted(step).prior = tx.prior
  BY <1>2, <1>5, <1>6
<1>9. Tried(step).kind = tx.kind /\ Noted(step).kind = tx.kind
  BY <1>2, <1>5, <1>6
<1>10. Tried(step).answered = tx.answered
  BY <1>2, <1>6
<1>11. Noted(step).answered = (tx.answered \/ step.do = "ready")
  BY <1>4, <1>6
<1> QED BY <1>7, <1>8, <1>9, <1>10, <1>11

\* The legacy services are finitely many, so of their versions one is the newest.
LEMMA VersionsBounded ==
  \E b \in Nat : \A l \in LegacySet : LegacyVersion[l] <= b
<1>1. Legacies \in Seq(LegacySet) /\ \A l \in LegacySet : LegacyVersion[l] \in Nat
  <2>1. LegacyVersion \in [LegacySet -> Versions \cup {0}] /\ Versions \cup {0} \in SUBSET Nat
    BY TargetsAssumption
  <2>2. \A l \in LegacySet : LegacyVersion[l] \in Versions \cup {0}
    BY <2>1
  <2> QED BY <2>1, <2>2, TargetsAssumption
<1>2. Len(Legacies) \in Nat /\ DOMAIN Legacies = 1..Len(Legacies)
      /\ \A i \in 1..Len(Legacies) : LegacyVersion[Legacies[i]] \in Nat
  BY <1>1, LenProperties, ElementOfSeq
<1> DEFINE v(i) == LegacyVersion[Legacies[i]]
           n == Len(Legacies)
<1> HIDE DEF v, n
<1>3. n \in Nat /\ \A i \in 1..n : v(i) \in Nat
  BY <1>2 DEF v, n
<1>4. ASSUME NEW k \in Nat, NEW b \in Nat, \A i \in 1..k : i <= n => v(i) <= b
      PROVE  \E c \in Nat : \A i \in 1..(k + 1) : i <= n => v(i) <= c
  <2>1. CASE k + 1 <= n
    <3>1. k + 1 \in 1..n
      BY <1>3, <2>1
    <3>2. PICK c \in Nat : c >= b /\ c >= v(k + 1)
      BY <1>3, <3>1
    <3>3. ASSUME NEW i \in 1..(k + 1), i <= n PROVE v(i) <= c
      <4>1. CASE i = k + 1
        BY <3>2, <4>1
      <4>2. CASE i # k + 1
        <5>1. i \in 1..k /\ i \in 1..n
          BY <1>3, <3>3, <4>2
        <5>2. v(i) <= b /\ v(i) \in Nat
          BY <1>3, <1>4, <3>3, <5>1
        <5> QED BY <3>2, <5>2
      <4> QED BY <4>1, <4>2
    <3> QED BY <3>3
  <2>2. CASE ~(k + 1 <= n)
    <3>1. \A i \in 1..(k + 1) : i <= n => i \in 1..k
      BY <1>3, <2>2
    <3> QED BY <1>4, <3>1
  <2> QED BY <2>1, <2>2
<1> DEFINE S == {k \in Nat : \E b \in Nat : \A i \in 1..k : i <= n => v(i) <= b}
<1>5. 0 \in S
  <2>1. \A i \in 1..0 : i <= n => v(i) <= 0
    OBVIOUS
  <2> QED BY <2>1
<1>6. ASSUME NEW k \in S PROVE k + 1 \in S
  BY <1>4
<1>7. S \in SUBSET Nat
  OBVIOUS
<1>8. S = Nat
  <2> HIDE DEF S
  <2> QED BY <1>5, <1>6, <1>7, AllNaturals
<1>9. PICK b \in Nat : \A i \in 1..n : i <= n => v(i) <= b
  BY <1>3, <1>8
<1>10. \A i \in 1..n : v(i) <= b
  BY <1>3, <1>9
<1> QED BY <1>2, <1>10 DEF v, n, LegacySet

LEMMA PromotedFits ==
  ASSUME machine \in Machine, NEW cli \in Versions
  PROVE  /\ Promoted(cli) \in Versions
         /\ Promoted(cli) >= cli
         /\ \A l \in machine.listed : Promoted(cli) >= LegacyVersion[l]
<1> DEFINE newer == {v \in {LegacyVersion[l] : l \in machine.listed} : v > cli}
<1>1. machine.listed \subseteq LegacySet
  BY DEF Machine
<1>2. \A l \in LegacySet : LegacyVersion[l] \in Versions \cup {0}
  BY TargetsAssumption
<1>3. cli \in Nat \ {0} /\ \A v \in Versions \cup {0} : v \in Nat
  BY TargetsAssumption
<1>4. newer \subseteq Versions /\ newer \in SUBSET Nat
  <2>1. ASSUME NEW v \in newer PROVE v \in Versions /\ v \in Nat
    <3>1. PICK l \in machine.listed : v = LegacyVersion[l]
      OBVIOUS
    <3>2. v \in Versions \cup {0} /\ v \in Nat /\ v > cli
      BY <1>1, <1>2, <1>3, <3>1
    <3>3. v # 0
      BY <1>3, <3>2
    <3> QED BY <3>2, <3>3
  <2> HIDE DEF newer
  <2> QED BY <2>1
<1>5. \A l \in machine.listed : LegacyVersion[l] \in newer \/ LegacyVersion[l] <= cli
  <2>1. ASSUME NEW l \in machine.listed, ~(LegacyVersion[l] <= cli) PROVE LegacyVersion[l] \in newer
    <3>1. LegacyVersion[l] \in Nat
      BY <1>1, <1>2, <1>3
    <3>2. LegacyVersion[l] > cli
      BY <1>3, <2>1, <3>1
    <3> QED BY <3>2
  <2> QED BY <2>1
<1>6. CASE newer = {}
  BY <1>3, <1>5, <1>6 DEF Promoted
<1>7. CASE newer # {}
  <2> DEFINE bounds == {b \in Nat : \A v \in newer : v <= b}
  <2>1. bounds # {}
    <3>1. PICK b \in Nat : \A l \in LegacySet : LegacyVersion[l] <= b
      BY VersionsBounded
    <3>2. b \in bounds
      BY <1>1, <3>1
    <3> QED BY <3>2
  <2>2. PICK b \in bounds : \A d \in bounds : b <= d
    <3>1. bounds \in SUBSET Nat
      OBVIOUS
    <3> HIDE DEF bounds
    <3> QED BY <2>1, <3>1, LeastNatural
  <2>3. b \in Nat /\ \A v \in newer : v <= b
    OBVIOUS
  <2>4. b \in newer
    <3>0. SUFFICES ASSUME b \notin newer PROVE FALSE
      OBVIOUS
    <3>1. PICK v \in newer : TRUE
      BY <1>7
    <3>2. b - 1 \in Nat
      <4>1. v > cli /\ v <= b /\ v \in Nat
        BY <1>4, <2>3
      <4> QED BY <1>3, <2>3, <4>1
    <3> HIDE DEF newer
    <3>3. \A w \in newer : w <= b - 1
      BY <1>4, <2>3, <3>0
    <3>4. b - 1 \in bounds
      BY <3>2, <3>3
    <3>5. b <= b - 1
      BY <2>2, <3>4
    <3> QED BY <2>3, <3>5
  <2>5. \E v \in newer : \A w \in newer : w <= v
    BY <2>3, <2>4
  <2>6. Promoted(cli) = CHOOSE v \in newer : \A w \in newer : w <= v
    BY <1>7 DEF Promoted
  <2>8. \A v \in newer : v > cli
    OBVIOUS
  <2> HIDE DEF newer
  <2>7. Promoted(cli) \in newer /\ \A w \in newer : w <= Promoted(cli)
    BY <2>5, <2>6
  <2>9. Promoted(cli) \in Versions /\ Promoted(cli) \in Nat /\ Promoted(cli) > cli
    BY <1>4, <2>7, <2>8
  <2>10. ASSUME NEW l \in machine.listed PROVE Promoted(cli) >= LegacyVersion[l]
    <3>1. LegacyVersion[l] \in Nat
      BY <1>1, <1>2, <1>3
    <3> QED BY <1>3, <1>5, <2>7, <2>9, <3>1
  <2> QED BY <1>3, <2>9, <2>10
<1> QED BY <1>6, <1>7

-----------------------------------------------------------------------------
(* The invariant of the transactions, action by action.                    *)

\* What the invariant asks of the next state.
LEMMA InvariantNext ==
  ASSUME machine' \in Machine, tx' \in Transaction, undo' \in Seq(Seq(Taking)),
         phase' \in {"rest", "forward", "rollback", "mend", "hand-back"},
         outcome' \in {"none", "ok", "failed", "died"},
         phase' = "rest" => script' = <<>> /\ undo' = <<>>,
         faults' \in 0..MaxFaults, count' \in 0..MaxTransactions,
         phase' = "forward" =>
           /\ script' \in Seq(Plain(tx'.prior, Service))
           /\ tx'.kind = "uninstall" \/ tx'.answered \/ Careful(script', tx'.prior),
         phase' # "forward" => script' \in Seq(Steps(tx'.prior, {Canonical}))
  PROVE  InstallInv'
<1>1. /\ tx'.kind \in Kinds /\ tx'.target \in Service /\ tx'.prior \in Record \cup {None}
      /\ tx'.stopped \cup tx'.disabled \cup tx'.off \subseteq Service
  BY DEF Transaction
<1>2. InstallTypeOK'
  BY <1>1 DEF InstallTypeOK
<1> QED BY <1>2 DEF InstallInv

\* The next command of the script, and the commands behind it.
LEMMA HeadFits ==
  ASSUME InstallInv, script # <<>>
  PROVE  /\ Head(script) \in Steps(tx.prior, Service)
         /\ phase = "forward" => /\ Head(script) \in Plain(tx.prior, Service)
                                 /\ Tail(script) \in Seq(Plain(tx.prior, Service))
         /\ phase # "forward" => /\ Head(script) \in Steps(tx.prior, {Canonical})
                                 /\ Tail(script) \in Seq(Steps(tx.prior, {Canonical}))
         /\ phase = "forward" =>
              \/ tx.kind = "uninstall" \/ tx.answered \/ Head(script) \in Ready(tx.prior)
              \/ Careful(Tail(script), tx.prior)
         /\ Head(script).do = "undefine" /\ Head(script).to \in LegacySet =>
              tx.kind = "uninstall" \/ tx.answered
<1> DEFINE prior == tx.prior
           head == Head(script)
           rest == Tail(script)
<1>1. /\ Plain(prior, Service) \subseteq Steps(prior, Service)
      /\ Steps(prior, {Canonical}) \subseteq Steps(prior, Service)
      /\ Plain(prior, {Canonical}) \subseteq Steps(prior, {Canonical})
  BY StepSets DEF Service
<1>2. CASE phase = "forward"
  <2>1. script \in Seq(Plain(prior, Service))
    BY <1>2 DEF InstallInv
  <2>2. head \in Plain(prior, Service) /\ rest \in Seq(Plain(prior, Service))
    BY <2>1, HeadTailProperties
  <2>3. ASSUME tx.kind # "uninstall", ~tx.answered
        PROVE  /\ head \in Plain(prior, {Canonical})
               /\ head \notin Ready(prior) => Careful(rest, prior)
    <3>1. Guarded(script, Plain(prior, {Canonical}), Ready(prior))
      BY <1>2, <2>3 DEF InstallInv, Careful
    <3> QED BY <2>1, <3>1, GuardedTail DEF Careful
  <2>4. ASSUME tx.kind # "uninstall", ~tx.answered, head.do = "undefine" PROVE head.to \notin LegacySet
    <3>1. head \in Steps(prior, {Canonical})
      BY <1>1, <2>3, <2>4
    <3>2. head.to = Canonical
      BY <2>4, <3>1 DEF Steps, Proper
    <3> QED BY <3>2, TargetsAssumption
  <2>5. tx.kind = "uninstall" \/ tx.answered \/ head \in Ready(prior) \/ Careful(rest, prior)
    BY <2>3
  <2>6. head.do = "undefine" /\ head.to \in LegacySet => tx.kind = "uninstall" \/ tx.answered
    BY <2>4
  <2>7. head \in Steps(prior, Service)
    BY <1>1, <2>2
  <2> HIDE DEF head, rest, prior
  <2>8. head = Head(script) /\ rest = Tail(script) /\ prior = tx.prior
    BY DEF head, rest, prior
  <2> QED BY <1>2, <2>2, <2>5, <2>6, <2>7, <2>8
<1>3. CASE phase # "forward"
  <2>1. script \in Seq(Steps(prior, {Canonical}))
    BY <1>3 DEF InstallInv
  <2>2. head \in Steps(prior, {Canonical}) /\ rest \in Seq(Steps(prior, {Canonical}))
    BY <2>1, HeadTailProperties
  <2>3. head.do = "undefine" => head.to = Canonical
    BY <2>2 DEF Steps, Proper
  <2>4. head.do = "undefine" => head.to \notin LegacySet
    BY <2>3, TargetsAssumption
  <2>5. head \in Steps(prior, Service)
    BY <1>1, <2>2
  <2> QED BY <1>3, <2>2, <2>4, <2>5
<1> QED BY <1>2, <1>3

\* An action that removes the definition of a legacy service.
Spares ==
  \A l \in LegacySet :
    machine.defined[l] # 0 /\ machine'.defined[l] = 0 /\ tx.kind # "uninstall" => tx.answered

LEMMA Bounds ==
  ASSUME InstallInv
  PROVE  /\ count \in Nat /\ machine \in Machine /\ tx \in Transaction /\ undo \in Seq(Seq(Taking))
         /\ faults \in 0..MaxFaults /\ count \in 0..MaxTransactions
         /\ phase \in {"rest", "forward", "rollback", "mend", "hand-back"}
         /\ outcome \in {"none", "ok", "failed", "died"}
<1>1. MaxTransactions \in Nat
  BY TransactionsAssumption
<1> QED BY <1>1 DEF InstallInv, InstallTypeOK

LEMMA NothingFits ==
  ASSUME NEW S
  PROVE  <<>> \in Seq(S)
BY EmptySeq

LEMMA SkipStepKeeps ==
  ASSUME InstallInv, SkipStep
  PROVE  InstallInv' /\ Spares
<1> USE DEF SkipStep
<1>1. /\ machine' = machine /\ tx' = tx /\ undo' = undo /\ phase' = phase /\ outcome' = outcome
      /\ faults' = faults /\ count' = count /\ phase # "rest" /\ script # <<>> /\ script' = Tail(script)
      /\ ~Applies(Head(script))
  OBVIOUS
<1>2. Head(script).when # "always"
  BY <1>1 DEF Applies
<1>3. Head(script) \notin Ready(tx.prior)
  BY <1>2 DEF Ready
<1>4. /\ phase' = "forward" =>
           /\ script' \in Seq(Plain(tx'.prior, Service))
           /\ tx'.kind = "uninstall" \/ tx'.answered \/ Careful(script', tx'.prior)
      /\ phase' # "forward" => script' \in Seq(Steps(tx'.prior, {Canonical}))
  BY <1>1, <1>3, HeadFits
<1>5. InstallInv'
  BY <1>1, <1>4, Bounds, InvariantNext
<1> QED BY <1>1, <1>5 DEF Spares

LEMMA KeptFits ==
  ASSUME undo \in Seq(Seq(Taking)), NEW step, step.undo \in Seq(Taking)
  PROVE  Kept(step) \in Seq(Seq(Taking))
<1> DEFINE remaining == IF step.clears THEN <<>> ELSE IF step.discards THEN Front(undo) ELSE undo
<1>1. Front(undo) \in Seq(Seq(Taking)) /\ <<>> \in Seq(Seq(Taking))
  BY FrontFits, NothingFits
<1>2. remaining \in Seq(Seq(Taking))
  BY <1>1
<1>3. Kept(step) = IF step.undo = <<>> THEN remaining ELSE Append(remaining, step.undo)
  BY DEF Kept
<1> HIDE DEF remaining
<1>4. Append(remaining, step.undo) \in Seq(Seq(Taking))
  BY <1>2, AppendProperties
<1> QED BY <1>2, <1>3, <1>4

LEMMA SucceedKeeps ==
  ASSUME InstallInv, Succeed
  PROVE  InstallInv' /\ Spares
<1> DEFINE step == Head(script)
<1>1. /\ phase # "rest" /\ script # <<>> /\ Can(machine, step.do, step.to)
      /\ machine' = Effect(machine, step.do, step.to) /\ tx' = Noted(step)
      /\ undo' = (IF phase = "forward" THEN Kept(step) ELSE undo) /\ script' = Tail(script)
      /\ phase' = phase /\ outcome' = outcome /\ faults' = faults /\ count' = count
  BY DEF Succeed
<1>2. step \in Steps(tx.prior, Service)
  BY <1>1, HeadFits
<1>3. /\ machine' \in Machine
      /\ \A l \in LegacySet : machine.defined[l] # 0 /\ machine'.defined[l] = 0
                                => step.do = "undefine" /\ step.to = l
  <2> HIDE DEF step
  <2> QED BY <1>1, <1>2, Bounds, EffectFits
<1>4. Spares
  <2>1. step.do = "undefine" /\ step.to \in LegacySet => tx.kind = "uninstall" \/ tx.answered
    BY <1>1, HeadFits
  <2> HIDE DEF step
  <2> QED BY <1>3, <2>1 DEF Spares
<1>5. /\ tx' \in Transaction /\ tx'.prior = tx.prior /\ tx'.kind = tx.kind
      /\ tx'.answered = (tx.answered \/ step.do = "ready")
  <2> HIDE DEF step
  <2> QED BY <1>1, <1>2, Bounds, NotedFits
<1>6. undo' \in Seq(Seq(Taking))
  <2>1. step.undo \in Seq(Taking)
    BY <1>2 DEF Steps, Fields
  <2> HIDE DEF step
  <2> QED BY <1>1, <2>1, Bounds, KeptFits
<1>7. step \in Ready(tx.prior) => step.do = "ready"
  BY DEF Ready
<1>8. phase' = "forward" =>
        /\ script' \in Seq(Plain(tx'.prior, Service))
        /\ tx'.kind = "uninstall" \/ tx'.answered \/ Careful(script', tx'.prior)
  <2>1. phase = "forward" =>
          /\ Tail(script) \in Seq(Plain(tx.prior, Service))
          /\ tx.kind = "uninstall" \/ tx.answered \/ step \in Ready(tx.prior) \/ Careful(Tail(script), tx.prior)
    BY <1>1, HeadFits
  <2> HIDE DEF step
  <2> QED BY <1>1, <1>5, <1>7, <2>1
<1>9. phase' # "forward" => script' \in Seq(Steps(tx'.prior, {Canonical}))
  <2>1. phase # "forward" => Tail(script) \in Seq(Steps(tx.prior, {Canonical}))
    BY <1>1, HeadFits
  <2> HIDE DEF step
  <2> QED BY <1>1, <1>5, <2>1
<1>10. InstallInv'
  <2> HIDE DEF step
  <2> QED BY <1>1, <1>3, <1>5, <1>6, <1>8, <1>9, Bounds, InvariantNext
<1> QED BY <1>4, <1>10

\* What remains of the script after a failure that throws nothing.
LEMMA RemainderFits ==
  ASSUME InstallInv, script # <<>>, Head(script).on # "throw"
  PROVE  /\ phase = "forward" =>
              /\ RemainderAfter(Head(script)) \in Seq(Plain(tx.prior, Service))
              /\ tx.kind = "uninstall" \/ tx.answered \/ Careful(RemainderAfter(Head(script)), tx.prior)
         /\ phase # "forward" => RemainderAfter(Head(script)) \in Seq(Steps(tx.prior, {Canonical}))
<1> DEFINE step == Head(script)
           S == Steps(tx.prior, {Canonical})
<1>1. CASE phase = "forward"
  <2>1. step \in Plain(tx.prior, Service)
    BY <1>1, HeadFits
  <2>2. step.on = "ignore" /\ step \notin Ready(tx.prior)
    BY <2>1 DEF Plain, Ready
  <2>3. RemainderAfter(step) = Tail(script)
    BY <2>2 DEF RemainderAfter
  <2>4. /\ Tail(script) \in Seq(Plain(tx.prior, Service))
        /\ tx.kind = "uninstall" \/ tx.answered \/ Careful(Tail(script), tx.prior)
    BY <1>1, <2>2, HeadFits
  <2> HIDE DEF step
  <2>5. /\ RemainderAfter(step) \in Seq(Plain(tx.prior, Service))
        /\ tx.kind = "uninstall" \/ tx.answered \/ Careful(RemainderAfter(step), tx.prior)
    BY <2>3, <2>4
  <2> QED BY <1>1, <2>5 DEF step
<1>2. CASE phase # "forward"
  <2>1. step \in S /\ Tail(script) \in Seq(S) /\ script \in Seq(S)
    BY <1>2, HeadFits DEF InstallInv
  <2>2. CASE step.on = "disable"
    <3> DEFINE off == Lenient(IF machine.platform = "linux" THEN "disable-now" ELSE "disable", step.to)
    <3>1. off \in S
      <4>1. step.to \in Service /\ {"disable-now", "disable"} \subseteq Verbs
        BY <2>1 DEF Steps, Fields, Verbs
      <4>2. Lenient("disable-now", step.to) \in Plain(tx.prior, {Canonical})
        BY <4>1, CommandFits
      <4>3. Lenient("disable", step.to) \in Plain(tx.prior, {Canonical})
        BY <4>1, CommandFits
      <4> QED BY <4>2, <4>3 DEF Plain
    <3>2. RemainderAfter(step) = <<off>> \o Tail(script)
      BY <2>2 DEF RemainderAfter
    <3> HIDE DEF off, S, step
    <3>3. <<off>> \in Seq(S)
      BY <3>1
    <3>4. RemainderAfter(step) \in Seq(S)
      BY <2>1, <3>2, <3>3, ConcatFits
    <3> QED BY <1>2, <3>4 DEF S, step
  <2>3. CASE step.on = "cleanup"
    <3> DEFINE parts == [i \in DOMAIN script |-> Only(script[i].in # step.in, <<script[i]>>)]
    <3>1. RemainderAfter(step) = FlattenSeq(parts)
      BY <2>3 DEF RemainderAfter, Where, Each
    <3>2. Len(script) \in Nat /\ DOMAIN script = 1..Len(script)
      BY <2>1, LenProperties
    <3>3. ASSUME NEW i \in 1..Len(script) PROVE parts[i] \in Seq(S)
      <4>1. script[i] \in S
        <5> HIDE DEF S
        <5> QED BY <2>1, ElementOfSeq
      <4>2. parts[i] = Only(script[i].in # step.in, <<script[i]>>)
        BY <3>2
      <4> HIDE DEF S, parts
      <4>3. <<script[i]>> \in Seq(S)
        BY <4>1
      <4> QED BY <4>2, <4>3, OnlyFits
    <3>4. parts = [i \in 1..Len(script) |-> parts[i]]
      BY <3>2
    <3> HIDE DEF S, parts, step
    <3>5. FlattenSeq(parts) \in Seq(S)
      BY <3>2, <3>3, <3>4, PartsFit
    <3> QED BY <1>2, <3>1, <3>5 DEF S, step
  <2>4. CASE step.on \notin {"disable", "cleanup"}
    <3>1. RemainderAfter(step) = Tail(script)
      BY <2>4 DEF RemainderAfter
    <3> QED BY <1>2, <2>1, <3>1
  <2> QED BY <2>2, <2>3, <2>4
<1> QED BY <1>1, <1>2

\* A failure and a death leave a machine, as a command does.
LEMMA FailureSpares ==
  ASSUME InstallInv, script # <<>>, machine' \in AfterFailure(machine, Head(script).do, Head(script).to)
  PROVE  machine' \in Machine /\ Spares
<1> DEFINE step == Head(script)
<1>1. step \in Steps(tx.prior, Service)
  BY HeadFits
<1>2. step.do = "undefine" /\ step.to \in LegacySet => tx.kind = "uninstall" \/ tx.answered
  BY HeadFits
<1>3. machine' \in AfterFailure(machine, step.do, step.to)
  OBVIOUS
<1> HIDE DEF step
<1>4. /\ machine' \in Machine
      /\ \A l \in LegacySet : machine.defined[l] # 0 /\ machine'.defined[l] = 0
                                => step.do = "undefine" /\ step.to = l
  BY <1>1, <1>3, Bounds, AfterFailureFits
<1> QED BY <1>2, <1>4 DEF Spares

\* Whether it is unsure what is left says nothing else about a transaction.
LEMMA UnsureFits ==
  ASSUME NEW t \in Transaction, NEW b \in BOOLEAN, NEW u, u = [t EXCEPT !.unsure = b]
  PROVE  /\ u \in Transaction
         /\ u.prior = t.prior /\ u.kind = t.kind /\ u.answered = t.answered
<1>1. u \in Transaction
  BY DEF Transaction
<1>2. u.prior = t.prior /\ u.kind = t.kind
  BY DEF Transaction
<1>3. u.answered = t.answered
  BY DEF Transaction
<1> QED BY <1>1, <1>2, <1>3

LEMMA KilledKeeps ==
  ASSUME InstallInv, Killed
  PROVE  InstallInv' /\ Spares
<1>1. /\ script # <<>> /\ faults < MaxFaults /\ faults' = faults + 1
      /\ machine' \in AfterFailure(machine, Head(script).do, Head(script).to)
      /\ phase' = "rest" /\ outcome' = "died" /\ script' = <<>> /\ undo' = <<>> /\ count' = count
  BY DEF Killed, Rest
<1>2. tx' \in Transaction
  <2> DEFINE unsure == tx.unsure \/ NoWayBack
  <2>1. tx' = [tx EXCEPT !.unsure = unsure]
    BY DEF Killed
  <2>2. unsure \in BOOLEAN
    OBVIOUS
  <2> HIDE DEF unsure
  <2> QED BY <2>1, <2>2, Bounds, UnsureFits
<1>3. machine' \in Machine /\ Spares
  BY <1>1, FailureSpares
<1>4. faults' \in 0..MaxFaults
  BY <1>1, Bounds, TransactionsAssumption
<1>5. script' \in Seq(Steps(tx'.prior, {Canonical})) /\ undo' \in Seq(Seq(Taking))
  BY <1>1, NothingFits
<1>6. InstallInv'
  BY <1>1, <1>2, <1>3, <1>4, <1>5, Bounds, InvariantNext
<1> QED BY <1>3, <1>6

\* An exception leads to a catch block, or ends the transaction.
LEMMA ThrownFits ==
  ASSUME InstallInv, NEW t \in Transaction, t.prior = tx.prior, NEW step, Thrown(step, t), phase # "rest"
  PROVE  /\ phase' \in {"rest", "rollback", "mend", "hand-back"}
         /\ script' \in Seq(Steps(tx.prior, {Canonical}))
         /\ undo' \in Seq(Seq(Taking))
         /\ outcome' \in {"none", "ok", "failed", "died"}
         /\ phase' = "rest" => script' = <<>> /\ undo' = <<>>
<1>1. CASE phase # "forward" /\ script' = <<>> /\ UNCHANGED <<undo, phase, outcome>>
  BY <1>1, NothingFits, Bounds
<1>2. CASE /\ script' = (IF step.in = "try" THEN Rollback(t) ELSE <<>>) /\ phase' = "rollback"
           /\ UNCHANGED <<undo, outcome>>
  <2>1. Rollback(t) \in Seq(Steps(tx.prior, {Canonical}))
    <3>1. Rollback(t) \in Seq(Steps(t.prior, {Canonical}))
      BY Bounds, RollbackFits
    <3> QED BY <3>1
  <2>2. script' \in Seq(Steps(tx.prior, {Canonical}))
    BY <1>2, <2>1, NothingFits
  <2> QED BY <1>2, <2>2, Bounds
<1>3. CASE script' = HandBack(machine') /\ phase' = "hand-back" /\ UNCHANGED <<undo, outcome>>
  <2>1. script' \in Seq(Steps(tx.prior, {Canonical}))
    BY <1>3, Bounds, HandBackFits
  <2> QED BY <1>3, <2>1, Bounds
<1>4. CASE Rest("failed")
  BY <1>4, NothingFits DEF Rest
<1> QED BY <1>1, <1>2, <1>3, <1>4 DEF Thrown

LEMMA FailKeeps ==
  ASSUME InstallInv, Fail
  PROVE  InstallInv' /\ Spares
<1> DEFINE step == Head(script)
           unsure == Tried(step).unsure \/ NoWayBack
           t == [Tried(step) EXCEPT !.unsure = unsure]
<1>1. /\ phase # "rest" /\ script # <<>> /\ count' = count
      /\ machine' \in AfterFailure(machine, step.do, step.to) /\ tx' = t
      /\ \/ faults < MaxFaults /\ faults' = faults + 1
         \/ faults' = faults
      /\ \/ step.on = "throw" /\ Thrown(step, t)
         \/ step.on # "throw" /\ script' = RemainderAfter(step) /\ UNCHANGED <<undo, phase, outcome>>
  BY DEF Fail
<1>2. machine' \in Machine /\ Spares
  BY <1>1, FailureSpares
<1>3. step \in Steps(tx.prior, Service)
  BY <1>1, HeadFits
<1>4. /\ t \in Transaction /\ t.prior = tx.prior /\ t.kind = tx.kind /\ t.answered = tx.answered
  <2>1. unsure \in BOOLEAN
    OBVIOUS
  <2>2. /\ Tried(step) \in Transaction
        /\ Tried(step).prior = tx.prior /\ Tried(step).kind = tx.kind /\ Tried(step).answered = tx.answered
    <3> HIDE DEF step
    <3> QED BY <1>3, Bounds, NotedFits
  <2>3. t = [Tried(step) EXCEPT !.unsure = unsure]
    OBVIOUS
  <2> HIDE DEF unsure, t, step
  <2>4. /\ t \in Transaction /\ t.prior = Tried(step).prior /\ t.kind = Tried(step).kind
        /\ t.answered = Tried(step).answered
    BY <2>1, <2>2, <2>3, UnsureFits
  <2> QED BY <2>2, <2>4
<1>5. faults' \in 0..MaxFaults
  BY <1>1, Bounds, TransactionsAssumption
<1>6. CASE step.on = "throw" /\ Thrown(step, t)
  <2> HIDE DEF t, step
  <2>1. /\ phase' \in {"rest", "rollback", "mend", "hand-back"}
        /\ script' \in Seq(Steps(tx.prior, {Canonical}))
        /\ undo' \in Seq(Seq(Taking))
        /\ outcome' \in {"none", "ok", "failed", "died"}
        /\ phase' = "rest" => script' = <<>> /\ undo' = <<>>
    BY <1>1, <1>4, <1>6, ThrownFits
  <2>2. tx' \in Transaction /\ tx'.prior = tx.prior
    BY <1>1, <1>4
  <2>3. script' \in Seq(Steps(tx'.prior, {Canonical}))
    BY <2>1, <2>2
  <2>4. InstallInv'
    BY <1>1, <1>2, <1>5, <2>1, <2>2, <2>3, Bounds, InvariantNext
  <2> QED BY <1>2, <2>4
<1>7. CASE step.on # "throw" /\ script' = RemainderAfter(step) /\ UNCHANGED <<undo, phase, outcome>>
  <2>1. /\ phase = "forward" =>
             /\ RemainderAfter(step) \in Seq(Plain(tx.prior, Service))
             /\ tx.kind = "uninstall" \/ tx.answered \/ Careful(RemainderAfter(step), tx.prior)
        /\ phase # "forward" => RemainderAfter(step) \in Seq(Steps(tx.prior, {Canonical}))
    BY <1>1, <1>7, RemainderFits
  <2> HIDE DEF t, step
  <2>2. tx' \in Transaction /\ tx'.prior = tx.prior /\ tx'.kind = tx.kind /\ tx'.answered = tx.answered
    BY <1>1, <1>4
  <2>3. /\ phase' = "forward" =>
             /\ script' \in Seq(Plain(tx'.prior, Service))
             /\ tx'.kind = "uninstall" \/ tx'.answered \/ Careful(script', tx'.prior)
        /\ phase' # "forward" => script' \in Seq(Steps(tx'.prior, {Canonical}))
    BY <1>7, <2>1, <2>2
  <2>4. InstallInv'
    BY <1>1, <1>2, <1>5, <1>7, <2>2, <2>3, Bounds, InvariantNext
  <2> QED BY <1>2, <2>4
<1> QED BY <1>1, <1>6, <1>7

\* The finally block of an installation leaves every definition.
LEMMA FinallyFits ==
  ASSUME NEW m \in Machine
  PROVE  Finally(m) \in Machine /\ Finally(m).defined = m.defined
<1> DEFINE kept == m.backups \ Backups(m)
           unstaged == [m EXCEPT !.backups = kept]
<1>1. Effect(m, "unstage", Canonical) = unstaged
  BY DEF Effect
<1>2. kept \in SUBSET [of : Record, bytes : Bytes, format : 0..2]
  BY DEF Machine
<1> HIDE DEF kept
<1>3. unstaged \in Machine /\ unstaged.defined = m.defined
  BY <1>2, BackupsChange
<1>4. Absent \in Bytes
  BY DEF Bytes
<1>5. Finally(m) = unstaged \/ Finally(m) = [unstaged EXCEPT !.runtime = Absent]
  BY <1>1 DEF Finally
<1> HIDE DEF unstaged
<1>6. [unstaged EXCEPT !.runtime = Absent] \in Machine /\ [unstaged EXCEPT !.runtime = Absent].defined = unstaged.defined
  BY <1>3, <1>4, RuntimeChanges
<1> QED BY <1>3, <1>5, <1>6

LEMMA EndPhaseKeeps ==
  ASSUME InstallInv, EndPhase
  PROVE  InstallInv' /\ Spares
<1>1. /\ phase # "rest" /\ tx' = tx /\ faults' = faults /\ count' = count
      /\ \/ Rest("ok") /\ machine' = machine
         \/ /\ machine' = Finally(machine) /\ script' = Mend(machine') /\ phase' = "mend"
            /\ UNCHANGED <<undo, outcome>>
         \/ script' = HandBack(machine) /\ phase' = "hand-back" /\ UNCHANGED <<machine, undo, outcome>>
         \/ Rest("failed") /\ machine' = machine
  BY DEF EndPhase
<1>2. machine' \in Machine /\ machine'.defined = machine.defined
  BY <1>1, Bounds, FinallyFits
<1>3. /\ script' \in Seq(Steps(tx.prior, {Canonical}))
      /\ phase' \in {"rest", "mend", "hand-back"}
      /\ phase' = "rest" => script' = <<>> /\ undo' = <<>>
      /\ undo' \in Seq(Seq(Taking))
      /\ outcome' \in {"none", "ok", "failed", "died"}
  <2>1. CASE Rest("ok") \/ Rest("failed")
    BY <2>1, NothingFits DEF Rest
  <2>2. CASE script' = Mend(machine') /\ phase' = "mend" /\ UNCHANGED <<undo, outcome>>
    <3>1. script' \in Seq(Steps(tx.prior, {Canonical}))
      BY <2>2, MendFits
    <3> QED BY <2>2, <3>1, Bounds
  <2>3. CASE script' = HandBack(machine) /\ phase' = "hand-back" /\ UNCHANGED <<machine, undo, outcome>>
    <3>1. script' \in Seq(Steps(tx.prior, {Canonical}))
      BY <2>3, Bounds, HandBackFits
    <3> QED BY <2>3, <3>1, Bounds
  <2> QED BY <1>1, <2>1, <2>2, <2>3
<1>4. tx' \in Transaction /\ script' \in Seq(Steps(tx'.prior, {Canonical}))
  BY <1>1, <1>3, Bounds
<1>5. InstallInv'
  BY <1>1, <1>2, <1>3, <1>4, Bounds, InvariantNext
<1> QED BY <1>2, <1>5 DEF Spares

LEMMA UndertakeKeeps ==
  ASSUME InstallInv, NEW t \in Transaction, Undertake(t), t.answered = ~t.restart
  PROVE  InstallInv' /\ Spares
<1>1. /\ machine' = machine /\ faults' = faults /\ count < MaxTransactions /\ count' = count + 1
      /\ tx' = [t EXCEPT !.unsure = tx.unsure] /\ script' = Script(t)
      /\ undo' = <<>> /\ phase' = "forward" /\ outcome' = "none"
  BY DEF Undertake
<1>2. tx' \in Transaction /\ tx'.prior = t.prior /\ tx'.kind = t.kind /\ tx'.answered = t.answered
  <2>1. tx.unsure \in BOOLEAN
    BY Bounds DEF Transaction
  <2> QED BY <1>1, <2>1, UnsureFits
<1>3. /\ script' \in Seq(Plain(tx'.prior, Service))
      /\ tx'.kind = "uninstall" \/ tx'.answered \/ Careful(script', tx'.prior)
  <2>1. /\ Script(t) \in Seq(Plain(t.prior, Service))
        /\ t.kind = "uninstall" \/ ~t.restart \/ Careful(Script(t), t.prior)
    BY ScriptFits
  <2>2. t.kind = "uninstall" \/ t.answered \/ Careful(Script(t), t.prior)
    BY <2>1
  <2> QED BY <1>1, <1>2, <2>1, <2>2
<1>4. count' \in 0..MaxTransactions
  BY <1>1, Bounds, TransactionsAssumption
<1>5. undo' \in Seq(Seq(Taking))
  BY <1>1, NothingFits
<1>6. InstallInv'
  BY <1>1, <1>2, <1>3, <1>4, <1>5, Bounds, InvariantNext
<1> QED BY <1>1, <1>6 DEF Spares

\* Whatever transaction is begun.
LEMMA BeginKeeps ==
  ASSUME InstallInv, NEW kind \in Kinds, NEW target \in Service, NEW version \in Versions \cup {0},
         NEW prior \in Record \cup {None}, NEW restart \in BOOLEAN,
         Undertake(Begun(kind, target, version, prior, restart, machine))
  PROVE  InstallInv' /\ Spares
<1> DEFINE t == Begun(kind, target, version, prior, restart, machine)
<1>1. t \in Transaction /\ t.restart = restart /\ t.answered = ~restart
  BY Bounds, BegunFits
<1>2. Undertake(t)
  OBVIOUS
<1> HIDE DEF t
<1>3. t.answered = ~t.restart
  BY <1>1
<1> QED BY <1>1, <1>2, <1>3, UndertakeKeeps

LEMMA ConvergeKeeps ==
  ASSUME InstallInv, Converge
  PROVE  InstallInv' /\ Spares
<1>1. PICK cli \in Versions, kind \in {"start", "install", "replace"},
           prior \in {ReadRecord(machine), PreviousOwner(machine)}, restart \in BOOLEAN :
        Undertake(Begun(kind, Canonical, Promoted(cli), prior, restart, machine))
  <2>1. PICK cli \in Versions, direct \in BOOLEAN, restart \in BOOLEAN :
          LET version == Promoted(cli)
              status == UpdateStatus(machine, version, Speaks[cli])
              starts == status = "newer" \/ (status = "current" /\ ~direct)
              kind == IF starts THEN "start" ELSE IF machine.listed = {} THEN "install" ELSE "replace"
              prior == IF starts THEN ReadRecord(machine) ELSE PreviousOwner(machine)
          IN  Undertake(Begun(kind, Canonical, version, prior, restart, machine))
    BY DEF Converge
  <2> DEFINE status == UpdateStatus(machine, Promoted(cli), Speaks[cli])
             starts == status = "newer" \/ (status = "current" /\ ~direct)
             kind == IF starts THEN "start" ELSE IF machine.listed = {} THEN "install" ELSE "replace"
             prior == IF starts THEN ReadRecord(machine) ELSE PreviousOwner(machine)
  <2>2. Undertake(Begun(kind, Canonical, Promoted(cli), prior, restart, machine))
    BY <2>1
  <2>3. kind \in {"start", "install", "replace"} /\ prior \in {ReadRecord(machine), PreviousOwner(machine)}
    OBVIOUS
  <2> HIDE DEF kind, prior
  <2> QED BY <2>2, <2>3
<1>2. Promoted(cli) \in Versions \cup {0}
  BY Bounds, PromotedFits
<1>3. kind \in Kinds /\ prior \in Record \cup {None} /\ Canonical \in Service
  BY Bounds, RecordRead DEF Kinds, Service
<1> QED BY <1>1, <1>2, <1>3, BeginKeeps

LEMMA StartOwnedKeeps ==
  ASSUME InstallInv, StartOwned
  PROVE  InstallInv' /\ Spares
<1>1. PICK l \in machine.listed, kind \in {"start-owned"}, prior \in {None}, restart \in {TRUE} :
        Undertake(Begun(kind, l, LegacyVersion[l], prior, restart, machine))
  BY DEF StartOwned
<1>2. l \in LegacySet /\ l \in Service
  BY Bounds DEF Machine, Service
<1>3. LegacyVersion[l] \in Versions \cup {0}
  BY <1>2, TargetsAssumption
<1>4. kind \in Kinds /\ prior \in Record \cup {None} /\ restart \in BOOLEAN
  BY DEF Kinds
<1> QED BY <1>1, <1>2, <1>3, <1>4, BeginKeeps

LEMMA UninstallKeeps ==
  ASSUME InstallInv, Uninstall
  PROVE  InstallInv' /\ Spares
<1>1. PICK s \in Service, prior \in {None, ReadRecord(machine)}, kind \in {"uninstall"},
           version \in {0}, restart \in {TRUE} :
        Undertake(Begun(kind, s, version, prior, restart, machine))
  BY DEF Uninstall
<1>2. prior \in Record \cup {None} /\ kind \in Kinds /\ version \in Versions \cup {0} /\ restart \in BOOLEAN
  BY Bounds, RecordRead DEF Kinds
<1> QED BY <1>1, <1>2, BeginKeeps

LEMMA AroundKeeps ==
  ASSUME InstallInv, Around
  PROVE  InstallInv' /\ Spares
<1>1. /\ phase = "rest" /\ tx' = tx /\ script' = script /\ undo' = undo /\ phase' = phase
      /\ outcome' = outcome /\ faults' = faults /\ count' = count
  BY DEF Around
<1>2. machine' \in Machine /\ machine'.defined = machine.defined
  <2>1. CASE machine' \in Booted(machine)
    <3> DEFINE able == {s \in machine.enabled : machine.defined[s] # 0}
    <3>1. PICK s \in (IF able = {} THEN {None} ELSE able) :
            machine' = [machine EXCEPT !.running = s,
                                       !.loaded = IF machine.platform = "darwin" THEN able ELSE {}]
      BY <2>1 DEF Booted
    <3>2. able \in SUBSET Service /\ s \in Service \cup {None, Other}
      BY Bounds DEF Machine
    <3> HIDE DEF able
    <3> QED BY <3>1, <3>2, Bounds DEF Machine
  <2>2. CASE \E holder \in {None, Other} : machine' = [machine EXCEPT !.running = holder]
    BY <2>2, Bounds DEF Machine
  <2> QED BY <2>1, <2>2 DEF Around
<1>3. /\ script = <<>> /\ undo = <<>> /\ script' \in Seq(Steps(tx'.prior, {Canonical}))
  <2>1. script = <<>> /\ undo = <<>>
    BY <1>1 DEF InstallInv, InstallTypeOK
  <2> QED BY <1>1, <2>1, NothingFits
<1>4. InstallInv'
  BY <1>1, <1>2, <1>3, Bounds, InvariantNext
<1> QED BY <1>2, <1>4 DEF Spares

-----------------------------------------------------------------------------
LEMMA InstallInvInit ==
  ASSUME InstallInit
  PROVE  InstallInv
<1>1. machine \in Machine
  BY TransactionsAssumption DEF InstallInit
<1>2. "start" \in Kinds /\ Canonical \in Service /\ 0 \in Versions \cup {0} /\ None \in Record \cup {None}
  BY DEF Kinds, Service
<1>3. PICK restart \in BOOLEAN : tx = Begun("start", Canonical, 0, None, restart, machine)
  BY DEF InstallInit
<1>4. tx \in Transaction
  BY <1>1, <1>2, <1>3, BegunFits
<1>5. script = <<>> /\ undo = <<>> /\ phase = "rest" /\ outcome = "none" /\ faults = 0 /\ count = 0
  BY DEF InstallInit
<1>6. /\ tx.kind \in Kinds /\ tx.target \in Service /\ tx.prior \in Record \cup {None}
      /\ tx.stopped \cup tx.disabled \cup tx.off \subseteq Service
  BY <1>4 DEF Transaction
<1>7. faults \in 0..MaxFaults /\ count \in 0..MaxTransactions
  BY <1>5, TransactionsAssumption
<1>8. InstallTypeOK
  BY <1>1, <1>5, <1>6, <1>7 DEF InstallTypeOK
<1>9. undo \in Seq(Seq(Taking)) /\ script \in Seq(Steps(tx.prior, {Canonical}))
  BY <1>5, NothingFits
<1> QED BY <1>4, <1>5, <1>8, <1>9 DEF InstallInv

LEMMA InstallInvNext ==
  ASSUME InstallInv, InstallNext
  PROVE  InstallInv' /\ Spares
<1>1. CASE SkipStep
  BY <1>1, SkipStepKeeps
<1>2. CASE Succeed
  BY <1>2, SucceedKeeps
<1>3. CASE Fail
  BY <1>3, FailKeeps
<1>4. CASE Killed
  BY <1>4, KilledKeeps
<1>5. CASE EndPhase
  BY <1>5, EndPhaseKeeps
<1>6. CASE Converge
  BY <1>6, ConvergeKeeps
<1>7. CASE StartOwned
  BY <1>7, StartOwnedKeeps
<1>8. CASE Uninstall
  BY <1>8, UninstallKeeps
<1>9. CASE Around
  BY <1>9, AroundKeeps
<1> QED BY <1>1, <1>2, <1>3, <1>4, <1>5, <1>6, <1>7, <1>8, <1>9 DEF InstallNext

\* The invariant that the two theorems below rest on: besides the types, every
\* script that is begun, and every catch block, is made of commands that fit the
\* transaction (service-install.ts, and linux.ts, windows.ts and macos.ts).
THEOREM InstallInvariance == InstallSpec => []InstallInv
<1>1. InstallInit => InstallInv
  BY InstallInvInit
<1>2. InstallInv /\ [InstallNext]_installVars => InstallInv'
  <2> SUFFICES ASSUME InstallInv, [InstallNext]_installVars PROVE InstallInv'
    OBVIOUS
  <2>1. CASE InstallNext
    BY <2>1, InstallInvNext
  <2>2. CASE UNCHANGED installVars
    BY <2>2 DEF installVars, InstallInv, InstallTypeOK
  <2> QED BY <2>1, <2>2
<1> QED BY <1>1, <1>2, PTL DEF InstallSpec

\* A transaction and the machine that it changes stay in their types through
\* every failure, death and reboot, and one that is over leaves nothing to run.
THEOREM InstallTypeCorrect == InstallSpec => []InstallTypeOK
<1>1. InstallInv => InstallTypeOK
  BY DEF InstallInv
<1> QED BY <1>1, InstallInvariance, PTL

\* Whatever fails, dies or reboots, on every platform and with any number of
\* legacy services, a convergence removes the definition of one of them only
\* after the canonical service answered.
THEOREM LegaciesOutliveTheAnswer == InstallSpec => DeletedOnlyAfterReady
<1> DEFINE Deletes ==
             \A l \in LegacySet :
               machine.defined[l] # 0 /\ machine'.defined[l] = 0 /\ tx.kind # "uninstall" => tx.answered
<1>1. InstallInv /\ [InstallNext]_installVars => [Deletes]_installVars
  <2> SUFFICES ASSUME InstallInv, InstallNext PROVE Deletes
    OBVIOUS
  <2>1. Spares
    BY InstallInvNext
  <2> QED BY <2>1 DEF Spares
<1>2. DeletedOnlyAfterReady <=> [][Deletes]_installVars
  BY DEF DeletedOnlyAfterReady
<1> HIDE DEF Deletes
<1> QED BY <1>1, <1>2, InstallInvariance, PTL DEF InstallSpec
-----------------------------------------------------------------------------
(* What a convergence leaves is not older than what it found.              *)

\* No record of the canonical service is written or removed.
Unrecorded(step) ==
  /\ step.do \notin {"previous", "drop-previous", "drop-one", "drop-two", "pending", "write-planned", "commit",
                     "write-prior"}
  /\ step.do = "forget" => step.to # Canonical

\* What leaves the record of the newest format as it is, or commits it.
Lasting(step) ==
  /\ step.do \notin {"drop-two", "pending", "write-planned", "write-prior"}
  /\ step.do = "forget" => step.to # Canonical

UnrecordedSteps(prior) == {step \in Plain(prior, Service) : Unrecorded(step)}
LastingSteps(prior) == {step \in Plain(prior, Service) : Lasting(step)}
Commits(prior) ==
  {step \in Plain(prior, Service) : step.do = "commit" /\ step.when = "always" /\ step.on = "throw"}

\* Of the elements of s, those outside Q come before one of G.
Settled(s, Q, G) == \A i \in 1..Len(s) : s[i] \in Q \/ \E j \in (i + 1)..Len(s) : s[j] \in G

NotOlder(version) ==
  LET found == ReadRecord(tx.before) IN
  /\ ~(found # None /\ found.state = "installed" /\ version < found.version)
  /\ ~ \E l \in tx.before.listed : version < LegacyVersion[l]

NewestInv ==
  /\ phase = "forward" /\ tx.kind \in {"install", "replace"} =>
       /\ NotOlder(tx.version)
       /\ Settled(script, LastingSteps(tx.prior), Commits(tx.prior))
       /\ machine.two = Installed \/ Has(script, Commits(tx.prior))
  /\ phase = "forward" /\ tx.kind = "start" =>
       NotOlder(ReadRecord(machine).version) /\ script \in Seq(UnrecordedSteps(tx.prior))
  /\ phase = "rest" /\ outcome = "ok" /\ tx.kind \in {"install", "replace", "start"} =>
       NotOlder(ReadRecord(machine).version)

\* What lasts, with a commit in it, settles all that comes before it.
LEMMA SettledBy ==
  ASSUME NEW S, NEW Q, NEW G, NEW s \in Seq(S), NEW u \in Seq(Q), Has(u, G)
  PROVE  Settled(s \o u, Q, G) /\ Has(s \o u, G)
<1>1. Len(s) \in Nat /\ Len(u) \in Nat /\ Len(s \o u) = Len(s) + Len(u)
  BY ConcatProperties
<1>2. \A i \in 1..Len(s \o u) : (s \o u)[i] = IF i <= Len(s) THEN s[i] ELSE u[i - Len(s)]
  BY ConcatProperties
<1>3. PICK j \in 1..Len(u) : u[j] \in G
  BY DEF Has
<1>4. j + Len(s) \in 1..Len(s \o u) /\ ~(j + Len(s) <= Len(s)) /\ j + Len(s) - Len(s) = j
  BY <1>1
<1>5. (s \o u)[j + Len(s)] \in G
  BY <1>2, <1>3, <1>4
<1>6. ASSUME NEW i \in 1..Len(s \o u)
      PROVE  (s \o u)[i] \in Q \/ \E k \in (i + 1)..Len(s \o u) : (s \o u)[k] \in G
  <2>1. CASE i <= Len(s)
    <3>1. j + Len(s) \in (i + 1)..Len(s \o u)
      BY <1>1, <1>4, <2>1
    <3> QED BY <1>5, <3>1
  <2>2. CASE ~(i <= Len(s))
    <3>1. i - Len(s) \in 1..Len(u)
      BY <1>1, <2>2
    <3>2. u[i - Len(s)] \in Q
      BY <3>1, ElementOfSeq
    <3> QED BY <1>2, <2>2, <3>2
  <2> QED BY <2>1, <2>2
<1> QED BY <1>4, <1>5, <1>6 DEF Settled, Has

\* What is left when the first element is taken away.
LEMMA SettledTail ==
  ASSUME NEW S, NEW Q, NEW G, NEW s \in Seq(S), s # <<>>, Settled(s, Q, G)
  PROVE  /\ Settled(Tail(s), Q, G)
         /\ Head(s) \in Q \/ Has(Tail(s), G)
         /\ Has(s, G) => Head(s) \in G \/ Has(Tail(s), G)
<1>1. Len(s) \in Nat \ {0} /\ Head(s) = s[1]
  OBVIOUS
<1>2. Len(Tail(s)) = Len(s) - 1 /\ \A i \in 1..Len(Tail(s)) : Tail(s)[i] = s[i + 1]
  BY HeadTailProperties
<1>3. ASSUME NEW j \in 2..Len(s) PROVE j - 1 \in 1..Len(Tail(s)) /\ Tail(s)[j - 1] = s[j]
  <2>1. j - 1 \in 1..Len(Tail(s)) /\ j - 1 + 1 = j
    BY <1>1, <1>2
  <2> QED BY <1>2, <2>1
<1>4. ASSUME NEW i \in 1..Len(Tail(s))
      PROVE  Tail(s)[i] \in Q \/ \E k \in (i + 1)..Len(Tail(s)) : Tail(s)[k] \in G
  <2>1. i + 1 \in 1..Len(s)
    BY <1>1, <1>2
  <2>2. s[i + 1] \in Q \/ \E j \in (i + 1 + 1)..Len(s) : s[j] \in G
    BY <2>1 DEF Settled
  <2>3. CASE s[i + 1] \in Q
    BY <1>2, <2>3
  <2>4. ASSUME NEW j \in (i + 1 + 1)..Len(s), s[j] \in G
        PROVE  \E k \in (i + 1)..Len(Tail(s)) : Tail(s)[k] \in G
    <3>1. j \in 2..Len(s) /\ j - 1 \in (i + 1)..Len(Tail(s))
      BY <1>1, <1>2, <2>4
    <3> QED BY <1>3, <2>4, <3>1
  <2> QED BY <2>2, <2>3, <2>4
<1>5. Head(s) \in Q \/ Has(Tail(s), G)
  <2>1. 1 \in 1..Len(s)
    BY <1>1
  <2>2. s[1] \in Q \/ \E j \in (1 + 1)..Len(s) : s[j] \in G
    BY <2>1 DEF Settled
  <2>3. \A j \in (1 + 1)..Len(s) : j \in 2..Len(s)
    OBVIOUS
  <2> QED BY <1>1, <1>3, <2>2, <2>3 DEF Has
<1>6. ASSUME Has(s, G), Head(s) \notin G PROVE Has(Tail(s), G)
  <2>1. PICK j \in 1..Len(s) : s[j] \in G
    BY <1>6 DEF Has
  <2>2. j \in 2..Len(s)
    BY <1>1, <1>6, <2>1
  <2> QED BY <1>3, <2>1, <2>2 DEF Has
<1> QED BY <1>4, <1>5, <1>6 DEF Settled
-----------------------------------------------------------------------------
(* The records of the canonical service.                                   *)

Recorded(m, n) == n.two = m.two /\ n.one = m.one /\ n.previous = m.previous

LEMMA FieldsStay ==
  ASSUME NEW m \in Machine, NEW v
  PROVE  /\ Recorded(m, [m EXCEPT !.running = v]) /\ Recorded(m, [m EXCEPT !.enabled = v])
         /\ Recorded(m, [m EXCEPT !.loaded = v]) /\ Recorded(m, [m EXCEPT !.runtime = v])
         /\ Recorded(m, [m EXCEPT !.backups = v]) /\ Recorded(m, [m EXCEPT !.listed = v])
BY DEF Machine, Recorded

LEMMA RedefinedStays ==
  ASSUME NEW m \in Machine, NEW s, NEW format, NEW enabled
  PROVE  Recorded(m, Redefined(m, s, format, enabled))
BY DEF Machine, Recorded, Redefined

LEMMA ManagedStays ==
  ASSUME NEW m \in Machine, NEW s \in Service
  PROVE  /\ Recorded(m, Started(m, s)) /\ Recorded(m, Stopped(m, s))
         /\ Recorded(m, Enabled(m, s)) /\ Recorded(m, Disabled(m, s))
<1>1. Recorded(m, Started(m, s))
  BY DEF Machine, Recorded, Started
<1>2. Recorded(m, Stopped(m, s))
  BY DEF Machine, Recorded, Stopped
<1>3. Recorded(m, Enabled(m, s))
  BY DEF Machine, Recorded, Enabled
<1>4. Recorded(m, Disabled(m, s))
  BY DEF Machine, Recorded, Disabled
<1> QED BY <1>1, <1>2, <1>3, <1>4

\* The service manager does not write records.
LEMMA CommandedRecords ==
  ASSUME NEW m \in Machine, NEW s \in Service, NEW do \in Verbs, do = "forget" => s # Canonical
  PROVE  Recorded(m, Commanded(m, do, s))
<1> DEFINE c == Commanded(m, do, s)
<1> SUFFICES Recorded(m, c)
  OBVIOUS
<1> HIDE DEF Verbs, c
<1>1. CASE do \in {"start", "kickstart", "stop", "quiesce", "enable", "disable"}
  <2>1. c = Started(m, s) \/ c = Stopped(m, s) \/ c = Enabled(m, s) \/ c = Disabled(m, s)
    BY <1>1 DEF Commanded, c
  <2> QED BY <2>1, ManagedStays
<1>2. CASE do = "enable-now"
  <2>1. c = Started(Enabled(m, s), s)
    BY <1>2 DEF Commanded, c
  <2>2. Enabled(m, s) \in Machine /\ Recorded(m, Enabled(m, s))
    BY CommandsChange, ManagedStays
  <2>3. Recorded(Enabled(m, s), c)
    BY <2>1, <2>2, ManagedStays
  <2> QED BY <2>2, <2>3 DEF Recorded
<1>3. CASE do = "disable-now"
  <2>1. c = Stopped(Disabled(m, s), s)
    BY <1>3 DEF Commanded, c
  <2>2. Disabled(m, s) \in Machine /\ Recorded(m, Disabled(m, s))
    BY CommandsChange, ManagedStays
  <2>3. Recorded(Disabled(m, s), c)
    BY <2>1, <2>2, ManagedStays
  <2> QED BY <2>2, <2>3 DEF Recorded
<1>4. CASE do = "bootout"
  <2>1. c = [Stopped(m, s) EXCEPT !.loaded = Stopped(m, s).loaded \ {s}]
    BY <1>4 DEF Commanded, c
  <2>2. Stopped(m, s) \in Machine /\ Recorded(m, Stopped(m, s))
    BY CommandsChange, ManagedStays
  <2>3. Recorded(Stopped(m, s), c)
    BY <2>1, <2>2, FieldsStay
  <2> QED BY <2>2, <2>3 DEF Recorded
<1>5. CASE do = "bootstrap"
  <2>1. c = [Started(m, s) EXCEPT !.loaded = Started(m, s).loaded \cup {s}]
    BY <1>5 DEF Commanded, c
  <2>2. Started(m, s) \in Machine /\ Recorded(m, Started(m, s))
    BY CommandsChange, ManagedStays
  <2>3. Recorded(Started(m, s), c)
    BY <2>1, <2>2, FieldsStay
  <2> QED BY <2>2, <2>3 DEF Recorded
<1>6. CASE do = "undefine"
  <2>1. c = Redefined(m, s, 0, IF m.platform = "win32" THEN m.enabled \ {s} ELSE m.enabled)
    BY <1>6 DEF Commanded, Redefined, c
  <2> QED BY <2>1, RedefinedStays
<1>7. CASE do = "wipe"
  <2>1. c = [m EXCEPT !.runtime = IF s = Canonical THEN Absent ELSE m.runtime]
    BY <1>7 DEF Commanded, c
  <2> QED BY <2>1, FieldsStay
<1>8. CASE do = "forget"
  <2>1. c = [m EXCEPT !.listed = m.listed \ {s}]
    BY <1>8 DEF Commanded, c
  <2> QED BY <2>1, FieldsStay
<1>9. CASE do \notin {"start", "kickstart", "stop", "quiesce", "enable", "disable", "enable-now", "disable-now",
                      "bootout", "bootstrap", "undefine", "wipe", "forget"}
  <2>1. c = m
    BY <1>9 DEF Commanded, c
  <2> QED BY <2>1 DEF Recorded
<1> QED BY <1>1, <1>2, <1>3, <1>4, <1>5, <1>6, <1>7, <1>8, <1>9

\* Neither does the program, but for the commands that are about records.
LEMMA UnrecordedStays ==
  ASSUME NEW m \in Machine, NEW s \in Service, NEW do \in Verbs, do = "forget" => s # Canonical,
         do \notin {"previous", "drop-previous", "drop-one", "drop-two", "pending", "write-planned", "commit",
                    "write-prior"}
  PROVE  Recorded(m, Effect(m, do, s))
<1> DEFINE c == Effect(m, do, s)
<1> SUFFICES Recorded(m, c)
  OBVIOUS
<1> HIDE DEF Verbs, c
<1>1. CASE do = "backup"
  <2> DEFINE v == m.backups \cup {[of |-> tx.prior, bytes |-> m.runtime, format |-> m.defined[s]]}
  <2>1. c = m \/ c = [m EXCEPT !.backups = v]
    BY <1>1 DEF Effect, c
  <2> HIDE DEF v
  <2>2. Recorded(m, [m EXCEPT !.backups = v])
    BY FieldsStay
  <2>3. Recorded(m, m)
    BY DEF Recorded
  <2> QED BY <2>1, <2>2, <2>3
<1>2. CASE do = "unstage"
  <2>1. c = [m EXCEPT !.backups = m.backups \ Backups(m)]
    BY <1>2 DEF Effect, c
  <2> QED BY <2>1, FieldsStay
<1>3. CASE do = "runtime"
  <2>1. c = [m EXCEPT !.runtime = tx.version]
    BY <1>3 DEF Effect, c
  <2> QED BY <2>1, FieldsStay
<1>4. CASE do = "restore-files"
  <2>1. c = [m EXCEPT !.runtime = Backup(m).bytes]
    BY <1>4 DEF Effect, c
  <2> QED BY <2>1, FieldsStay
<1>5. CASE do = "define"
  <2>1. c = Redefined(m, s, 2, IF m.platform = "win32" THEN m.enabled \cup {s} ELSE m.enabled)
    BY <1>5 DEF Effect, Redefined, c
  <2> QED BY <2>1, RedefinedStays
<1>6. CASE do = "restore-definition"
  <2>1. c = Redefined(m, s, Backup(m).format, IF m.platform = "win32" THEN m.enabled \cup {s} ELSE m.enabled)
    BY <1>6 DEF Effect, Redefined, c
  <2> QED BY <2>1, RedefinedStays
<1>7. CASE do = "yield"
  <2>1. c = Disabled(m, s)
    BY <1>7 DEF Effect, c
  <2> QED BY <2>1, ManagedStays
<1>8. CASE do = "enable-and-run"
  <2>1. c = Started(Enabled(m, s), s)
    BY <1>8 DEF Effect, c
  <2>2. Enabled(m, s) \in Machine /\ Recorded(m, Enabled(m, s))
    BY CommandsChange, ManagedStays
  <2>3. Recorded(Enabled(m, s), c)
    BY <2>1, <2>2, ManagedStays
  <2> QED BY <2>2, <2>3 DEF Recorded
<1>9. CASE do \notin {"backup", "unstage", "runtime", "restore-files", "define", "restore-definition", "yield",
                      "enable-and-run"}
  <2>1. c = Commanded(m, do, s)
    BY <1>9 DEF Effect, c
  <2> QED BY <2>1, CommandedRecords
<1> QED BY <1>1, <1>2, <1>3, <1>4, <1>5, <1>6, <1>7, <1>8, <1>9
-----------------------------------------------------------------------------
(* The scripts, by what they command.                                      *)

\* The steps that give one of these commands, each with its service.
Giving(commands, prior) == {step \in Plain(prior, Service) : <<step.do, step.to>> \in commands}

LEMMA GivingCommand ==
  ASSUME NEW commands, NEW prior, NEW do \in Verbs, NEW s \in Service, <<do, s>> \in commands,
         do \in {"backup", "write-prior"} => prior # None,
         do \in {"define", "restore-definition"} => s = Canonical
  PROVE  Command(do, s) \in Giving(commands, prior) /\ Lenient(do, s) \in Giving(commands, prior)
<1>1. Command(do, s) \in Plain(prior, Service) /\ Lenient(do, s) \in Plain(prior, Service)
  BY CommandFits
<1>2. Command(do, s).do = do /\ Command(do, s).to = s /\ Lenient(do, s).do = do /\ Lenient(do, s).to = s
  BY DEF Command, Lenient
<1> QED BY <1>1, <1>2 DEF Giving

LEMMA GivingExcept ==
  ASSUME NEW commands, NEW prior, NEW step \in Giving(commands, prior)
  PROVE  /\ \A block \in Blocks : [step EXCEPT !.in = block] \in Giving(commands, prior)
         /\ \A back \in Seq(Taking) : [step EXCEPT !.undo = back] \in Giving(commands, prior)
         /\ \A b \in BOOLEAN : [step EXCEPT !.clears = b] \in Giving(commands, prior)
         /\ \A b \in BOOLEAN, back \in Seq(Taking) :
              [step EXCEPT !.discards = b, !.undo = back] \in Giving(commands, prior)
<1>1. step \in Plain(prior, Service) /\ <<step.do, step.to>> \in commands /\ step \in Fields(Seq(Taking))
  BY DEF Giving, Plain, Steps
<1>2. ASSUME NEW s \in Plain(prior, Service), s.do = step.do, s.to = step.to PROVE s \in Giving(commands, prior)
  BY <1>1, <1>2 DEF Giving
<1>3. ASSUME NEW block \in Blocks PROVE [step EXCEPT !.in = block] \in Giving(commands, prior)
  <2> DEFINE s == [step EXCEPT !.in = block]
  <2>1. s \in Plain(prior, Service)
    BY <1>1, PlainExcept
  <2>2. s.do = step.do /\ s.to = step.to
    BY <1>1 DEF Fields
  <2> QED BY <1>2, <2>1, <2>2
<1>4. ASSUME NEW back \in Seq(Taking) PROVE [step EXCEPT !.undo = back] \in Giving(commands, prior)
  <2> DEFINE s == [step EXCEPT !.undo = back]
  <2>1. s \in Plain(prior, Service)
    BY <1>1, PlainExcept
  <2>2. s.do = step.do /\ s.to = step.to
    BY <1>1 DEF Fields
  <2> QED BY <1>2, <2>1, <2>2
<1>5. ASSUME NEW b \in BOOLEAN PROVE [step EXCEPT !.clears = b] \in Giving(commands, prior)
  <2> DEFINE s == [step EXCEPT !.clears = b]
  <2>1. s \in Plain(prior, Service)
    BY <1>1, PlainExcept
  <2>2. s.do = step.do /\ s.to = step.to
    BY <1>1 DEF Fields
  <2> QED BY <1>2, <2>1, <2>2
<1>6. ASSUME NEW b \in BOOLEAN, NEW back \in Seq(Taking)
      PROVE  [step EXCEPT !.discards = b, !.undo = back] \in Giving(commands, prior)
  <2> DEFINE s == [step EXCEPT !.discards = b, !.undo = back]
  <2>1. s \in Plain(prior, Service)
    BY <1>1, PlainExcept
  <2>2. s.do = step.do /\ s.to = step.to
    BY <1>1 DEF Fields
  <2> QED BY <1>2, <2>1, <2>2
<1> QED BY <1>3, <1>4, <1>5, <1>6

LEMMA GivingIn ==
  ASSUME NEW commands, NEW prior, NEW s \in Seq(Giving(commands, prior)), NEW block \in Blocks
  PROVE  In(block, s) \in Seq(Giving(commands, prior))
<1>1. Len(s) \in Nat /\ DOMAIN s = 1..Len(s) /\ \A i \in 1..Len(s) : s[i] \in Giving(commands, prior)
  BY ElementOfSeq
<1>2. \A i \in 1..Len(s) : [s[i] EXCEPT !.in = block] \in Giving(commands, prior)
  BY <1>1, GivingExcept
<1>3. In(block, s) = [i \in 1..Len(s) |-> In(block, s)[i]]
      /\ \A i \in 1..Len(s) : In(block, s)[i] = [s[i] EXCEPT !.in = block]
  BY <1>1 DEF In
<1>4. \A i \in 1..Len(s) : In(block, s)[i] \in Giving(commands, prior)
  BY <1>2, <1>3
<1> QED BY <1>1, <1>3, <1>4, SeqFits

LEMMA GivingAll ==
  ASSUME NEW do \in Verbs \ {"backup", "write-prior", "define", "restore-definition"},
         NEW services \in Seq(LegacySet), NEW commands, NEW prior,
         \A l \in LegacySet : <<do, l>> \in commands
  PROVE  All(do, services) \in Seq(Giving(commands, prior))
<1>1. Len(services) \in Nat /\ DOMAIN services = 1..Len(services)
      /\ \A i \in 1..Len(services) : services[i] \in LegacySet
  BY LenProperties, ElementOfSeq
<1>2. \A i \in 1..Len(services) : Command(do, services[i]) \in Giving(commands, prior)
  BY <1>1, GivingCommand DEF Service
<1>3. All(do, services) = [i \in 1..Len(services) |-> All(do, services)[i]]
      /\ \A i \in 1..Len(services) : All(do, services)[i] = Command(do, services[i])
  BY <1>1 DEF All
<1> QED BY <1>1, <1>2, <1>3, SeqFits

\* The commands that quiesce a job of launchd, boot it out and clean up after it.
LEMMA GivingMacQuiesce ==
  ASSUME NEW t, NEW s \in Service, NEW restoreStopped \in BOOLEAN, NEW commands, NEW prior,
         {<<"disable", s>>, <<"quiesce", s>>} \subseteq commands
  PROVE  MacQuiesce(t, s, restoreStopped) \in Seq(Giving(commands, prior))
<1>0. PICK Q : Q = Giving(commands, prior)
  OBVIOUS
<1>1. Command("disable", s) \in Q /\ Command("quiesce", s) \in Q
  BY <1>0, GivingCommand DEF Verbs
<1>2. /\ Command("enable", s) \in Taking /\ Lenient("bootstrap", s) \in Taking
      /\ Command("kickstart", s) \in Taking
  BY TakingFits DEF Verbs
<1>3. /\ <<Command("enable", s)>> \in Seq(Taking)
      /\ <<Command("enable", s), Lenient("bootstrap", s), Command("kickstart", s)>> \in Seq(Taking)
      /\ <<>> \in Seq(Taking)
  BY <1>2
<1> DEFINE back == IF s # Winner(t) THEN <<>>
                   ELSE <<Command("enable", s), Lenient("bootstrap", s), Command("kickstart", s)>>
           one == [Command("disable", s) EXCEPT !.undo = <<Command("enable", s)>>]
           two == [Command("quiesce", s) EXCEPT !.discards = s # Winner(t) /\ ~restoreStopped, !.undo = back]
<1>4. back \in Seq(Taking)
  BY <1>3
<1> HIDE DEF back
<1>5. one \in Q /\ two \in Q
  <2>1. one \in Q
    BY <1>0, <1>1, <1>3, GivingExcept
  <2>2. (s # Winner(t) /\ ~restoreStopped) \in BOOLEAN
    OBVIOUS
  <2>3. two \in Q
    BY <1>0, <1>1, <1>4, <2>2, GivingExcept
  <2> QED BY <2>1, <2>3
<1>6. MacQuiesce(t, s, restoreStopped) = <<one, two>>
  BY DEF MacQuiesce, back
<1> HIDE DEF one, two
<1>7. <<one, two>> \in Seq(Q)
  BY <1>5
<1> QED BY <1>0, <1>6, <1>7

LEMMA GivingMacQuiesceLegacies ==
  ASSUME NEW t, t.legacy \in Seq(LegacySet), NEW commands, NEW prior,
         {"disable", "quiesce"} \X LegacySet \subseteq commands
  PROVE  MacQuiesceLegacies(t) \in Seq(Giving(commands, prior))
<1> DEFINE services == t.legacy
<1>1. Len(services) \in Nat /\ DOMAIN services = 1..Len(services)
      /\ \A i \in 1..Len(services) : services[i] \in LegacySet /\ services[i] \in Service
  BY LenProperties, ElementOfSeq DEF Service
<1>2. \A i \in 1..Len(services) : MacQuiesce(t, services[i], FALSE) \in Seq(Giving(commands, prior))
  BY <1>1, GivingMacQuiesce
<1> DEFINE parts == [i \in 1..Len(services) |-> MacQuiesce(t, services[i], FALSE)]
<1>3. MacQuiesceLegacies(t) = FlattenSeq(parts)
  BY <1>1 DEF MacQuiesceLegacies, Each
<1>4. parts = [i \in 1..Len(services) |-> parts[i]]
  OBVIOUS
<1>5. \A i \in 1..Len(services) : parts[i] \in Seq(Giving(commands, prior))
  BY <1>2
<1> HIDE DEF parts
<1> QED BY <1>1, <1>3, <1>4, <1>5, PartsFit

LEMMA GivingMacBootout ==
  ASSUME NEW services \in Seq(LegacySet), NEW clearLast \in BOOLEAN, NEW commands, NEW prior,
         {"bootout"} \X LegacySet \subseteq commands
  PROVE  MacBootout(services, clearLast) \in Seq(Giving(commands, prior))
<1>1. Len(services) \in Nat /\ DOMAIN services = 1..Len(services)
      /\ \A i \in 1..Len(services) : services[i] \in LegacySet /\ services[i] \in Service
  BY LenProperties, ElementOfSeq DEF Service
<1>2. \A i \in 1..Len(services) : Command("bootout", services[i]) \in Giving(commands, prior)
  BY <1>1, GivingCommand DEF Verbs, Service
<1>3. ASSUME NEW i \in 1..Len(services)
      PROVE  [Command("bootout", services[i]) EXCEPT !.clears = clearLast /\ i = Len(services)]
               \in Giving(commands, prior)
  <2>1. (clearLast /\ i = Len(services)) \in BOOLEAN
    OBVIOUS
  <2> QED BY <1>2, <2>1, GivingExcept
<1> DEFINE steps == MacBootout(services, clearLast)
<1>4. steps = [i \in 1..Len(services) |-> steps[i]]
      /\ \A i \in 1..Len(services) :
           steps[i] = [Command("bootout", services[i]) EXCEPT !.clears = clearLast /\ i = Len(services)]
  BY <1>1 DEF MacBootout
<1>5. \A i \in 1..Len(services) : steps[i] \in Giving(commands, prior)
  BY <1>3, <1>4
<1> HIDE DEF steps
<1>6. steps \in Seq(Giving(commands, prior))
  BY <1>1, <1>4, <1>5, SeqFits
<1> QED BY <1>6 DEF steps

Cleaning == {"quiesce", "stop", "undefine", "forget", "wipe"}

LEMMA GivingCleanups ==
  ASSUME NEW services \in Seq(LegacySet), NEW commands, NEW prior, Cleaning \X LegacySet \subseteq commands
  PROVE  /\ MacCleanup(services) \in Seq(Giving(commands, prior))
         /\ Each(WindowsUninstall, services) \in Seq(Giving(commands, prior))
<1>0. PICK Q : Q = Giving(commands, prior)
  OBVIOUS
<1>1. Len(services) \in Nat /\ DOMAIN services = 1..Len(services)
      /\ \A i \in 1..Len(services) : services[i] \in LegacySet
  BY LenProperties, ElementOfSeq
<1> DEFINE Part(s) == << [Command("undefine", s) EXCEPT !.clears = TRUE], Command("forget", s), Command("wipe", s) >>
<1>2. ASSUME NEW s \in LegacySet PROVE Part(s) \in Seq(Q) /\ WindowsUninstall(s) \in Seq(Q)
  <2>1. /\ Command("undefine", s) \in Q /\ Command("forget", s) \in Q /\ Command("wipe", s) \in Q
        /\ Command("quiesce", s) \in Q /\ Lenient("stop", s) \in Q
    BY <1>0, GivingCommand DEF Verbs, Cleaning, Service
  <2> DEFINE one == [Command("undefine", s) EXCEPT !.clears = TRUE]
  <2>2. one \in Q
    BY <1>0, <2>1, GivingExcept
  <2>3. <<Command("quiesce", s), Lenient("stop", s), Command("undefine", s),
          Command("forget", s), Command("wipe", s)>> \in Seq(Q)
    BY <2>1
  <2>4. WindowsUninstall(s) \in Seq(Q)
    BY <1>0, <2>3, GivingIn DEF WindowsUninstall, Blocks
  <2> HIDE DEF one
  <2>5. << one, Command("forget", s), Command("wipe", s) >> \in Seq(Q)
    BY <2>1, <2>2
  <2> QED BY <2>4, <2>5 DEF one
<1> DEFINE parts == [i \in 1..Len(services) |-> Part(services[i])]
           others == [i \in 1..Len(services) |-> WindowsUninstall(services[i])]
<1>3. MacCleanup(services) = FlattenSeq(parts)
  BY <1>1 DEF MacCleanup, Each
<1>4. Each(WindowsUninstall, services) = FlattenSeq(others)
  BY <1>1 DEF Each
<1> HIDE DEF Part
<1>5. parts = [i \in 1..Len(services) |-> parts[i]] /\ others = [i \in 1..Len(services) |-> others[i]]
  OBVIOUS
<1>6. \A i \in 1..Len(services) : parts[i] \in Seq(Q)
  BY <1>1, <1>2
<1>7. \A i \in 1..Len(services) : others[i] \in Seq(Q)
  BY <1>1, <1>2
<1> HIDE DEF parts, others
<1>8. FlattenSeq(parts) \in Seq(Q)
  BY <1>1, <1>5, <1>6, PartsFit
<1>9. FlattenSeq(others) \in Seq(Q)
  BY <1>1, <1>5, <1>7, PartsFit
<1> QED BY <1>0, <1>3, <1>4, <1>8, <1>9

\* What a start commands.
Starting ==
  ({"quiesce", "start", "ready", "enable", "disable", "kickstart"} \X {Canonical})
    \cup ({"quiesce", "disable", "disable-now", "bootout", "stop", "undefine", "forget", "wipe"} \X LegacySet)

LEMMA GivingStarts ==
  ASSUME NEW t, t.legacy \in Seq(LegacySet), t.restart \in BOOLEAN, NEW commands, Starting \subseteq commands
  PROVE  {LinuxStart(t), WindowsStart(t), MacStart(t)} \subseteq Seq(Giving(commands, t.prior))
<1>0. PICK Q : Q = Giving(commands, t.prior)
  OBVIOUS
<1>01. \A do \in {"quiesce", "start", "ready", "enable", "disable", "kickstart"} : <<do, Canonical>> \in commands
  BY DEF Starting
<1>02. \A do \in {"quiesce", "disable", "disable-now", "bootout", "stop", "undefine", "forget", "wipe"},
          l \in LegacySet : <<do, l>> \in commands
  BY DEF Starting
<1>03. /\ {"disable", "quiesce"} \X LegacySet \subseteq commands
       /\ {"bootout"} \X LegacySet \subseteq commands /\ Cleaning \X LegacySet \subseteq commands
  BY DEF Starting, Cleaning
<1>1. /\ Command("quiesce", Canonical) \in Q /\ Command("start", Canonical) \in Q
      /\ Command("ready", Canonical) \in Q /\ Command("enable", Canonical) \in Q
      /\ Command("kickstart", Canonical) \in Q
  BY <1>0, <1>01, GivingCommand DEF Verbs, Service
<1>2. /\ All("quiesce", t.legacy) \in Seq(Q) /\ All("disable-now", t.legacy) \in Seq(Q)
      /\ All("disable", t.legacy) \in Seq(Q)
      /\ All("forget", t.legacy) \in Seq(Q) /\ All("undefine", t.legacy) \in Seq(Q)
  BY <1>0, <1>02, GivingAll DEF Verbs
<1>3. MacCleanup(t.legacy) \in Seq(Q) /\ Each(WindowsUninstall, t.legacy) \in Seq(Q)
  BY <1>0, <1>03, GivingCleanups
<1> DEFINE quiesce == <<Command("quiesce", Canonical)>>
           linux == <<Command("start", Canonical), Command("ready", Canonical)>>
           windows == <<Command("enable", Canonical), Command("start", Canonical), Command("ready", Canonical)>>
           enable == [Command("enable", Canonical) EXCEPT
                        !.undo = <<Command("disable", Canonical), Command("bootout", Canonical)>>]
           ready == [Command("ready", Canonical) EXCEPT !.clears = TRUE]
           mac == <<enable, Command("kickstart", Canonical), ready>>
           quiesced == MacQuiesce(t, Canonical, Winner(t) = None)
           undefined == All("undefine", t.legacy) \o All("forget", t.legacy)
<1>4. quiesce \in Seq(Q) /\ linux \in Seq(Q) /\ windows \in Seq(Q)
  BY <1>1
<1>5. mac \in Seq(Q)
  <2>1. <<Command("disable", Canonical), Command("bootout", Canonical)>> \in Seq(Taking)
    <3>1. Command("disable", Canonical) \in Taking /\ Command("bootout", Canonical) \in Taking
      BY TakingFits DEF Verbs, Service
    <3> QED BY <3>1
  <2>2. enable \in Q
    BY <1>0, <1>1, <2>1, GivingExcept
  <2>3. ready \in Q
    BY <1>0, <1>1, GivingExcept
  <2> HIDE DEF enable, ready
  <2> QED BY <1>1, <2>2, <2>3
<1>6. quiesced \in Seq(Q)
  <2>1. (Winner(t) = None) \in BOOLEAN /\ Canonical \in Service
    BY DEF Service
  <2> QED BY <1>0, <1>01, <2>1, GivingMacQuiesce
<1>7. In("after", undefined) \in Seq(Q)
  <2>1. undefined \in Seq(Q)
    BY <1>2, ConcatFits
  <2> HIDE DEF undefined
  <2> QED BY <1>0, <2>1, GivingIn DEF Blocks
<1>8. LinuxStart(t) = Only(t.restart, quiesce) \o All("quiesce", t.legacy) \o All("disable-now", t.legacy)
                      \o Only(t.restart, linux) \o In("after", undefined)
  BY DEF LinuxStart
<1>9. WindowsStart(t) = Only(t.restart, quiesce) \o All("quiesce", t.legacy) \o All("disable", t.legacy)
                        \o Only(t.restart, windows) \o Each(WindowsUninstall, t.legacy)
  BY DEF WindowsStart
<1>10. MacStart(t) = MacQuiesceLegacies(t) \o Only(t.restart, quiesced) \o MacBootout(t.legacy, ~t.restart)
                     \o Only(t.restart, mac) \o MacCleanup(t.legacy)
  BY DEF MacStart
<1> HIDE DEF quiesce, linux, windows, mac, quiesced, undefined
<1>11. /\ Only(t.restart, quiesce) \in Seq(Q) /\ Only(t.restart, linux) \in Seq(Q)
       /\ Only(t.restart, windows) \in Seq(Q) /\ Only(t.restart, mac) \in Seq(Q)
       /\ Only(t.restart, quiesced) \in Seq(Q)
  BY <1>4, <1>5, <1>6, OnlyFits
<1>12. MacQuiesceLegacies(t) \in Seq(Q) /\ MacBootout(t.legacy, ~t.restart) \in Seq(Q)
  BY <1>0, <1>03, GivingMacQuiesceLegacies, GivingMacBootout
<1>13. LinuxStart(t) \in Seq(Q)
  BY <1>2, <1>7, <1>8, <1>11, ConcatFits
<1>14. WindowsStart(t) \in Seq(Q)
  BY <1>2, <1>3, <1>9, <1>11, ConcatFits
<1>15. MacStart(t) \in Seq(Q)
  BY <1>3, <1>10, <1>11, <1>12, ConcatFits
<1> QED BY <1>0, <1>13, <1>14, <1>15

-----------------------------------------------------------------------------
(* The scripts write no record of the canonical service but where they     *)
(* finish an installation.                                                 *)

Recording ==
  {"previous", "drop-previous", "drop-one", "drop-two", "pending", "write-planned", "commit", "write-prior"}

\* No record of the canonical service is written or removed.
Unrecording == {c \in Verbs \X Service : c[1] \notin Recording /\ (c[1] = "forget" => c[2] # Canonical)}

LEMMA UnrecordedAre ==
  ASSUME NEW prior
  PROVE  UnrecordedSteps(prior) = Giving(Unrecording, prior)
<1>1. ASSUME NEW step \in Plain(prior, Service)
      PROVE  <<step.do, step.to>> \in Unrecording <=> Unrecorded(step)
  <2>1. step.do \in Verbs /\ step.to \in Service
    BY DEF Plain, Steps, Fields
  <2> HIDE DEF Verbs
  <2> QED BY <2>1 DEF Unrecording, Unrecorded, Recording
<1> QED BY <1>1 DEF UnrecordedSteps, Giving

LEMMA UnrecordedStarts ==
  ASSUME NEW t, t.legacy \in Seq(LegacySet), t.restart \in BOOLEAN
  PROVE  {LinuxStart(t), WindowsStart(t), MacStart(t)} \subseteq Seq(UnrecordedSteps(t.prior))
<1>1. Starting \subseteq Unrecording
  BY TargetsAssumption DEF Starting, Unrecording, Recording, Verbs, Service
<1> QED BY <1>1, GivingStarts, UnrecordedAre

LEMMA UnrecordedCleanups ==
  ASSUME NEW services \in Seq(LegacySet), NEW prior
  PROVE  Each(WindowsUninstall, services) \in Seq(UnrecordedSteps(prior))
<1>1. Cleaning \X LegacySet \subseteq Unrecording
  BY TargetsAssumption DEF Cleaning, Unrecording, Recording, Verbs, Service
<1> QED BY <1>1, GivingCleanups, UnrecordedAre

\* What finishes an installation commits the new record, and leaves it.
LEMMA FinishCommits ==
  ASSUME NEW prior
  PROVE  Finish \in Seq(LastingSteps(prior)) /\ Has(Finish, Commits(prior))
<1>0. PICK P : P = Plain(prior, Service)
  OBVIOUS
<1> DEFINE a == Lenient("unstage", Canonical)
           b == Command("commit", Canonical)
           c == Command("drop-one", Canonical)
           d == Command("drop-previous", Canonical)
<1>1. a \in P /\ b \in P /\ c \in P /\ d \in P
  BY <1>0, CommandFits DEF Verbs, Service
<1>2. /\ a.do = "unstage" /\ b.do = "commit" /\ c.do = "drop-one" /\ d.do = "drop-previous"
      /\ b.when = "always" /\ b.on = "throw"
  BY DEF Command, Lenient
<1>3. Finish = In("finish", <<a, b, c, d>>)
  BY DEF Finish
<1> HIDE DEF a, b, c, d
<1> DEFINE s == <<a, b, c, d>>
           f == In("finish", s)
           Marked(p) == [p EXCEPT !.in = "finish"]
<1>4. Len(s) = 4 /\ DOMAIN s = 1..4 /\ s[1] = a /\ s[2] = b /\ s[3] = c /\ s[4] = d
  OBVIOUS
<1> HIDE DEF s
<1>5. f = [i \in 1..4 |-> f[i]] /\ \A i \in 1..4 : f[i] = Marked(s[i])
  BY <1>4 DEF In
<1>6. ASSUME NEW p \in P
      PROVE  Marked(p) \in P /\ Marked(p).do = p.do /\ Marked(p).when = p.when /\ Marked(p).on = p.on
  <2> DEFINE q == [p EXCEPT !.in = "finish"]
  <2>1. q \in P
    BY <1>0, PlainExcept DEF Blocks
  <2>2. q.do = p.do /\ q.when = p.when /\ q.on = p.on
    BY <1>0 DEF Plain, Steps, Fields
  <2> QED BY <2>1, <2>2
<1> HIDE DEF f, Marked
<1>7. /\ f[1] \in P /\ f[1].do = "unstage" /\ f[2] \in P /\ f[2].do = "commit"
      /\ f[2].when = "always" /\ f[2].on = "throw"
      /\ f[3] \in P /\ f[3].do = "drop-one" /\ f[4] \in P /\ f[4].do = "drop-previous"
  <2>1. f[1] \in P /\ f[1].do = "unstage"
    BY <1>1, <1>2, <1>4, <1>5, <1>6
  <2>2. f[2] \in P /\ f[2].do = "commit" /\ f[2].when = "always" /\ f[2].on = "throw"
    BY <1>1, <1>2, <1>4, <1>5, <1>6
  <2>3. f[3] \in P /\ f[3].do = "drop-one"
    BY <1>1, <1>2, <1>4, <1>5, <1>6
  <2>4. f[4] \in P /\ f[4].do = "drop-previous"
    BY <1>1, <1>2, <1>4, <1>5, <1>6
  <2> QED BY <2>1, <2>2, <2>3, <2>4
<1>8. ASSUME NEW p \in P, p.do \in {"unstage", "commit", "drop-one", "drop-previous"}
      PROVE  p \in LastingSteps(prior)
  BY <1>0, <1>8 DEF LastingSteps, Lasting
<1>9. \A i \in 1..4 : f[i] \in LastingSteps(prior)
  <2>1. ASSUME NEW i \in 1..4 PROVE f[i] \in LastingSteps(prior)
    <3>1. i = 1 \/ i = 2 \/ i = 3 \/ i = 4
      OBVIOUS
    <3> QED BY <1>7, <1>8, <3>1
  <2> QED BY <2>1
<1>10. f \in Seq(LastingSteps(prior))
  BY <1>5, <1>9, SeqFits
<1>11. f[2] \in Commits(prior)
  BY <1>0, <1>7 DEF Commits
<1>12. Len(f) = 4
  BY <1>5, <1>10, LenProperties
<1>13. Has(f, Commits(prior))
  BY <1>11, <1>12 DEF Has
<1> QED BY <1>3, <1>10, <1>13 DEF f, s

LEMMA UnrecordedLasts ==
  ASSUME NEW prior
  PROVE  UnrecordedSteps(prior) \subseteq LastingSteps(prior)
BY DEF UnrecordedSteps, LastingSteps, Unrecorded, Lasting

Committing(s, prior) == Settled(s, LastingSteps(prior), Commits(prior)) /\ Has(s, Commits(prior))

LEMMA InstallsCommit ==
  ASSUME NEW t, t.legacy \in Seq(LegacySet)
  PROVE  /\ Committing(LinuxInstall(t), t.prior) /\ Committing(WindowsInstall(t), t.prior)
         /\ Committing(MacInstall(t), t.prior)
<1> DEFINE G == Commits(t.prior)
           L == LastingSteps(t.prior)
           P == Plain(t.prior, Service)
<1>1. Finish \in Seq(L) /\ Has(Finish, G)
  BY FinishCommits
<1>2. ASSUME NEW s, Finishing(s, t.prior) PROVE Committing(s, t.prior)
  <2>1. PICK x \in Seq(P) : s = x \o Finish
    BY <1>2 DEF Finishing
  <2> HIDE DEF G, L, P
  <2>2. Settled(x \o Finish, L, G) /\ Has(x \o Finish, G)
    BY <1>1, SettledBy
  <2> QED BY <2>1, <2>2 DEF Committing, G, L
<1>3. Committing(WindowsInstall(t), t.prior)
  <2> DEFINE b == Only(t.kind = "replace", Each(WindowsUninstall, t.legacy))
  <2>1. PICK x \in Seq(P) : WindowsInstall(t) = x \o Finish \o b
    BY WindowsInstallFits
  <2>2. b \in Seq(L)
    <3>1. Each(WindowsUninstall, t.legacy) \in Seq(UnrecordedSteps(t.prior))
      BY UnrecordedCleanups
    <3>2. Each(WindowsUninstall, t.legacy) \in Seq(L)
      BY <3>1, UnrecordedLasts, SeqMonotonic
    <3> QED BY <3>2, OnlyFits
  <2> HIDE DEF b, G, L, P
  <2>3. Finish \o b \in Seq(L) /\ Has(Finish \o b, G)
    BY <1>1, <2>2, ConcatFits, HasConcat
  <2>4. Settled(x \o (Finish \o b), L, G) /\ Has(x \o (Finish \o b), G)
    BY <2>3, SettledBy
  <2>5. x \o Finish \o b = x \o (Finish \o b)
    BY <1>1, <2>2, ConcatAssociative
  <2> QED BY <2>1, <2>4, <2>5 DEF Committing, G, L
<1> QED BY <1>2, <1>3, LinuxInstallFits, MacInstallFits

\* An installation commits its record, and a start leaves the one it found.
LEMMA ScriptSettles ==
  ASSUME NEW t \in Transaction
  PROVE  /\ t.kind \in {"install", "replace"} => Committing(Script(t), t.prior)
         /\ t.kind = "start" => Script(t) \in Seq(UnrecordedSteps(t.prior))
<1>1. t.legacy \in Seq(LegacySet) /\ t.restart \in BOOLEAN
  BY DEF Transaction
<1>2. CASE t.kind \in {"install", "replace"}
  <2>1. Script(t) \in {LinuxInstall(t), WindowsInstall(t), MacInstall(t)}
    BY <1>2 DEF Script
  <2> QED BY <1>1, <1>2, <2>1, InstallsCommit
<1>3. CASE t.kind = "start"
  <2>1. Script(t) \in {LinuxStart(t), WindowsStart(t), MacStart(t)}
    BY <1>3 DEF Script
  <2> QED BY <1>1, <1>3, <2>1, UnrecordedStarts
<1> QED BY <1>2, <1>3
-----------------------------------------------------------------------------
(* The invariant of the versions, action by action.                        *)

LEMMA RecordWritten ==
  ASSUME NEW m \in Machine, NEW r
  PROVE  /\ [m EXCEPT !.two = r].two = r
         /\ [m EXCEPT !.one = r].two = m.two /\ [m EXCEPT !.previous = r].two = m.two
BY DEF Machine

\* What a command leaves of the records.
LEMMA EffectRecords ==
  ASSUME NEW m \in Machine, NEW step \in Plain(tx.prior, Service)
  PROVE  LET c == Effect(m, step.do, step.to) IN
         /\ step \in UnrecordedSteps(tx.prior) => Recorded(m, c)
         /\ step \in LastingSteps(tx.prior) => c.two \in {m.two, Installed}
         /\ step \in Commits(tx.prior) => c.two = Installed
<1> DEFINE do == step.do
           s == step.to
           c == Effect(m, do, s)
<1>1. do \in Verbs /\ s \in Service
  BY DEF Plain, Steps, Fields
<1>2. ASSUME Unrecorded(step) PROVE Recorded(m, c)
  BY <1>1, <1>2, UnrecordedStays DEF Unrecorded
<1>3. ASSUME do = "commit" PROVE c.two = Installed
  <2>1. c = [m EXCEPT !.two = Installed]
    BY <1>3 DEF Effect
  <2> QED BY <2>1, RecordWritten
<1>4. ASSUME Lasting(step) PROVE c.two \in {m.two, Installed}
  <2>1. CASE do \in {"previous", "drop-previous", "drop-one"}
    <3>1. CASE do = "previous"
      <4>1. c = [m EXCEPT !.previous = tx.prior]
        BY <3>1 DEF Effect
      <4> QED BY <4>1, RecordWritten
    <3>2. CASE do = "drop-previous"
      <4>1. c = [m EXCEPT !.previous = None]
        BY <3>2 DEF Effect
      <4> QED BY <4>1, RecordWritten
    <3>3. CASE do = "drop-one"
      <4>1. c = [m EXCEPT !.one = None]
        BY <3>3 DEF Effect
      <4> QED BY <4>1, RecordWritten
    <3> QED BY <2>1, <3>1, <3>2, <3>3
  <2>2. CASE do = "commit"
    BY <1>3, <2>2
  <2>3. CASE do \notin {"previous", "drop-previous", "drop-one", "commit"}
    <3>1. Unrecorded(step)
      BY <1>4, <2>3 DEF Lasting, Unrecorded
    <3> QED BY <1>2, <3>1 DEF Recorded
  <2> QED BY <2>1, <2>2, <2>3
<1>5. step \in UnrecordedSteps(tx.prior) => Recorded(m, c)
  BY <1>2 DEF UnrecordedSteps
<1>6. step \in LastingSteps(tx.prior) => c.two \in {m.two, Installed}
  BY <1>4 DEF LastingSteps
<1>7. step \in Commits(tx.prior) => c.two = Installed
  BY <1>3 DEF Commits
<1> QED BY <1>5, <1>6, <1>7

LEMMA FailureRecords ==
  ASSUME NEW m \in Machine, NEW step \in Plain(tx.prior, Service), NEW n \in AfterFailure(m, step.do, step.to)
  PROVE  /\ step \in UnrecordedSteps(tx.prior) => Recorded(m, n)
         /\ step \in LastingSteps(tx.prior) => n.two \in {m.two, Installed}
<1>1. step.to \in Service
  BY DEF Plain, Steps, Fields
<1>2. CASE n = Effect(m, step.do, step.to)
  BY <1>2, EffectRecords
<1>3. CASE n = m \/ n = [m EXCEPT !.runtime = Mixed] \/ n = Enabled(m, step.to)
  <2>1. Recorded(m, m)
    BY DEF Recorded
  <2>2. Recorded(m, [m EXCEPT !.runtime = Mixed])
    BY FieldsStay
  <2>3. Recorded(m, Enabled(m, step.to))
    BY <1>1, ManagedStays
  <2>4. Recorded(m, n)
    BY <1>3, <2>1, <2>2, <2>3
  <2> QED BY <2>4 DEF Recorded
<1> QED BY <1>2, <1>3 DEF AfterFailure

\* What the code notes is not what it installs.
LEMMA NotedStays ==
  ASSUME tx \in Transaction, NEW step
  PROVE  /\ Tried(step).version = tx.version /\ Tried(step).before = tx.before /\ Tried(step).restart = tx.restart
         /\ Noted(step).version = tx.version /\ Noted(step).before = tx.before /\ Noted(step).restart = tx.restart
<1> DEFINE u == Tried(step)
           n == Noted(step)
<1>1. u.version = tx.version /\ u.before = tx.before /\ u.restart = tx.restart
  <2> DEFINE disabled == IF phase = "forward" /\ step.do \in {"disable", "disable-now"}
                         THEN tx.disabled \cup {step.to} ELSE tx.disabled
             off == IF phase = "forward" /\ step.do = "enable" THEN tx.off \ {step.to} ELSE tx.off
             mutated == tx.mutated \/ step.do = "runtime"
  <2>1. u = [tx EXCEPT !.disabled = disabled, !.off = off, !.mutated = mutated]
    BY DEF Tried
  <2> HIDE DEF u, disabled, off, mutated
  <2> QED BY <2>1 DEF Transaction
<1>2. DOMAIN u = DOMAIN tx
  BY DEF Tried, Transaction
<1>3. n.version = u.version /\ n.before = u.before /\ n.restart = u.restart
  <2> DEFINE off == IF TurnsOff(step) THEN u.off \cup {step.to} ELSE u.off
             stopped == IF step.do = "quiesce" /\ machine.running = step.to THEN u.stopped \cup {step.to} ELSE u.stopped
             created == u.created \/ step.do = "define"
             answered == u.answered \/ step.do = "ready"
             yielded == u.yielded \/ step.do = "yield"
             restored == IF step.restores THEN step.to ELSE u.restored
  <2>1. n = [u EXCEPT !.off = off, !.stopped = stopped, !.created = created, !.answered = answered,
                      !.yielded = yielded, !.restored = restored]
    BY DEF Noted
  <2>2. {"version", "before", "restart"} \subseteq DOMAIN u
    BY <1>2 DEF Transaction
  <2> HIDE DEF n, u, off, stopped, created, answered, yielded, restored
  <2> QED BY <2>1, <2>2
<1> QED BY <1>1, <1>3

\* What the code notes, and which failure it meets, leaves what it installs.
Same(t) ==
  /\ t.kind = tx.kind /\ t.version = tx.version /\ t.before = tx.before /\ t.prior = tx.prior
  /\ t.restart = tx.restart

LEMMA NotedSame ==
  ASSUME tx \in Transaction, NEW step \in Steps(tx.prior, Service)
  PROVE  Same(Tried(step)) /\ Same(Noted(step))
BY NotedStays, NotedFits DEF Same

\* What is over in any other way than well, or is being taken back, owes nothing.
LEMMA NewestOtherwise ==
  ASSUME phase' \notin {"forward", "rest"} \/ (phase' = "rest" /\ outcome' # "ok")
  PROVE  NewestInv'
BY DEF NewestInv

\* A script goes on with the commands behind the next one.
LEMMA NewestOn ==
  ASSUME InstallInv, NewestInv, script # <<>>, phase = "forward", phase' = "forward", count' = count,
         Same(tx'), script' = Tail(script),
         Head(script) \in UnrecordedSteps(tx.prior) => Recorded(machine, machine'),
         Head(script) \in LastingSteps(tx.prior) => machine'.two \in {machine.two, Installed},
         Head(script) \in Commits(tx.prior) => machine'.two = Installed
  PROVE  NewestInv'
<1> DEFINE P == Plain(tx.prior, Service)
           L == LastingSteps(tx.prior)
           G == Commits(tx.prior)
<1>1. Installed' = Installed
  BY DEF Same, Installed, Planned
<1>2. script \in Seq(P)
  BY DEF InstallInv
<1>3. ASSUME tx.kind \in {"install", "replace"}
      PROVE  /\ NotOlder(tx.version)
             /\ Settled(Tail(script), L, G)
             /\ machine'.two = Installed \/ Has(Tail(script), G)
  <2>1. NotOlder(tx.version) /\ Settled(script, L, G) /\ (machine.two = Installed \/ Has(script, G))
    BY <1>3 DEF NewestInv
  <2> HIDE DEF P, L, G
  <2>2. /\ Settled(Tail(script), L, G)
        /\ Head(script) \in L \/ Has(Tail(script), G)
        /\ Has(script, G) => Head(script) \in G \/ Has(Tail(script), G)
    BY <1>2, <2>1, SettledTail
  <2>3. machine'.two = Installed \/ Has(Tail(script), G)
    <3>1. CASE Has(Tail(script), G)
      BY <3>1
    <3>2. CASE Head(script) \in G
      BY <3>2 DEF G
    <3>3. CASE Head(script) \in L /\ machine.two = Installed
      BY <3>3 DEF L
    <3> QED BY <2>1, <2>2, <3>1, <3>2, <3>3
  <2> QED BY <2>1, <2>2, <2>3
<1>4. ASSUME tx.kind = "start"
      PROVE  /\ NotOlder(ReadRecord(machine).version)
             /\ ReadRecord(machine') = ReadRecord(machine)
             /\ Tail(script) \in Seq(UnrecordedSteps(tx.prior))
  <2>1. NotOlder(ReadRecord(machine).version) /\ script \in Seq(UnrecordedSteps(tx.prior))
    BY <1>4 DEF NewestInv
  <2>2. Head(script) \in UnrecordedSteps(tx.prior) /\ Tail(script) \in Seq(UnrecordedSteps(tx.prior))
    BY <2>1, HeadTailProperties
  <2>3. Recorded(machine, machine')
    BY <2>2
  <2> QED BY <2>1, <2>2, <2>3 DEF Recorded, ReadRecord
<1> HIDE DEF P
<1>5. \A v : NotOlder(v)' <=> NotOlder(v)
  BY DEF Same, NotOlder
<1> QED BY <1>1, <1>3, <1>4, <1>5 DEF NewestInv, Same, NotOlder

LEMMA SkipStepNewest ==
  ASSUME InstallInv, NewestInv, SkipStep
  PROVE  NewestInv'
<1>1. /\ machine' = machine /\ tx' = tx /\ phase' = phase /\ outcome' = outcome
      /\ count' = count /\ phase # "rest" /\ script # <<>> /\ script' = Tail(script)
      /\ ~Applies(Head(script))
  BY DEF SkipStep
<1>2. Head(script).when # "always"
  BY <1>1 DEF Applies
<1>3. Head(script) \notin Commits(tx.prior)
  BY <1>2 DEF Commits
<1>4. CASE phase = "forward"
  <2>1. Same(tx') /\ Recorded(machine, machine') /\ machine'.two \in {machine.two, Installed}
    BY <1>1 DEF Same, Recorded
  <2> QED BY <1>1, <1>3, <1>4, <2>1, NewestOn
<1>5. CASE phase # "forward"
  BY <1>1, <1>5, NewestOtherwise
<1> QED BY <1>4, <1>5

LEMMA SucceedNewest ==
  ASSUME InstallInv, NewestInv, Succeed
  PROVE  NewestInv'
<1> DEFINE step == Head(script)
<1>1. /\ phase # "rest" /\ script # <<>> /\ machine' = Effect(machine, step.do, step.to) /\ tx' = Noted(step)
      /\ script' = Tail(script) /\ phase' = phase /\ outcome' = outcome /\ count' = count
  BY DEF Succeed
<1>2. CASE phase = "forward"
  <2>1. step \in Plain(tx.prior, Service) /\ step \in Steps(tx.prior, Service)
    BY <1>1, <1>2, HeadFits
  <2>2. Same(tx')
    <3> HIDE DEF step
    <3> QED BY <1>1, <2>1, Bounds, NotedSame
  <2>3. /\ step \in UnrecordedSteps(tx.prior) => Recorded(machine, machine')
        /\ step \in LastingSteps(tx.prior) => machine'.two \in {machine.two, Installed}
        /\ step \in Commits(tx.prior) => machine'.two = Installed
    <3> HIDE DEF step
    <3> QED BY <1>1, <2>1, Bounds, EffectRecords
  <2> QED BY <1>1, <1>2, <2>2, <2>3, NewestOn
<1>3. CASE phase # "forward"
  BY <1>1, <1>3, NewestOtherwise
<1> QED BY <1>2, <1>3

LEMMA FailNewest ==
  ASSUME InstallInv, NewestInv, Fail
  PROVE  NewestInv'
<1> DEFINE step == Head(script)
           unsure == Tried(step).unsure \/ NoWayBack
           t == [Tried(step) EXCEPT !.unsure = unsure]
<1>1. /\ phase # "rest" /\ script # <<>> /\ count' = count
      /\ machine' \in AfterFailure(machine, step.do, step.to) /\ tx' = t
      /\ \/ step.on = "throw" /\ Thrown(step, t)
         \/ step.on # "throw" /\ script' = RemainderAfter(step) /\ UNCHANGED <<undo, phase, outcome>>
  BY DEF Fail
<1>2. CASE step.on = "throw" /\ Thrown(step, t)
  <2> HIDE DEF step, t
  <2>1. phase' \notin {"forward", "rest"} \/ (phase' = "rest" /\ outcome' # "ok")
    BY <1>1, <1>2 DEF Thrown, Rest
  <2> QED BY <2>1, NewestOtherwise
<1>3. CASE step.on # "throw" /\ phase = "forward" /\ script' = RemainderAfter(step)
           /\ UNCHANGED <<undo, phase, outcome>>
  <2>1. step \in Plain(tx.prior, Service) /\ step \in Steps(tx.prior, Service)
    BY <1>1, <1>3, HeadFits
  <2>2. Same(tx')
    <3>1. Tried(step) \in Transaction /\ Same(Tried(step))
      <4> HIDE DEF step
      <4> QED BY <2>1, Bounds, NotedSame, NotedFits
    <3> DEFINE u == Tried(step)
    <3>2. tx' = [u EXCEPT !.unsure = unsure]
      BY <1>1
    <3> HIDE DEF u, unsure, step
    <3>3. u \in Transaction /\ Same(u)
      BY <3>1 DEF u
    <3> QED BY <3>2, <3>3 DEF Same, Transaction
  <2> HIDE DEF step, t
  <2>3. step.on = "ignore"
    BY <1>3, <2>1 DEF Plain
  <2>4. script' = Tail(script)
    BY <1>3, <2>3 DEF RemainderAfter
  <2>5. step \notin Commits(tx.prior)
    BY <2>3 DEF Commits
  <2>6. /\ step \in UnrecordedSteps(tx.prior) => Recorded(machine, machine')
        /\ step \in LastingSteps(tx.prior) => machine'.two \in {machine.two, Installed}
    BY <1>1, <2>1, Bounds, FailureRecords
  <2>7. phase' = "forward" /\ count' = count /\ script # <<>>
    BY <1>1, <1>3
  <2> QED BY <1>3, <2>2, <2>4, <2>5, <2>6, <2>7, NewestOn DEF step
<1>4. CASE step.on # "throw" /\ phase # "forward" /\ UNCHANGED <<undo, phase, outcome>>
  BY <1>1, <1>4, NewestOtherwise
<1> HIDE DEF step, t
<1> QED BY <1>1, <1>2, <1>3, <1>4

LEMMA KilledNewest ==
  ASSUME Killed
  PROVE  NewestInv'
<1>1. phase' = "rest" /\ outcome' = "died"
  BY DEF Killed, Rest
<1> QED BY <1>1, NewestOtherwise

\* An installation whose script is over committed its record.
LEMMA EndPhaseNewest ==
  ASSUME InstallInv, NewestInv, EndPhase
  PROVE  NewestInv'
<1>1. /\ phase # "rest" /\ script = <<>> /\ tx' = tx /\ count' = count
      /\ \/ phase = "forward" /\ Rest("ok") /\ machine' = machine
         \/ phase' = "mend"
         \/ phase' = "hand-back"
         \/ Rest("failed")
  BY DEF EndPhase
<1>2. CASE phase = "forward" /\ Rest("ok") /\ machine' = machine
  <2>1. phase' = "rest"
    BY <1>2 DEF Rest
  <2>2. \A v : NotOlder(v)' <=> NotOlder(v)
    BY <1>1 DEF NotOlder
  <2>3. ASSUME tx.kind \in {"install", "replace"} PROVE NotOlder(ReadRecord(machine).version)
    <3>1. NotOlder(tx.version) /\ (machine.two = Installed \/ Has(script, Commits(tx.prior)))
      BY <1>2, <2>3 DEF NewestInv
    <3>2. ~Has(script, Commits(tx.prior))
      BY <1>1 DEF Has
    <3>3. Installed # None
      BY Bounds, PlannedFits, TargetsAssumption
    <3>4. ReadRecord(machine) = Installed
      BY <3>1, <3>2, <3>3 DEF ReadRecord
    <3>5. Installed.version = tx.version
      BY DEF Installed, Planned
    <3> QED BY <3>1, <3>4, <3>5
  <2>4. ASSUME tx.kind = "start" PROVE NotOlder(ReadRecord(machine).version)
    BY <1>2, <2>4 DEF NewestInv
  <2> QED BY <1>1, <1>2, <2>1, <2>2, <2>3, <2>4 DEF NewestInv, NotOlder
<1>3. CASE phase' = "mend" \/ phase' = "hand-back" \/ Rest("failed")
  <2>1. phase' \notin {"forward", "rest"} \/ (phase' = "rest" /\ outcome' # "ok")
    BY <1>3 DEF Rest
  <2> QED BY <2>1, NewestOtherwise
<1> QED BY <1>1, <1>2, <1>3

\* What an installation finds is not newer than what it installs.
LEMMA FoundOlder ==
  ASSUME machine \in Machine, NEW version \in Versions, NEW protocol,
         UpdateStatus(machine, version, protocol) \notin {"newer", "newer-incompatible"},
         NEW found, found = ReadRecord(machine), found # None, found.state = "installed"
  PROVE  ~(version < found.version)
<1>1. found \in Record
  BY RecordRead
<1>2. version \in Nat \ {0} /\ \A v \in Versions \cup {0} : v \in Nat
  BY TargetsAssumption
<1>3. CASE found.format = 1
  <2>1. found.version = 0
    BY <1>1, <1>3 DEF Record
  <2> QED BY <1>2, <2>1
<1>4. CASE found.format # 1
  <2>1. found.version \in Nat
    BY <1>1, <1>2 DEF Record
  <2>2. ASSUME found.version > version PROVE FALSE
    <3>1. ~(found = None) /\ ~(found.format = 1) /\ ~(found.state # "installed")
      BY <1>4
    <3>2. UpdateStatus(machine, version, protocol)
            = IF Speaks[found.version] = protocol THEN "newer" ELSE "newer-incompatible"
      BY <1>2, <2>1, <2>2, <3>1 DEF UpdateStatus
    <3> QED BY <3>2
  <2> QED BY <1>2, <2>1, <2>2
<1> QED BY <1>3, <1>4

\* What a start finds is not older than what it would install.
LEMMA FoundNewer ==
  ASSUME machine \in Machine, NEW version \in Versions, NEW protocol,
         UpdateStatus(machine, version, protocol) \in {"newer", "current"}
  PROVE  /\ ReadRecord(machine).version \in Nat
         /\ ReadRecord(machine).version >= version
<1> DEFINE found == ReadRecord(machine)
<1>1. found # None /\ found.format # 1 /\ found.state = "installed"
  BY DEF UpdateStatus
<1>2. found \in Record
  BY <1>1, RecordRead
<1>3. version \in Nat /\ \A v \in Versions \cup {0} : v \in Nat
  BY TargetsAssumption
<1>4. found.version \in Nat
  BY <1>2, <1>3 DEF Record
<1>5. ~(found.version < version)
  <2> SUFFICES ASSUME found.version < version PROVE FALSE
    OBVIOUS
  <2>1. ~(found.version > version)
    BY <1>3, <1>4
  <2>2. UpdateStatus(machine, version, protocol) = "outdated"
    <3>1. found # None /\ found.format # 1 /\ ~(found.state # "installed")
      BY <1>1
    <3> QED BY <2>1, <3>1 DEF UpdateStatus
  <2> QED BY <2>2
<1> QED BY <1>3, <1>4, <1>5

LEMMA ConvergeNewest ==
  ASSUME InstallInv, Converge
  PROVE  NewestInv'
<1>1. PICK cli \in Versions, direct \in BOOLEAN, restart \in BOOLEAN :
        LET version == Promoted(cli)
            status == UpdateStatus(machine, version, Speaks[cli])
            starts == status = "newer" \/ (status = "current" /\ ~direct)
            kind == IF starts THEN "start" ELSE IF machine.listed = {} THEN "install" ELSE "replace"
            prior == IF starts THEN ReadRecord(machine) ELSE PreviousOwner(machine)
        IN  /\ status # "newer-incompatible"
            /\ Undertake(Begun(kind, Canonical, version, prior, restart, machine))
  BY DEF Converge
<1> DEFINE version == Promoted(cli)
           status == UpdateStatus(machine, version, Speaks[cli])
           starts == status = "newer" \/ (status = "current" /\ ~direct)
           kind == IF starts THEN "start" ELSE IF machine.listed = {} THEN "install" ELSE "replace"
           prior == IF starts THEN ReadRecord(machine) ELSE PreviousOwner(machine)
           t == Begun(kind, Canonical, version, prior, restart, machine)
<1>2. status # "newer-incompatible" /\ Undertake(t)
  BY <1>1
<1>3. machine \in Machine /\ version \in Versions
      /\ \A l \in machine.listed : version >= LegacyVersion[l]
  BY Bounds, PromotedFits
<1>4. \A l \in machine.listed : LegacyVersion[l] \in Nat
  <2>1. LegacyVersion \in [LegacySet -> Versions \cup {0}] /\ \A v \in Versions \cup {0} : v \in Nat
    BY TargetsAssumption
  <2>2. machine.listed \subseteq LegacySet
    BY <1>3 DEF Machine
  <2> QED BY <2>1, <2>2
<1>5. version \in Nat
  BY <1>3, TargetsAssumption
<1>6. kind \in Kinds /\ prior \in Record \cup {None} /\ Canonical \in Service /\ version \in Versions \cup {0}
  <2>1. kind \in {"start", "install", "replace"} /\ prior \in {ReadRecord(machine), PreviousOwner(machine)}
    OBVIOUS
  <2> HIDE DEF kind, prior, version
  <2> QED BY <1>3, <2>1, RecordRead DEF Kinds, Service
<1>7. t.version = version /\ t.before = machine
  BY DEF Begun
<1>8. ASSUME starts
      PROVE  /\ kind = "start"
             /\ ReadRecord(machine).version \in Nat
             /\ \A l \in machine.listed : ~(ReadRecord(machine).version < LegacyVersion[l])
  <2>1. status \in {"newer", "current"}
    BY <1>8
  <2>2. ReadRecord(machine).version \in Nat /\ ReadRecord(machine).version >= version
    <3> HIDE DEF version
    <3> QED BY <1>3, <2>1, FoundNewer
  <2>3. kind = "start"
    BY <1>8
  <2> HIDE DEF version
  <2> QED BY <1>3, <1>4, <1>5, <2>2, <2>3
<1>9. ASSUME ~starts
      PROVE  /\ kind \in {"install", "replace"}
             /\ ReadRecord(machine) # None /\ ReadRecord(machine).state = "installed"
                  => ~(version < ReadRecord(machine).version)
             /\ \A l \in machine.listed : ~(version < LegacyVersion[l])
  <2>1. status \notin {"newer", "newer-incompatible"}
    BY <1>2, <1>9
  <2>2. kind \in {"install", "replace"}
    BY <1>9
  <2>3. ReadRecord(machine) # None /\ ReadRecord(machine).state = "installed"
          => ~(version < ReadRecord(machine).version)
    <3> HIDE DEF version
    <3> QED BY <1>3, <2>1, FoundOlder
  <2> HIDE DEF version
  <2> QED BY <1>3, <1>4, <1>5, <2>2, <2>3
<1> HIDE DEF version, status, starts, kind, prior
<1>10. t \in Transaction /\ t.kind = kind /\ t.prior = prior
  BY <1>3, <1>6, BegunFits
<1> HIDE DEF t
<1>11. /\ machine' = machine /\ script' = Script(t) /\ phase' = "forward"
       /\ tx' = [t EXCEPT !.unsure = tx.unsure]
  BY <1>2 DEF Undertake
<1>12. /\ tx'.kind = kind /\ tx'.prior = t.prior /\ tx'.version = version /\ tx'.before = machine
  BY <1>7, <1>10, <1>11 DEF Transaction
<1>13. /\ kind \in {"install", "replace"} => Committing(script', tx'.prior)
       /\ kind = "start" => script' \in Seq(UnrecordedSteps(tx'.prior))
  BY <1>10, <1>11, <1>12, ScriptSettles
<1>14. CASE starts
  <2>1. NotOlder(ReadRecord(machine).version)'
    BY <1>8, <1>11, <1>12, <1>14 DEF NotOlder
  <2> QED BY <1>8, <1>11, <1>12, <1>13, <1>14, <2>1 DEF NewestInv
<1>15. CASE ~starts
  <2>1. NotOlder(tx.version)'
    BY <1>9, <1>12, <1>15 DEF NotOlder
  <2> QED BY <1>9, <1>11, <1>12, <1>13, <1>15, <2>1 DEF NewestInv, Committing
<1> QED BY <1>14, <1>15

\* What else may be begun.
LEMMA OthersBegin ==
  ASSUME InstallInv, StartOwned \/ Uninstall
  PROVE  \E kind \in {"start-owned", "uninstall"}, target \in Service, version \in Versions \cup {0},
            prior \in Record \cup {None}, restart \in {TRUE} :
           Undertake(Begun(kind, target, version, prior, restart, machine))
<1>1. CASE StartOwned
  <2>1. PICK l \in machine.listed, kind \in {"start-owned"}, prior \in {None}, restart \in {TRUE} :
          Undertake(Begun(kind, l, LegacyVersion[l], prior, restart, machine))
    BY <1>1 DEF StartOwned
  <2>2. l \in LegacySet /\ l \in Service
    BY Bounds DEF Machine, Service
  <2>3. LegacyVersion[l] \in Versions \cup {0}
    BY <2>2, TargetsAssumption
  <2> DEFINE v == LegacyVersion[l]
  <2>4. /\ kind \in {"start-owned", "uninstall"} /\ v \in Versions \cup {0} /\ prior \in Record \cup {None}
        /\ Undertake(Begun(kind, l, v, prior, restart, machine))
    BY <2>1, <2>3
  <2> HIDE DEF v
  <2>5. \E version \in Versions \cup {0} : Undertake(Begun(kind, l, version, prior, restart, machine))
    BY <2>4
  <2> QED BY <2>2, <2>4, <2>5, Zenon
<1>2. CASE Uninstall
  <2>1. PICK s \in Service, prior \in {None, ReadRecord(machine)}, kind \in {"uninstall"},
             version \in {0}, restart \in {TRUE} :
          Undertake(Begun(kind, s, version, prior, restart, machine))
    BY <1>2 DEF Uninstall
  <2>2. prior \in Record \cup {None}
    BY Bounds, RecordRead
  <2> QED BY <2>1, <2>2
<1> QED BY <1>1, <1>2

\* Neither a start of a legacy service nor an uninstallation converges.
LEMMA OthersNewest ==
  ASSUME InstallInv, StartOwned \/ Uninstall
  PROVE  NewestInv'
<1>1. PICK kind \in {"start-owned", "uninstall"}, target \in Service, version \in Versions \cup {0},
           prior \in Record \cup {None}, restart \in {TRUE} :
        Undertake(Begun(kind, target, version, prior, restart, machine))
  BY OthersBegin
<1> DEFINE t == Begun(kind, target, version, prior, restart, machine)
<1>2. t \in Transaction /\ t.kind = kind
  <2>1. kind \in Kinds /\ restart \in BOOLEAN /\ machine \in Machine
    BY Bounds DEF Kinds
  <2>2. t = Begun(kind, target, version, prior, restart, machine)
    OBVIOUS
  <2> HIDE DEF t
  <2>3. \A k \in Kinds, r \in BOOLEAN :
          t = Begun(k, target, version, prior, r, machine) => t \in Transaction /\ t.kind = k
    BY <2>1, BegunFits
  <2> QED BY <2>1, <2>2, <2>3
<1>3. phase' = "forward" /\ tx' = [t EXCEPT !.unsure = tx.unsure]
  BY <1>1 DEF Undertake
<1> HIDE DEF t
<1>4. tx'.kind = kind
  BY <1>2, <1>3 DEF Transaction
<1> QED BY <1>3, <1>4 DEF NewestInv

LEMMA AroundNewest ==
  ASSUME InstallInv, NewestInv, Around
  PROVE  NewestInv'
<1>1. phase = "rest" /\ tx' = tx /\ phase' = phase /\ outcome' = outcome
  BY DEF Around
<1>2. Recorded(machine, machine')
  <2>1. CASE machine' \in Booted(machine)
    <3> DEFINE able == {s \in machine.enabled : machine.defined[s] # 0}
    <3>1. PICK s \in (IF able = {} THEN {None} ELSE able) :
            machine' = [machine EXCEPT !.running = s,
                                       !.loaded = IF machine.platform = "darwin" THEN able ELSE {}]
      BY <2>1 DEF Booted
    <3> HIDE DEF able
    <3> QED BY <3>1, Bounds DEF Machine, Recorded
  <2>2. CASE \E holder \in {None, Other} : machine' = [machine EXCEPT !.running = holder]
    BY <2>2, Bounds DEF Machine, Recorded
  <2> QED BY <2>1, <2>2 DEF Around
<1>3. ReadRecord(machine') = ReadRecord(machine)
  BY <1>2 DEF Recorded, ReadRecord
<1> QED BY <1>1, <1>3 DEF NewestInv, NotOlder

LEMMA NewestNext ==
  ASSUME InstallInv, NewestInv, InstallNext
  PROVE  NewestInv'
<1>1. CASE SkipStep
  BY <1>1, SkipStepNewest
<1>2. CASE Succeed
  BY <1>2, SucceedNewest
<1>3. CASE Fail
  BY <1>3, FailNewest
<1>4. CASE Killed
  BY <1>4, KilledNewest
<1>5. CASE EndPhase
  BY <1>5, EndPhaseNewest
<1>6. CASE Converge
  BY <1>6, ConvergeNewest
<1>7. CASE StartOwned \/ Uninstall
  BY <1>7, OthersNewest
<1>8. CASE Around
  BY <1>8, AroundNewest
<1> QED BY <1>1, <1>2, <1>3, <1>4, <1>5, <1>6, <1>7, <1>8 DEF InstallNext

\* A convergence that succeeds, through whatever commands that failed without
\* stopping it, leaves a canonical service at least as new as the one it found
\* installed and as every legacy service it replaced: it starts what is newer,
\* installs the newest of what it found otherwise, and no command behind the
\* record that it commits removes or replaces that record.
THEOREM NewestKept == InstallSpec => []KeepsTheNewest
<1>1. InstallInit => NewestInv
  BY DEF InstallInit, NewestInv
<1>2. InstallInv /\ NewestInv /\ [InstallNext]_installVars => NewestInv'
  <2> SUFFICES ASSUME InstallInv, NewestInv, [InstallNext]_installVars PROVE NewestInv'
    OBVIOUS
  <2>1. CASE InstallNext
    BY <2>1, NewestNext
  <2>2. CASE UNCHANGED installVars
    BY <2>2 DEF installVars, NewestInv, NotOlder, Installed, Planned
  <2> QED BY <2>1, <2>2
<1>3. NewestInv /\ InstallInv => KeepsTheNewest
  BY DEF NewestInv, NotOlder, KeepsTheNewest, Downgrades
<1> QED BY <1>1, <1>2, <1>3, InstallInvariance, PTL DEF InstallSpec

-----------------------------------------------------------------------------
(* What a convergence that succeeds leaves to start at boot.               *)

\* What removes the definition of l, and what leaves its record.
Undefines(l, prior) ==
  {step \in Plain(prior, Service) :
     step.do = "undefine" /\ step.to = l /\ step.when = "always" /\ step.on = "throw"}
Remembers(l, prior) == {step \in Plain(prior, Service) : ~(step.do = "forget" /\ step.to = l)}

\* What defines the canonical service, and what has it start at boot.
Defines(prior) ==
  {step \in Plain(prior, Service) :
     step.do = "define" /\ step.to = Canonical /\ step.when = "always" /\ step.on = "throw"}
Enables(platform, prior) ==
  {step \in Plain(prior, Service) :
     /\ step.do \in {"enable", "enable-now"} \/ (step.do = "define" /\ platform = "win32")
     /\ step.to = Canonical /\ step.when = "always" /\ step.on = "throw"}

\* What leaves it defined, and what leaves it enabled too.
Defining == {"undefine", "restore-definition"}
Disabling == {"disable", "disable-now", "yield"}
Keeping(dos) == {c \in Verbs \X Service : ~(c[1] \in dos /\ c[2] = Canonical)}
Keeps(dos, prior) == Giving(Keeping(dos), prior)
Upholds(prior) == Keeps(Defining \cup Disabling, prior)

\* What a transaction says of the canonical service once its definition is written.
Renewing(prior) == Giving((Verbs \ (Defining \cup Disabling \cup {"forget"})) \X {Canonical}, prior)

Owned(s, prior, l) == Guarded(s, Remembers(l, prior), Undefines(l, prior))

LEMMA CommandSets ==
  ASSUME NEW prior
  PROVE  /\ Renewing(prior) \subseteq Plain(prior, {Canonical}) /\ Renewing(prior) \subseteq Upholds(prior)
         /\ \A l \in LegacySet : Plain(prior, {Canonical}) \subseteq Remembers(l, prior)
         /\ Upholds(prior) \subseteq Keeps(Defining, prior)
         /\ Upholds(prior) \subseteq Plain(prior, Service)
<1>1. ASSUME NEW step \in Plain(prior, Service)
      PROVE  step.do \in Verbs /\ step.to \in Service /\ step \in Fields(Seq(Taking)) /\ Proper(step, prior, Service)
  BY DEF Plain, Steps, Fields
<1>2. ASSUME NEW step \in Renewing(prior) PROVE step \in Plain(prior, {Canonical}) /\ step \in Upholds(prior)
  <2>1. step \in Plain(prior, Service) /\ step.do \notin Defining \cup Disabling \cup {"forget"}
        /\ step.to = Canonical
    <3> HIDE DEF Verbs, Defining, Disabling
    <3> QED BY DEF Renewing, Giving
  <2>2. step \in Plain(prior, {Canonical})
    BY <2>1 DEF Plain, Steps, Proper, Defining
  <2>3. step \in Upholds(prior)
    <3> HIDE DEF Verbs, Defining, Disabling
    <3> QED BY <1>1, <2>1 DEF Upholds, Keeps, Keeping, Giving
  <2> QED BY <2>2, <2>3
<1>3. ASSUME NEW l \in LegacySet, NEW step \in Plain(prior, {Canonical}) PROVE step \in Remembers(l, prior)
  <2>1. step \in Plain(prior, Service)
    BY StepSets DEF Service
  <2>2. step.do = "forget" => step.to = Canonical
    BY DEF Plain, Steps, Proper
  <2> QED BY <2>1, <2>2, TargetsAssumption DEF Remembers
<1>4. Upholds(prior) \subseteq Keeps(Defining, prior)
  <2> HIDE DEF Verbs, Defining, Disabling
  <2> QED BY DEF Upholds, Keeps, Keeping, Giving
<1>5. Upholds(prior) \subseteq Plain(prior, Service)
  BY DEF Upholds, Keeps, Giving
<1> QED BY <1>2, <1>3, <1>4, <1>5

\* The commands that define and enable.
LEMMA RenewingCommands ==
  ASSUME NEW prior
  PROVE  /\ \A do \in Verbs \ (Defining \cup Disabling \cup {"forget", "backup", "write-prior"}) :
              Command(do, Canonical) \in Renewing(prior) /\ Lenient(do, Canonical) \in Renewing(prior)
         /\ Command("define", Canonical) \in Defines(prior)
         /\ Command("define", Canonical) \in Enables("win32", prior)
         /\ \A platform : /\ Command("enable-now", Canonical) \in Enables(platform, prior)
                          /\ Command("enable", Canonical) \in Enables(platform, prior)
                          /\ \A back \in Seq(Taking) :
                               [Command("enable", Canonical) EXCEPT !.undo = back] \in Enables(platform, prior)
<1>1. Canonical \in Service
  BY DEF Service
<1>2. ASSUME NEW do \in Verbs \ (Defining \cup Disabling \cup {"forget", "backup", "write-prior"})
      PROVE  Command(do, Canonical) \in Renewing(prior) /\ Lenient(do, Canonical) \in Renewing(prior)
  <2> HIDE DEF Verbs, Defining, Disabling
  <2> QED BY <1>1, GivingCommand DEF Renewing
<1>3. ASSUME NEW do \in {"define", "enable", "enable-now"}
      PROVE  /\ Command(do, Canonical) \in Plain(prior, Service)
             /\ Command(do, Canonical).do = do /\ Command(do, Canonical).to = Canonical
             /\ Command(do, Canonical).when = "always" /\ Command(do, Canonical).on = "throw"
  <2>1. do \in Verbs
    BY DEF Verbs
  <2>2. Command(do, Canonical) \in Plain(prior, Service)
    BY <1>1, <2>1, CommandFits
  <2> QED BY <2>2 DEF Command
<1>4. ASSUME NEW back \in Seq(Taking), NEW platform
      PROVE  [Command("enable", Canonical) EXCEPT !.undo = back] \in Enables(platform, prior)
  <2> DEFINE c == Command("enable", Canonical)
             d == [c EXCEPT !.undo = back]
  <2>1. c \in Plain(prior, Service) /\ c \in Fields(Seq(Taking))
    BY <1>3 DEF Plain, Steps
  <2>2. c.do = "enable" /\ c.to = Canonical /\ c.when = "always" /\ c.on = "throw"
    BY <1>3
  <2> HIDE DEF c
  <2>3. d \in Plain(prior, Service)
    BY <2>1, PlainExcept
  <2>4. d.do = "enable" /\ d.to = Canonical /\ d.when = "always" /\ d.on = "throw"
    BY <2>1, <2>2 DEF Fields
  <2> HIDE DEF d
  <2>5. d \in Enables(platform, prior)
    BY <2>3, <2>4 DEF Enables
  <2> QED BY <2>5 DEF c, d
<1>5. Command("define", Canonical) \in Defines(prior) /\ Command("define", Canonical) \in Enables("win32", prior)
  BY <1>3 DEF Defines, Enables
<1>6. \A platform : /\ Command("enable-now", Canonical) \in Enables(platform, prior)
                    /\ Command("enable", Canonical) \in Enables(platform, prior)
  BY <1>3 DEF Enables
<1> QED BY <1>2, <1>4, <1>5, <1>6

\* A block changes neither what a step does nor whether it may fail.
LEMMA InOwned ==
  ASSUME NEW prior, NEW s \in Seq(Plain(prior, Service)), NEW block \in Blocks, NEW l
  PROVE  /\ Owned(s, prior, l) => Owned(In(block, s), prior, l)
         /\ Has(s, Undefines(l, prior)) => Has(In(block, s), Undefines(l, prior))
<1> DEFINE u == In(block, s)
           Marked(p) == [p EXCEPT !.in = block]
<1>1. Len(s) \in Nat /\ DOMAIN s = 1..Len(s) /\ \A i \in 1..Len(s) : s[i] \in Plain(prior, Service)
  BY ElementOfSeq
<1>2. ASSUME NEW p \in Plain(prior, Service)
      PROVE  /\ Marked(p) \in Plain(prior, Service) /\ Marked(p).do = p.do /\ Marked(p).to = p.to
             /\ Marked(p).when = p.when /\ Marked(p).on = p.on
  <2> DEFINE q == [p EXCEPT !.in = block]
  <2>1. q \in Plain(prior, Service)
    BY PlainExcept
  <2>2. q.do = p.do /\ q.to = p.to /\ q.when = p.when /\ q.on = p.on
    BY DEF Plain, Steps, Fields
  <2> QED BY <2>1, <2>2
<1>3. u = [i \in 1..Len(s) |-> u[i]] /\ \A i \in 1..Len(s) : u[i] = Marked(s[i])
  BY <1>1 DEF In
<1> HIDE DEF u, Marked
<1>4. \A i \in 1..Len(s) : u[i] \in Plain(prior, Service)
  BY <1>1, <1>2, <1>3
<1>5. u \in Seq(Plain(prior, Service))
  BY <1>1, <1>3, <1>4, SeqFits
<1>6. Len(u) = Len(s)
  BY <1>1, <1>3, <1>5, LenProperties
<1>7. \A i \in 1..Len(s) :
        /\ s[i] \in Remembers(l, prior) => u[i] \in Remembers(l, prior)
        /\ s[i] \in Undefines(l, prior) => u[i] \in Undefines(l, prior)
  BY <1>1, <1>2, <1>3 DEF Remembers, Undefines
<1>8. ASSUME Owned(s, prior, l) PROVE Owned(u, prior, l)
  <2>1. ASSUME NEW i \in 1..Len(u), u[i] \notin Remembers(l, prior)
        PROVE  \E j \in 1..(i - 1) : u[j] \in Undefines(l, prior)
    <3>1. i \in 1..Len(s) /\ s[i] \notin Remembers(l, prior)
      BY <1>6, <1>7, <2>1
    <3>2. PICK j \in 1..(i - 1) : s[j] \in Undefines(l, prior)
      BY <1>8, <3>1 DEF Owned, Guarded
    <3>3. j \in 1..Len(s)
      BY <1>1, <3>1, <3>2
    <3> QED BY <1>7, <3>2, <3>3
  <2> QED BY <2>1 DEF Owned, Guarded
<1>9. Has(s, Undefines(l, prior)) => Has(u, Undefines(l, prior))
  BY <1>6, <1>7 DEF Has
<1> QED BY <1>8, <1>9 DEF u

\* A command about another service, or another command, remembers l.
LEMMA RemembersCommand ==
  ASSUME NEW prior, NEW l, NEW step \in Plain(prior, Service), step.do # "forget" \/ step.to # l
  PROVE  step \in Remembers(l, prior)
BY DEF Remembers

\* What is removed is then forgotten, and the runtime wiped.
LEMMA RemovalOwned ==
  ASSUME NEW prior, NEW l, NEW s \in Service, NEW x \in Seq(Remembers(l, prior)), NEW u \in Plain(prior, Service),
         u.do = "undefine", u.to = s, u.when = "always", u.on = "throw", NEW y,
         y = x \o <<u, Command("forget", s), Command("wipe", s)>>
  PROVE  /\ y \in Seq(Plain(prior, Service)) /\ Owned(y, prior, l)
         /\ s = l => Has(y, Undefines(l, prior))
<1> DEFINE P == Plain(prior, Service)
           z == <<u, Command("forget", s), Command("wipe", s)>>
<1>1. Command("forget", s) \in P /\ Command("wipe", s) \in P
  BY CommandFits DEF Verbs
<1>2. Command("forget", s).do = "forget" /\ Command("forget", s).to = s /\ Command("wipe", s).do = "wipe"
  BY DEF Command
<1>3. z \in Seq(P) /\ Len(z) = 3 /\ z[1] = u /\ z[2] = Command("forget", s) /\ z[3] = Command("wipe", s)
  BY <1>1
<1>4. x \in Seq(P)
  <2>1. Remembers(l, prior) \subseteq P
    BY DEF Remembers
  <2> QED BY <2>1, SeqMonotonic
<1>5. u \in Remembers(l, prior) /\ Command("wipe", s) \in Remembers(l, prior)
  BY <1>1, <1>2, RemembersCommand
<1>6. CASE s = l
  <2>1. u \in Undefines(l, prior)
    BY <1>6 DEF Undefines
  <2> HIDE DEF z
  <2>2. Has(z, Undefines(l, prior))
    BY <1>3, <2>1 DEF Has
  <2>3. ASSUME NEW i \in 1..Len(z)
        PROVE  z[i] \in Remembers(l, prior) \/ \E j \in 1..(i - 1) : z[j] \in Undefines(l, prior)
    <3>1. i = 1 \/ i = 2 \/ i = 3
      BY <1>3
    <3>2. i # 1 => 1 \in 1..(i - 1)
      BY <3>1
    <3> QED BY <1>3, <1>5, <2>1, <3>1, <3>2
  <2>4. Guarded(z, Remembers(l, prior), Undefines(l, prior))
    BY <2>3 DEF Guarded
  <2>5. Guarded(x, Remembers(l, prior), Undefines(l, prior))
    BY GuardedByNone
  <2> HIDE DEF P
  <2>6. Guarded(x \o z, Remembers(l, prior), Undefines(l, prior)) /\ Has(x \o z, Undefines(l, prior))
    BY <1>3, <1>4, <2>2, <2>4, <2>5, GuardedConcat, HasConcat
  <2>7. x \o z \in Seq(P)
    BY <1>3, <1>4, ConcatFits
  <2> QED BY <2>6, <2>7 DEF Owned, z, P
<1>7. CASE s # l
  <2>1. Command("forget", s) \in Remembers(l, prior)
    BY <1>1, <1>2, <1>7, RemembersCommand
  <2>2. z \in Seq(Remembers(l, prior))
    BY <1>5, <2>1
  <2> HIDE DEF z
  <2>3. x \o z \in Seq(Remembers(l, prior))
    BY <2>2, ConcatFits
  <2>4. Guarded(x \o z, Remembers(l, prior), Undefines(l, prior))
    BY <2>3, GuardedByNone
  <2> HIDE DEF P
  <2>5. x \o z \in Seq(P)
    BY <1>3, <1>4, ConcatFits
  <2> QED BY <1>7, <2>4, <2>5 DEF Owned, z, P
<1> QED BY <1>6, <1>7

LEMMA TwoAndThree ==
  ASSUME NEW a, NEW b, NEW c, NEW d, NEW e
  PROVE  <<a, b>> \o <<c, d, e>> = <<a, b, c, d, e>>
<1> DEFINE S == {a, b, c, d, e}
           p == <<a, b>>
           q == <<c, d, e>>
           r == <<a, b, c, d, e>>
<1>1. /\ p \in Seq(S) /\ Len(p) = 2 /\ p[1] = a /\ p[2] = b
      /\ q \in Seq(S) /\ Len(q) = 3 /\ q[1] = c /\ q[2] = d /\ q[3] = e
      /\ r \in Seq(S) /\ Len(r) = 5 /\ r[1] = a /\ r[2] = b /\ r[3] = c /\ r[4] = d /\ r[5] = e
  OBVIOUS
<1> HIDE DEF S, p, q, r
<1>2. /\ p \o q \in Seq(S) /\ Len(p \o q) = 5
      /\ \A i \in 1..5 : (p \o q)[i] = IF i <= 2 THEN p[i] ELSE q[i - 2]
  <2>1. p \in Seq(S) /\ q \in Seq(S)
    BY <1>1
  <2>2. /\ p \o q \in Seq(S) /\ Len(p \o q) = Len(p) + Len(q)
        /\ \A i \in 1..(Len(p) + Len(q)) : (p \o q)[i] = IF i <= Len(p) THEN p[i] ELSE q[i - Len(p)]
    BY <2>1, ConcatProperties
  <2>3. Len(p) = 2 /\ Len(q) = 3 /\ 2 + 3 = 5
    BY <1>1
  <2> QED BY <2>2, <2>3
<1>3. \A i \in 1..5 : (p \o q)[i] = r[i]
  <2>1. ASSUME NEW i \in 1..5 PROVE (p \o q)[i] = r[i]
    <3>1. i = 1 \/ i = 2 \/ i = 3 \/ i = 4 \/ i = 5
      OBVIOUS
    <3> QED BY <1>1, <1>2, <3>1
  <2> QED BY <2>1
<1>4. p \o q = r
  BY <1>1, <1>2, <1>3, SeqEqual
<1> QED BY <1>4 DEF p, q, r

\* What uninstalls a service forgets it after it removed its definition.
LEMMA UninstallOwned ==
  ASSUME NEW prior, NEW l, NEW s \in Service
  PROVE  /\ Owned(LinuxUninstall(s), prior, l)
         /\ Owned(WindowsUninstall(s), prior, l)
         /\ s = l => Has(WindowsUninstall(s), Undefines(l, prior))
<1> DEFINE x == <<Command("quiesce", s), Command("disable-now", s)>>
           w == <<Command("quiesce", s), Lenient("stop", s)>>
           u == Command("undefine", s)
           z == <<u, Command("forget", s), Command("wipe", s)>>
<1>1. /\ Command("quiesce", s) \in Plain(prior, Service) /\ Command("disable-now", s) \in Plain(prior, Service)
      /\ Lenient("stop", s) \in Plain(prior, Service) /\ u \in Plain(prior, Service)
  BY CommandFits DEF Verbs
<1>2. /\ Command("quiesce", s).do = "quiesce" /\ Command("disable-now", s).do = "disable-now"
      /\ Lenient("stop", s).do = "stop" /\ u.do = "undefine" /\ u.to = s /\ u.when = "always" /\ u.on = "throw"
  BY DEF Command, Lenient
<1>3. /\ Command("quiesce", s) \in Remembers(l, prior) /\ Command("disable-now", s) \in Remembers(l, prior)
      /\ Lenient("stop", s) \in Remembers(l, prior)
  BY <1>1, <1>2, RemembersCommand
<1>4. x \in Seq(Remembers(l, prior)) /\ w \in Seq(Remembers(l, prior))
  BY <1>3
<1>5. /\ LinuxUninstall(s) = In("after", x \o z)
      /\ WindowsUninstall(s) = In("after", w \o z)
  <2>1. \A a, b, c, d, e : <<a, b>> \o <<c, d, e>> = <<a, b, c, d, e>>
    BY TwoAndThree
  <2>2. x \o z = <<x[1], x[2], u, Command("forget", s), Command("wipe", s)>>
    BY <2>1
  <2>3. w \o z = <<w[1], w[2], u, Command("forget", s), Command("wipe", s)>>
    BY <2>1
  <2> QED BY <2>2, <2>3 DEF LinuxUninstall, WindowsUninstall
<1> HIDE DEF x, w, u
<1>6. x \o z \in Seq(Plain(prior, Service)) /\ Owned(x \o z, prior, l)
  BY <1>1, <1>2, <1>4, RemovalOwned
<1>7. /\ w \o z \in Seq(Plain(prior, Service)) /\ Owned(w \o z, prior, l)
      /\ s = l => Has(w \o z, Undefines(l, prior))
  BY <1>1, <1>2, <1>4, RemovalOwned
<1> HIDE DEF z
<1> QED BY <1>5, <1>6, <1>7, InOwned DEF Blocks

Among(l, services) == \E i \in 1..Len(services) : services[i] = l

\* These steps remove the definitions of the services, and then their records.
Removing(s, services, prior) ==
  /\ s \in Seq(Upholds(prior))
  /\ \A l \in LegacySet : Owned(s, prior, l) /\ (Among(l, services) => Has(s, Undefines(l, prior)))

LEMMA LegaciesUphold ==
  /\ (Verbs \X LegacySet) \subseteq Keeping(Defining \cup Disabling)
  /\ Cleaning \X LegacySet \subseteq Keeping(Defining \cup Disabling)
<1>1. \A l \in LegacySet : l # Canonical /\ l \in Service
  BY TargetsAssumption DEF Service
<1>2. Cleaning \subseteq Verbs
  BY DEF Cleaning, Verbs
<1> HIDE DEF Verbs, Cleaning
<1> QED BY <1>1, <1>2 DEF Keeping

LEMMA LinuxRemoves ==
  ASSUME NEW services \in Seq(LegacySet), NEW prior, NEW block \in Blocks
  PROVE  Removing(In(block, All("undefine", services) \o All("forget", services)), services, prior)
<1> DEFINE P == Plain(prior, Service)
           a == All("undefine", services)
           b == All("forget", services)
<1>1. Len(services) \in Nat /\ DOMAIN services = 1..Len(services)
      /\ \A i \in 1..Len(services) : services[i] \in LegacySet /\ services[i] \in Service
  BY LenProperties, ElementOfSeq DEF Service
<1>2. a \in Seq(Upholds(prior)) /\ b \in Seq(Upholds(prior))
  <2>1. \A l \in LegacySet : <<"undefine", l>> \in Keeping(Defining \cup Disabling)
                             /\ <<"forget", l>> \in Keeping(Defining \cup Disabling)
    BY LegaciesUphold DEF Verbs
  <2> QED BY <2>1, GivingAll DEF Upholds, Keeps, Verbs
<1>3. a \in Seq(P) /\ b \in Seq(P)
  BY <1>2, CommandSets, SeqMonotonic
<1>4. a = [i \in 1..Len(services) |-> a[i]] /\ \A i \in 1..Len(services) : a[i] = Command("undefine", services[i])
  BY <1>1 DEF All
<1>5. b = [i \in 1..Len(services) |-> b[i]] /\ \A i \in 1..Len(services) : b[i] = Command("forget", services[i])
  BY <1>1 DEF All
<1>6. Len(a) = Len(services) /\ Len(b) = Len(services)
  BY <1>1, <1>3, <1>4, <1>5, LenProperties
<1>7. \A s \in Service : /\ Command("undefine", s) \in P /\ Command("forget", s) \in P
                         /\ Command("undefine", s).do = "undefine" /\ Command("undefine", s).to = s
                         /\ Command("undefine", s).when = "always" /\ Command("undefine", s).on = "throw"
                         /\ Command("forget", s).do = "forget" /\ Command("forget", s).to = s
  <2>1. \A s \in Service : Command("undefine", s) \in P /\ Command("forget", s) \in P
    BY CommandFits DEF Verbs
  <2> QED BY <2>1 DEF Command
<1> HIDE DEF a, b, P
<1>8. ASSUME NEW l \in LegacySet
      PROVE  Owned(a \o b, prior, l) /\ (Among(l, services) => Has(a \o b, Undefines(l, prior)))
  <2>1. \A i \in 1..Len(services) : a[i] \in Remembers(l, prior)
    BY <1>1, <1>4, <1>7 DEF Remembers, P
  <2>2. Guarded(a, Remembers(l, prior), Undefines(l, prior))
    BY <1>6, <2>1 DEF Guarded
  <2>3. CASE Among(l, services)
    <3>1. PICK i \in 1..Len(services) : services[i] = l
      BY <2>3 DEF Among
    <3>2. a[i] \in Undefines(l, prior)
      BY <1>1, <1>4, <1>7, <3>1 DEF Undefines, P
    <3>3. Has(a, Undefines(l, prior))
      BY <1>6, <3>1, <3>2 DEF Has
    <3> QED BY <1>3, <2>2, <3>3, GuardedConcat, HasConcat DEF Owned
  <2>4. CASE ~Among(l, services)
    <3>1. \A i \in 1..Len(services) : b[i] \in Remembers(l, prior)
      BY <1>1, <1>5, <1>7, <2>4 DEF Remembers, P, Among
    <3>2. Guarded(b, Remembers(l, prior), Undefines(l, prior))
      BY <1>6, <3>1 DEF Guarded
    <3> QED BY <1>3, <2>2, <2>4, <3>2, GuardedConcat DEF Owned
  <2> QED BY <2>3, <2>4
<1>9. a \o b \in Seq(Upholds(prior)) /\ a \o b \in Seq(P)
  BY <1>2, <1>3, ConcatFits
<1>10. In(block, a \o b) \in Seq(Upholds(prior))
  BY <1>9, GivingIn DEF Upholds, Keeps
<1>11. \A l \in LegacySet : /\ Owned(In(block, a \o b), prior, l)
                            /\ Among(l, services) => Has(In(block, a \o b), Undefines(l, prior))
  BY <1>8, <1>9, InOwned DEF P
<1> QED BY <1>10, <1>11 DEF Removing, a, b

\* What is removed service by service.
LEMMA EachRemoves ==
  ASSUME NEW services \in Seq(LegacySet), NEW prior, NEW s, s \in Seq(Upholds(prior)), NEW parts,
         s = FlattenSeq(parts), parts = [i \in 1..Len(services) |-> parts[i]],
         \A i \in 1..Len(services) :
           /\ parts[i] \in Seq(Plain(prior, Service))
           /\ \A l \in LegacySet : /\ Owned(parts[i], prior, l)
                                   /\ services[i] = l => Has(parts[i], Undefines(l, prior))
  PROVE  Removing(s, services, prior)
<1>1. Len(services) \in Nat
  BY LenProperties
<1>2. ASSUME NEW l \in LegacySet
      PROVE  Owned(s, prior, l) /\ (Among(l, services) => Has(s, Undefines(l, prior)))
  <2>1. \A i \in 1..Len(services) :
          parts[i] \in Seq(Plain(prior, Service)) /\ Guarded(parts[i], Remembers(l, prior), Undefines(l, prior))
    BY DEF Owned
  <2>2. /\ Guarded(FlattenSeq(parts), Remembers(l, prior), Undefines(l, prior))
        /\ (\E i \in 1..Len(services) : Has(parts[i], Undefines(l, prior)))
             => Has(FlattenSeq(parts), Undefines(l, prior))
    BY <1>1, <2>1, PartsGuarded
  <2> QED BY <2>2 DEF Owned, Among
<1> QED BY <1>2 DEF Removing

LEMMA MacCleanupOwned ==
  ASSUME NEW prior, NEW l, NEW s \in Service, NEW y,
         y = << [Command("undefine", s) EXCEPT !.clears = TRUE], Command("forget", s), Command("wipe", s) >>
  PROVE  /\ y \in Seq(Plain(prior, Service)) /\ Owned(y, prior, l)
         /\ s = l => Has(y, Undefines(l, prior))
<1> DEFINE c == Command("undefine", s)
           u == [c EXCEPT !.clears = TRUE]
           z == <<u, Command("forget", s), Command("wipe", s)>>
<1>1. c \in Plain(prior, Service) /\ c.do = "undefine" /\ c.to = s /\ c.when = "always" /\ c.on = "throw"
  <2>1. c \in Plain(prior, Service)
    BY CommandFits DEF Verbs
  <2> QED BY <2>1 DEF Command
<1>2. y = z
  OBVIOUS
<1> HIDE DEF c
<1>3. /\ u \in Plain(prior, Service)
      /\ u.do = "undefine" /\ u.to = s /\ u.when = "always" /\ u.on = "throw"
  <2>1. u \in Plain(prior, Service)
    BY <1>1, PlainExcept
  <2>2. c \in Fields(Seq(Taking))
    BY <1>1 DEF Plain, Steps
  <2>3. u.do = "undefine" /\ u.to = s /\ u.when = "always" /\ u.on = "throw"
    BY <1>1, <2>2 DEF Fields
  <2> QED BY <2>1, <2>3
<1> HIDE DEF u
<1>4. z \in Seq(Plain(prior, Service))
  <2>1. Command("forget", s) \in Plain(prior, Service) /\ Command("wipe", s) \in Plain(prior, Service)
    BY CommandFits DEF Verbs
  <2> QED BY <1>3, <2>1
<1>5. <<>> \o z = z /\ <<>> \in Seq(Remembers(l, prior))
  BY <1>4, ConcatEmptySeq, NothingFits
<1> HIDE DEF z
<1>6. z = <<>> \o <<u, Command("forget", s), Command("wipe", s)>>
  BY <1>5 DEF z
<1> QED BY <1>2, <1>3, <1>5, <1>6, RemovalOwned

LEMMA CleanupsRemove ==
  ASSUME NEW services \in Seq(LegacySet), NEW prior
  PROVE  /\ Removing(MacCleanup(services), services, prior)
         /\ Removing(Each(WindowsUninstall, services), services, prior)
<1>1. Len(services) \in Nat /\ DOMAIN services = 1..Len(services)
      /\ \A i \in 1..Len(services) : services[i] \in LegacySet /\ services[i] \in Service
  BY LenProperties, ElementOfSeq DEF Service
<1>2. MacCleanup(services) \in Seq(Upholds(prior)) /\ Each(WindowsUninstall, services) \in Seq(Upholds(prior))
  BY LegaciesUphold, GivingCleanups DEF Upholds, Keeps
<1> DEFINE Part(s) == << [Command("undefine", s) EXCEPT !.clears = TRUE], Command("forget", s), Command("wipe", s) >>
           parts == [i \in 1..Len(services) |-> Part(services[i])]
           others == [i \in 1..Len(services) |-> WindowsUninstall(services[i])]
<1>3. MacCleanup(services) = FlattenSeq(parts) /\ Each(WindowsUninstall, services) = FlattenSeq(others)
  BY <1>1 DEF MacCleanup, Each
<1>4. ASSUME NEW s \in Service
      PROVE  /\ Part(s) \in Seq(Plain(prior, Service)) /\ WindowsUninstall(s) \in Seq(Plain(prior, Service))
             /\ \A l \in LegacySet : /\ Owned(Part(s), prior, l) /\ Owned(WindowsUninstall(s), prior, l)
                                     /\ s = l => Has(Part(s), Undefines(l, prior))
                                     /\ s = l => Has(WindowsUninstall(s), Undefines(l, prior))
  <2>1. \A l \in LegacySet : /\ Part(s) \in Seq(Plain(prior, Service)) /\ Owned(Part(s), prior, l)
                             /\ s = l => Has(Part(s), Undefines(l, prior))
    BY MacCleanupOwned
  <2>2. \A l \in LegacySet : /\ Owned(WindowsUninstall(s), prior, l)
                             /\ s = l => Has(WindowsUninstall(s), Undefines(l, prior))
    BY UninstallOwned
  <2>3. WindowsUninstall(s) \in Seq(Plain(prior, Service))
    BY UninstallFits
  <2>4. Part(s) \in Seq(Plain(prior, Service))
    BY MacCleanupOwned
  <2> HIDE DEF Part
  <2> QED BY <2>1, <2>2, <2>3, <2>4
<1> HIDE DEF Part
<1>5. parts = [i \in 1..Len(services) |-> parts[i]] /\ others = [i \in 1..Len(services) |-> others[i]]
  OBVIOUS
<1>6. \A i \in 1..Len(services) : parts[i] = Part(services[i]) /\ others[i] = WindowsUninstall(services[i])
  OBVIOUS
<1> HIDE DEF parts, others
<1>7. Removing(MacCleanup(services), services, prior)
  BY <1>1, <1>2, <1>3, <1>4, <1>5, <1>6, EachRemoves
<1>8. Removing(Each(WindowsUninstall, services), services, prior)
  BY <1>1, <1>2, <1>3, <1>4, <1>5, <1>6, EachRemoves
<1> QED BY <1>7, <1>8

\* A script that removes what it leads up to, and then leaves it.
LEMMA ComposedOwns ==
  ASSUME NEW prior, NEW u \in Seq(Renewing(prior)), NEW r \in Seq(Upholds(prior)), NEW s, Composed(s, prior, u, r)
  PROVE  /\ s \in Seq(Plain(prior, Service))
         /\ \A l \in LegacySet : /\ Owned(r, prior, l) => Owned(s, prior, l)
                                 /\ Has(r, Undefines(l, prior)) => Has(s, Undefines(l, prior))
         /\ \A Q, G : Upholds(prior) \subseteq Q /\ Has(u, G) => Settled(s, Q, G) /\ Has(s, G)
<1> DEFINE P == Plain(prior, Service)
<1>1. PICK a \in Seq(Plain(prior, {Canonical})) : s = a \o u \o r
  BY DEF Composed
<1>2. u \in Seq(Plain(prior, {Canonical})) /\ u \in Seq(Upholds(prior))
  BY CommandSets, SeqMonotonic
<1>3. Plain(prior, {Canonical}) \subseteq P
  BY StepSets DEF Service
<1>4. a \in Seq(P) /\ u \in Seq(P) /\ r \in Seq(P)
  BY <1>2, <1>3, CommandSets, SeqMonotonic
<1> DEFINE v == a \o u
<1>5. v \in Seq(Plain(prior, {Canonical})) /\ v \in Seq(P)
  BY <1>2, <1>4, ConcatFits
<1>6. s = v \o r /\ s \in Seq(P)
  BY <1>1, <1>4, <1>5, ConcatFits
<1>7. s = a \o (u \o r) /\ u \o r \in Seq(Upholds(prior))
  <2>1. s = a \o (u \o r)
    <3> HIDE DEF P, v
    <3>1. (a \o u) \o r = a \o (u \o r)
      BY <1>4, ConcatAssociative
    <3> QED BY <1>1, <3>1
  <2>2. u \o r \in Seq(Upholds(prior))
    BY <1>2, ConcatFits
  <2> QED BY <2>1, <2>2
<1> HIDE DEF v
<1>8. ASSUME NEW l \in LegacySet
      PROVE  /\ Owned(r, prior, l) => Owned(s, prior, l)
             /\ Has(r, Undefines(l, prior)) => Has(s, Undefines(l, prior))
  <2>1. v \in Seq(Remembers(l, prior))
    BY <1>5, CommandSets, SeqMonotonic
  <2>2. Guarded(v, Remembers(l, prior), Undefines(l, prior))
    BY <2>1, GuardedByNone
  <2> HIDE DEF P
  <2>3. Owned(r, prior, l) => Owned(v \o r, prior, l)
    BY <1>4, <1>5, <2>2, GuardedConcat DEF Owned
  <2>4. Has(r, Undefines(l, prior)) => Has(v \o r, Undefines(l, prior))
    BY <1>4, <1>5, HasConcat
  <2> QED BY <1>6, <2>3, <2>4
<1>9. ASSUME NEW Q, NEW G, Upholds(prior) \subseteq Q, Has(u, G) PROVE Settled(s, Q, G) /\ Has(s, G)
  <2> DEFINE w == u \o r
  <2>1. w \in Seq(Q)
    BY <1>7, <1>9, SeqMonotonic
  <2>2. Has(w, G)
    <3> HIDE DEF P
    <3> QED BY <1>4, <1>9, HasConcat
  <2> HIDE DEF w, P
  <2>3. Settled(a \o w, Q, G) /\ Has(a \o w, G)
    BY <1>4, <2>1, <2>2, SettledBy
  <2> QED BY <1>7, <2>3 DEF w
<1> QED BY <1>6, <1>8, <1>9

LEMMA FinishRenews ==
  ASSUME NEW prior
  PROVE  Finish \in Seq(Renewing(prior)) /\ Finish \in Seq(Upholds(prior))
         /\ \A l \in LegacySet : Owned(Finish, prior, l)
<1>1. /\ Lenient("unstage", Canonical) \in Renewing(prior) /\ Command("commit", Canonical) \in Renewing(prior)
      /\ Command("drop-one", Canonical) \in Renewing(prior)
      /\ Command("drop-previous", Canonical) \in Renewing(prior)
  BY RenewingCommands DEF Verbs, Defining, Disabling
<1>2. <<Lenient("unstage", Canonical), Command("commit", Canonical),
        Command("drop-one", Canonical), Command("drop-previous", Canonical)>> \in Seq(Renewing(prior))
  BY <1>1
<1>3. Finish \in Seq(Renewing(prior))
  BY <1>2, GivingIn DEF Finish, Renewing, Blocks
<1>4. Finish \in Seq(Upholds(prior))
  BY <1>3, CommandSets, SeqMonotonic
<1>5. ASSUME NEW l \in LegacySet PROVE Owned(Finish, prior, l)
  <2>1. Renewing(prior) \subseteq Remembers(l, prior)
    BY CommandSets
  <2>2. Finish \in Seq(Remembers(l, prior))
    BY <1>3, <2>1, SeqMonotonic
  <2> QED BY <2>2, GuardedByNone DEF Owned
<1> QED BY <1>3, <1>4, <1>5

\* What removes services may finish an installation too.
LEMMA RemovingAnd ==
  ASSUME NEW prior, NEW services, NEW r, Removing(r, services, prior)
  PROVE  Removing(r \o Finish, services, prior) /\ Removing(Finish \o r, services, prior)
<1> DEFINE P == Plain(prior, Service)
<1>1. r \in Seq(Upholds(prior)) /\ Finish \in Seq(Upholds(prior))
  BY FinishRenews DEF Removing
<1>2. r \in Seq(P) /\ Finish \in Seq(P)
  BY <1>1, CommandSets, SeqMonotonic
<1>3. r \o Finish \in Seq(Upholds(prior)) /\ Finish \o r \in Seq(Upholds(prior))
  BY <1>1, ConcatFits
<1>4. ASSUME NEW l \in LegacySet
      PROVE  /\ Owned(r \o Finish, prior, l) /\ Owned(Finish \o r, prior, l)
             /\ Has(r, Undefines(l, prior)) =>
                  Has(r \o Finish, Undefines(l, prior)) /\ Has(Finish \o r, Undefines(l, prior))
  <2>1. Owned(r, prior, l) /\ Owned(Finish, prior, l)
    BY FinishRenews DEF Removing
  <2> HIDE DEF P
  <2>2. Owned(r \o Finish, prior, l) /\ Owned(Finish \o r, prior, l)
    BY <1>2, <2>1, GuardedConcat DEF Owned
  <2>3. Has(r, Undefines(l, prior)) => Has(r \o Finish, Undefines(l, prior)) /\ Has(Finish \o r, Undefines(l, prior))
    BY <1>2, HasConcat
  <2> QED BY <2>2, <2>3
<1> QED BY <1>3, <1>4 DEF Removing

\* What defines the new service, and what runs it again.
LEMMA NewRenews ==
  ASSUME NEW prior
  PROVE  /\ {LinuxNew, WindowsNew, MacNew(prior)} \subseteq Seq(Renewing(prior))
         /\ \A u \in {LinuxNew, WindowsNew, MacNew(prior)} : Has(u, Defines(prior))
         /\ \A platform : Has(LinuxNew, Enables(platform, prior)) /\ Has(MacNew(prior), Enables(platform, prior))
         /\ Has(WindowsNew, Enables("win32", prior))
<1>0. PICK R : R = Renewing(prior)
  OBVIOUS
<1> DEFINE c(do) == Command(do, Canonical)
<1>1. /\ c("runtime") \in R /\ c("define") \in R /\ c("enable-now") \in R /\ c("ready") \in R /\ c("commit") \in R
      /\ c("start") \in R /\ c("bootout") \in R /\ c("enable") \in R /\ c("bootstrap") \in R
      /\ c("kickstart") \in R
  BY <1>0, RenewingCommands DEF Verbs, Defining, Disabling
<1>2. /\ c("define") \in Defines(prior) /\ c("define") \in Enables("win32", prior)
      /\ \A platform : c("enable-now") \in Enables(platform, prior) /\ c("enable") \in Enables(platform, prior)
  BY RenewingCommands
<1> DEFINE remove == <<c("bootout"), c("undefine"), c("wipe")>>
           back == IF prior = None THEN remove ELSE <<>>
           bootstrap == [c("bootstrap") EXCEPT !.undo = back]
           ready == [c("ready") EXCEPT !.clears = TRUE]
<1>3. back \in Seq(Taking)
  <2>1. c("bootout") \in Taking /\ c("undefine") \in Taking /\ c("wipe") \in Taking
    BY TakingFits DEF Verbs, Service
  <2> HIDE DEF c
  <2>2. remove \in Seq(Taking) /\ <<>> \in Seq(Taking)
    BY <2>1
  <2> QED BY <2>2
<1>4. bootstrap \in R /\ ready \in R
  <2> HIDE DEF c, back
  <2> QED BY <1>0, <1>1, <1>3, GivingExcept DEF Renewing
<1>5. MacNew(prior) = <<c("runtime"), c("define"), c("bootout"), c("enable"), bootstrap, c("kickstart"), ready,
                        c("commit")>>
  BY DEF MacNew
<1>6. /\ LinuxNew = <<c("runtime"), c("define"), c("enable-now"), c("ready"), c("commit")>>
      /\ WindowsNew = <<c("runtime"), c("define"), c("start"), c("ready")>>
  BY DEF LinuxNew, WindowsNew
<1> HIDE DEF c, bootstrap, ready
<1>7. /\ LinuxNew \in Seq(R) /\ Len(LinuxNew) = 5 /\ LinuxNew[2] = c("define") /\ LinuxNew[3] = c("enable-now")
      /\ WindowsNew \in Seq(R) /\ Len(WindowsNew) = 4 /\ WindowsNew[2] = c("define")
  BY <1>1, <1>6
<1>8. MacNew(prior) \in Seq(R) /\ Len(MacNew(prior)) = 8 /\ MacNew(prior)[2] = c("define")
      /\ MacNew(prior)[4] = c("enable")
  BY <1>1, <1>4, <1>5
<1>9. /\ Has(LinuxNew, Defines(prior)) /\ Has(WindowsNew, Defines(prior)) /\ Has(MacNew(prior), Defines(prior))
      /\ Has(WindowsNew, Enables("win32", prior))
  BY <1>2, <1>7, <1>8 DEF Has
<1>10. ASSUME NEW platform
       PROVE  Has(LinuxNew, Enables(platform, prior)) /\ Has(MacNew(prior), Enables(platform, prior))
  BY <1>2, <1>7, <1>8 DEF Has
<1> QED BY <1>0, <1>7, <1>8, <1>9, <1>10

LEMMA AgainRenews ==
  ASSUME NEW prior, NEW restart \in BOOLEAN
  PROVE  /\ \A u \in {LinuxAgain, WindowsAgain, MacAgain} : Only(restart, u) \in Seq(Renewing(prior))
         /\ restart => \A platform : /\ Has(Only(restart, WindowsAgain), Enables(platform, prior))
                                     /\ Has(Only(restart, MacAgain), Enables(platform, prior))
<1>0. PICK R : R = Renewing(prior)
  OBVIOUS
<1> DEFINE c(do) == Command(do, Canonical)
           back == <<c("disable"), c("bootout")>>
           enable == [c("enable") EXCEPT !.undo = back]
           ready == [c("ready") EXCEPT !.clears = TRUE]
<1>1. c("ready") \in R /\ c("start") \in R /\ c("enable") \in R /\ c("kickstart") \in R
  BY <1>0, RenewingCommands DEF Verbs, Defining, Disabling
<1>2. back \in Seq(Taking)
  <2>1. c("bootout") \in Taking /\ c("disable") \in Taking
    BY TakingFits DEF Verbs, Service
  <2> HIDE DEF c
  <2> QED BY <2>1
<1>3. \A platform : c("enable") \in Enables(platform, prior) /\ enable \in Enables(platform, prior)
  <2> HIDE DEF back
  <2> QED BY <1>2, RenewingCommands
<1>4. enable \in R /\ ready \in R
  <2> HIDE DEF c, back
  <2> QED BY <1>0, <1>1, <1>2, GivingExcept DEF Renewing
<1>5. /\ MacAgain = <<enable, c("kickstart"), ready>>
      /\ LinuxAgain = <<c("start"), c("ready")>>
      /\ WindowsAgain = <<c("enable"), c("start"), c("ready")>>
  BY DEF MacAgain, LinuxAgain, WindowsAgain
<1> HIDE DEF c, enable, ready
<1>6. /\ MacAgain \in Seq(R) /\ Len(MacAgain) = 3 /\ MacAgain[1] = enable
      /\ LinuxAgain \in Seq(R)
      /\ WindowsAgain \in Seq(R) /\ Len(WindowsAgain) = 3 /\ WindowsAgain[1] = c("enable")
  BY <1>1, <1>4, <1>5
<1>7. \A u \in {LinuxAgain, WindowsAgain, MacAgain} : Only(restart, u) \in Seq(R)
  BY <1>6, OnlyFits
<1>8. ASSUME NEW platform PROVE Has(WindowsAgain, Enables(platform, prior)) /\ Has(MacAgain, Enables(platform, prior))
  BY <1>3, <1>6 DEF Has
<1>9. restart => Only(restart, WindowsAgain) = WindowsAgain /\ Only(restart, MacAgain) = MacAgain
  BY DEF Only
<1> QED BY <1>0, <1>7, <1>8, <1>9

LEMMA MacUninstallOwned ==
  ASSUME NEW t, NEW s \in Service, NEW prior, NEW l \in LegacySet
  PROVE  Owned(MacUninstall(t, s), prior, l)
<1> DEFINE P == Plain(prior, Service)
           R == Remembers(l, prior)
           G == Undefines(l, prior)
           a == MacQuiesce(t, s, TRUE)
           b == <<Command("bootout", s)>>
           c == MacCleanup(<<s>>)
           Part(x) == << [Command("undefine", x) EXCEPT !.clears = TRUE], Command("forget", x), Command("wipe", x) >>
           parts == [i \in 1..1 |-> Part(s)]
<1>1. a \in Seq(R) /\ R \subseteq P
  <2>1. a \in Seq(Plain(prior, {Canonical}))
    BY MacQuiesceFits
  <2>2. Plain(prior, {Canonical}) \subseteq R
    BY CommandSets
  <2>3. R \subseteq P
    BY DEF Remembers
  <2> HIDE DEF a
  <2> QED BY <2>1, <2>2, <2>3, SeqMonotonic
<1>2. b \in Seq(R)
  <2>1. Command("bootout", s) \in P /\ Command("bootout", s).do = "bootout"
    <3>1. Command("bootout", s) \in P
      BY CommandFits DEF Verbs
    <3> QED BY <3>1 DEF Command
  <2>2. Command("bootout", s) \in R
    BY <2>1, RemembersCommand
  <2> QED BY <2>2
<1>3. c = FlattenSeq(parts)
  <2>1. DOMAIN <<s>> = 1..1 /\ \A i \in 1..1 : <<s>>[i] = s
    OBVIOUS
  <2> QED BY <2>1 DEF MacCleanup, Each
<1>4. Part(s) \in Seq(P) /\ Owned(Part(s), prior, l)
  BY MacCleanupOwned
<1> HIDE DEF Part, b, a
<1>5. parts = [i \in 1..1 |-> parts[i]] /\ \A i \in 1..1 : parts[i] = Part(s)
  OBVIOUS
<1> HIDE DEF parts
<1>6. c \in Seq(P)
  <2>1. <<s>> \in Seq(Service)
    OBVIOUS
  <2> QED BY <2>1, MacCleanupFits
<1> HIDE DEF c
<1>7. Guarded(c, R, G)
  <2>1. 1 \in Nat /\ \A i \in 1..1 : parts[i] \in Seq(P) /\ Guarded(parts[i], R, G)
    BY <1>4, <1>5 DEF Owned
  <2> HIDE DEF P, R, G
  <2>2. Guarded(FlattenSeq(parts), R, G)
    BY <1>5, <2>1, PartsGuarded
  <2> QED BY <1>3, <2>2
<1> HIDE DEF P, R, G
<1>8. a \o b \in Seq(R)
  BY <1>1, <1>2, ConcatFits
<1>9. a \o b \in Seq(P)
  BY <1>1, <1>8, SeqMonotonic
<1>10. Guarded(a \o b, R, G)
  BY <1>8, GuardedByNone
<1>11. Guarded(a \o b \o c, R, G)
  BY <1>6, <1>7, <1>9, <1>10, GuardedConcat
<1> QED BY <1>11 DEF Owned, MacUninstall, a, b, c, R, G

\* A script that settles the canonical service, and removes the others.
Owning(s, prior, services) ==
  \A l \in LegacySet : Owned(s, prior, l) /\ (Among(l, services) => Has(s, Undefines(l, prior)))
Defined(s, prior) == Settled(s, Keeps(Defining, prior), Defines(prior)) /\ Has(s, Defines(prior))
EnabledAtBoot(s, platform, prior) ==
  Settled(s, Upholds(prior), Enables(platform, prior)) /\ Has(s, Enables(platform, prior))

LEMMA ComposedWith ==
  ASSUME NEW prior, NEW u \in Seq(Renewing(prior)), NEW services, NEW r, Removing(r, services, prior), NEW s,
         Composed(s, prior, u, r)
  PROVE  /\ Owning(s, prior, services)
         /\ Has(u, Defines(prior)) => Defined(s, prior)
         /\ \A platform : Has(u, Enables(platform, prior)) => EnabledAtBoot(s, platform, prior)
<1>1. r \in Seq(Upholds(prior))
  BY DEF Removing
<1>2. /\ \A l \in LegacySet : /\ Owned(r, prior, l) => Owned(s, prior, l)
                              /\ Has(r, Undefines(l, prior)) => Has(s, Undefines(l, prior))
      /\ \A Q, G : Upholds(prior) \subseteq Q /\ Has(u, G) => Settled(s, Q, G) /\ Has(s, G)
  BY <1>1, ComposedOwns
<1>3. Owning(s, prior, services)
  BY <1>2 DEF Owning, Removing
<1>4. Upholds(prior) \subseteq Keeps(Defining, prior)
  BY CommandSets
<1>5. Has(u, Defines(prior)) => Defined(s, prior)
  BY <1>2, <1>4 DEF Defined
<1>6. ASSUME NEW platform, Has(u, Enables(platform, prior)) PROVE EnabledAtBoot(s, platform, prior)
  BY <1>2, <1>6 DEF EnabledAtBoot
<1> QED BY <1>3, <1>5, <1>6

LEMMA InstallsOwn ==
  ASSUME NEW t, t.legacy \in Seq(LegacySet), NEW prior, prior = t.prior
  PROVE  /\ Owning(LinuxInstall(t), prior, t.legacy) /\ Defined(LinuxInstall(t), prior)
         /\ EnabledAtBoot(LinuxInstall(t), "linux", prior)
         /\ Owning(MacInstall(t), prior, t.legacy) /\ Defined(MacInstall(t), prior)
         /\ EnabledAtBoot(MacInstall(t), "darwin", prior)
         /\ t.kind = "replace" => Owning(WindowsInstall(t), prior, t.legacy)
         /\ t.kind # "replace" => Owning(WindowsInstall(t), prior, <<>>)
         /\ Defined(WindowsInstall(t), prior) /\ EnabledAtBoot(WindowsInstall(t), "win32", prior)
<1> DEFINE linux == In("committed", LinuxRemoval(t.legacy)) \o Finish
           mac == MacCleanup(t.legacy) \o Finish
           removal == Only(t.kind = "replace", Each(WindowsUninstall, t.legacy))
           windows == Finish \o removal
           services == IF t.kind = "replace" THEN t.legacy ELSE <<>>
<1>1. Removing(linux, t.legacy, prior)
  <2>1. Removing(In("committed", LinuxRemoval(t.legacy)), t.legacy, prior)
    BY LinuxRemoves DEF Blocks, LinuxRemoval
  <2> QED BY <2>1, RemovingAnd
<1>2. Removing(mac, t.legacy, prior)
  BY CleanupsRemove, RemovingAnd
<1>3. Removing(windows, services, prior)
  <2>1. CASE t.kind = "replace"
    <3>1. removal = Each(WindowsUninstall, t.legacy) /\ services = t.legacy
      BY <2>1 DEF Only
    <3>2. Removing(Each(WindowsUninstall, t.legacy), t.legacy, prior)
      BY CleanupsRemove
    <3>3. Removing(removal, services, prior)
      BY <3>1, <3>2
    <3> HIDE DEF removal, services
    <3> QED BY <3>3, RemovingAnd
  <2>2. CASE t.kind # "replace"
    <3>1. removal = <<>> /\ services = <<>>
      BY <2>2 DEF Only
    <3>2. windows = Finish
      <4>1. Finish \in Seq(Upholds(prior))
        BY FinishRenews
      <4> HIDE DEF removal
      <4> QED BY <3>1, <4>1, ConcatEmptySeq
    <3>3. ASSUME NEW l \in LegacySet PROVE ~Among(l, services)
      <4> HIDE DEF services
      <4>1. Len(services) = 0
        BY <3>1
      <4> QED BY <4>1 DEF Among
    <3> HIDE DEF windows, services
    <3> QED BY <3>2, <3>3, FinishRenews DEF Removing
  <2> QED BY <2>1, <2>2
<1>4. /\ Composed(LinuxInstall(t), prior, LinuxNew, linux)
      /\ Composed(WindowsInstall(t), prior, WindowsNew, windows)
      /\ Composed(MacInstall(t), prior, MacNew(prior), mac)
  BY LinuxInstallFits, WindowsInstallFits, MacInstallFits
<1>5. /\ LinuxNew \in Seq(Renewing(prior)) /\ WindowsNew \in Seq(Renewing(prior))
      /\ MacNew(prior) \in Seq(Renewing(prior))
      /\ Has(LinuxNew, Defines(prior)) /\ Has(WindowsNew, Defines(prior)) /\ Has(MacNew(prior), Defines(prior))
      /\ Has(LinuxNew, Enables("linux", prior)) /\ Has(MacNew(prior), Enables("darwin", prior))
      /\ Has(WindowsNew, Enables("win32", prior))
  BY NewRenews
<1> HIDE DEF linux, mac, windows
<1>6. /\ Owning(LinuxInstall(t), prior, t.legacy) /\ Defined(LinuxInstall(t), prior)
      /\ EnabledAtBoot(LinuxInstall(t), "linux", prior)
  BY <1>1, <1>4, <1>5, ComposedWith
<1>7. /\ Owning(MacInstall(t), prior, t.legacy) /\ Defined(MacInstall(t), prior)
      /\ EnabledAtBoot(MacInstall(t), "darwin", prior)
  BY <1>2, <1>4, <1>5, ComposedWith
<1>8. /\ Owning(WindowsInstall(t), prior, services) /\ Defined(WindowsInstall(t), prior)
      /\ EnabledAtBoot(WindowsInstall(t), "win32", prior)
  <2> HIDE DEF services
  <2> QED BY <1>3, <1>4, <1>5, ComposedWith
<1> QED BY <1>6, <1>7, <1>8

LEMMA StartsOwn ==
  ASSUME NEW t, t.legacy \in Seq(LegacySet), t.restart \in BOOLEAN, NEW prior, prior = t.prior
  PROVE  /\ Owning(LinuxStart(t), prior, t.legacy) /\ Owning(WindowsStart(t), prior, t.legacy)
         /\ Owning(MacStart(t), prior, t.legacy)
         /\ t.restart => EnabledAtBoot(WindowsStart(t), "win32", prior) /\ EnabledAtBoot(MacStart(t), "darwin", prior)
         /\ {LinuxStart(t), WindowsStart(t), MacStart(t)} \subseteq Seq(Keeps(Defining, prior))
<1> DEFINE linux == In("after", LinuxRemoval(t.legacy))
           windows == Each(WindowsUninstall, t.legacy)
           mac == MacCleanup(t.legacy)
<1>1. Removing(linux, t.legacy, prior) /\ Removing(windows, t.legacy, prior) /\ Removing(mac, t.legacy, prior)
  BY LinuxRemoves, CleanupsRemove DEF Blocks, LinuxRemoval
<1>2. /\ Composed(LinuxStart(t), prior, Only(t.restart, LinuxAgain), linux)
      /\ Composed(WindowsStart(t), prior, Only(t.restart, WindowsAgain), windows)
      /\ Composed(MacStart(t), prior, Only(t.restart, MacAgain), mac)
  BY LinuxStartFits, WindowsStartFits, MacStartFits
<1>3. /\ \A u \in {LinuxAgain, WindowsAgain, MacAgain} : Only(t.restart, u) \in Seq(Renewing(prior))
      /\ t.restart => \A platform : /\ Has(Only(t.restart, WindowsAgain), Enables(platform, prior))
                                    /\ Has(Only(t.restart, MacAgain), Enables(platform, prior))
  BY AgainRenews
<1> HIDE DEF linux, windows, mac
<1>4. Owning(LinuxStart(t), prior, t.legacy)
  BY <1>1, <1>2, <1>3, ComposedWith
<1>5. Owning(WindowsStart(t), prior, t.legacy) /\ (t.restart => EnabledAtBoot(WindowsStart(t), "win32", prior))
  BY <1>1, <1>2, <1>3, ComposedWith
<1>6. Owning(MacStart(t), prior, t.legacy) /\ (t.restart => EnabledAtBoot(MacStart(t), "darwin", prior))
  BY <1>1, <1>2, <1>3, ComposedWith
<1>7. Starting \subseteq Keeping(Defining)
  <2>1. ASSUME NEW do \in {"quiesce", "start", "ready", "enable", "disable", "kickstart"}
        PROVE  <<do, Canonical>> \in Keeping(Defining)
    BY DEF Keeping, Defining, Verbs, Service
  <2>2. \A do \in {"quiesce", "disable", "disable-now", "bootout", "stop", "undefine", "forget", "wipe"} : do \in Verbs
    BY DEF Verbs
  <2>3. \A l \in LegacySet : l # Canonical /\ l \in Service
    BY TargetsAssumption DEF Service
  <2>4. ASSUME NEW do \in {"quiesce", "disable", "disable-now", "bootout", "stop", "undefine", "forget", "wipe"},
               NEW l \in LegacySet
        PROVE  <<do, l>> \in Keeping(Defining)
    <3> HIDE DEF Verbs, Defining
    <3> QED BY <2>2, <2>3 DEF Keeping
  <2> HIDE DEF Keeping
  <2>5. PICK A : A = {"quiesce", "start", "ready", "enable", "disable", "kickstart"}
    OBVIOUS
  <2>6. PICK B : B = {"quiesce", "disable", "disable-now", "bootout", "stop", "undefine", "forget", "wipe"}
    OBVIOUS
  <2>7. /\ \A do \in A : <<do, Canonical>> \in Keeping(Defining)
        /\ \A do \in B, l \in LegacySet : <<do, l>> \in Keeping(Defining)
    BY <2>1, <2>4, <2>5, <2>6
  <2>8. Starting = (A \X {Canonical}) \cup (B \X LegacySet)
    BY <2>5, <2>6 DEF Starting
  <2>9. PICK K : K = Keeping(Defining)
    OBVIOUS
  <2>10. ASSUME NEW c \in Starting PROVE c \in K
    <3>1. CASE c \in A \X {Canonical}
      <4>1. PICK do \in A : c = <<do, Canonical>>
        BY <3>1
      <4> QED BY <2>7, <2>9, <4>1
    <3>2. CASE c \in B \X LegacySet
      <4>1. PICK do \in B, l \in LegacySet : c = <<do, l>>
        BY <3>2
      <4> QED BY <2>7, <2>9, <4>1
    <3> QED BY <2>8, <3>1, <3>2
  <2> QED BY <2>9, <2>10
<1>8. {LinuxStart(t), WindowsStart(t), MacStart(t)} \subseteq Seq(Keeps(Defining, prior))
  BY <1>7, GivingStarts DEF Keeps
<1> QED BY <1>4, <1>5, <1>6, <1>8

\* Whatever is begun forgets a service only after it removed its definition; a
\* convergence removes those that it found, defines the canonical service, or
\* leaves its definition, and has it start at boot where it runs it.
LEMMA ScriptOwns ==
  ASSUME NEW t \in Transaction
  PROVE  /\ \A l \in LegacySet : Owned(Script(t), t.prior, l)
         /\ t.kind \in {"replace", "start"} =>
              \A l \in LegacySet : Among(l, t.legacy) => Has(Script(t), Undefines(l, t.prior))
         /\ t.kind \in {"install", "replace"} =>
              Defined(Script(t), t.prior) /\ EnabledAtBoot(Script(t), t.before.platform, t.prior)
         /\ t.kind = "start" =>
              /\ Script(t) \in Seq(Keeps(Defining, t.prior))
              /\ t.restart /\ t.before.platform # "linux" =>
                   EnabledAtBoot(Script(t), t.before.platform, t.prior)
<1> DEFINE p == t.before.platform
<1>1. /\ t.legacy \in Seq(LegacySet) /\ t.restart \in BOOLEAN /\ t.target \in Service /\ t.kind \in Kinds
      /\ p \in Platform
  BY DEF Transaction, Machine
<1>2. PICK s : s = Script(t)
  OBVIOUS
<1>3. PICK prior : prior = t.prior
  OBVIOUS
<1>4. CASE t.kind \in {"install", "replace"}
  <2>1. \/ p = "linux" /\ s = LinuxInstall(t)
        \/ p = "win32" /\ s = WindowsInstall(t)
        \/ p = "darwin" /\ s = MacInstall(t)
    BY <1>1, <1>2, <1>4 DEF Script, Platform
  <2>2. /\ Owning(LinuxInstall(t), prior, t.legacy) /\ Defined(LinuxInstall(t), prior)
        /\ EnabledAtBoot(LinuxInstall(t), "linux", prior)
        /\ Owning(MacInstall(t), prior, t.legacy) /\ Defined(MacInstall(t), prior)
        /\ EnabledAtBoot(MacInstall(t), "darwin", prior)
        /\ t.kind = "replace" => Owning(WindowsInstall(t), prior, t.legacy)
        /\ t.kind # "replace" => Owning(WindowsInstall(t), prior, <<>>)
        /\ Defined(WindowsInstall(t), prior) /\ EnabledAtBoot(WindowsInstall(t), "win32", prior)
    BY <1>1, <1>3, InstallsOwn
  <2>3. Owning(s, prior, t.legacy) \/ (t.kind # "replace" /\ Owning(s, prior, <<>>))
    BY <1>4, <2>1, <2>2
  <2>4. Defined(s, prior) /\ EnabledAtBoot(s, p, prior)
    BY <2>1, <2>2
  <2> HIDE DEF p
  <2> QED BY <1>2, <1>3, <1>4, <2>3, <2>4 DEF Owning, p
<1>5. CASE t.kind = "start"
  <2>1. \/ p = "linux" /\ s = LinuxStart(t)
        \/ p = "win32" /\ s = WindowsStart(t)
        \/ p = "darwin" /\ s = MacStart(t)
    BY <1>1, <1>2, <1>5 DEF Script, Platform
  <2>2. /\ Owning(LinuxStart(t), prior, t.legacy) /\ Owning(WindowsStart(t), prior, t.legacy)
        /\ Owning(MacStart(t), prior, t.legacy)
        /\ t.restart => EnabledAtBoot(WindowsStart(t), "win32", prior) /\ EnabledAtBoot(MacStart(t), "darwin", prior)
        /\ {LinuxStart(t), WindowsStart(t), MacStart(t)} \subseteq Seq(Keeps(Defining, prior))
    BY <1>1, <1>3, StartsOwn
  <2>3. Owning(s, prior, t.legacy) /\ s \in Seq(Keeps(Defining, prior))
    BY <2>1, <2>2
  <2>4. t.restart /\ p # "linux" => EnabledAtBoot(s, p, prior)
    BY <2>1, <2>2
  <2> HIDE DEF p
  <2> QED BY <1>2, <1>3, <1>5, <2>3, <2>4 DEF Owning, p
<1>6. CASE t.kind = "uninstall"
  <2>1. s \in {LinuxUninstall(t.target), WindowsUninstall(t.target), MacUninstall(t, t.target)}
    BY <1>2, <1>6 DEF Script
  <2>2. \A l \in LegacySet : Owned(s, prior, l)
    BY <1>1, <2>1, UninstallOwned, MacUninstallOwned
  <2> QED BY <1>2, <1>3, <1>6, <2>2
<1>7. CASE t.kind = "start-owned"
  <2>1. s \in {In("after", <<Command("enable", t.target), Command("kickstart", t.target)>>),
               In("after", <<Command("start", t.target)>>)}
    BY <1>2, <1>7 DEF Script
  <2>2. s \in Seq(Plain(prior, {Canonical}))
    BY <1>1, <2>1, OwnedStartFits
  <2>3. ASSUME NEW l \in LegacySet PROVE Owned(s, prior, l)
    <3>1. Plain(prior, {Canonical}) \subseteq Remembers(l, prior)
      BY CommandSets
    <3>2. s \in Seq(Remembers(l, prior))
      BY <2>2, <3>1, SeqMonotonic
    <3> QED BY <3>2, GuardedByNone DEF Owned
  <2> QED BY <1>2, <1>3, <1>7, <2>3
<1> QED BY <1>1, <1>4, <1>5, <1>6, <1>7 DEF Kinds

-----------------------------------------------------------------------------
(* What is defined, enabled and listed.                                    *)

Unmoved(m, n) ==
  n.platform = m.platform /\ n.defined = m.defined /\ n.enabled = m.enabled /\ n.listed = m.listed

LEMMA FieldsUnmoved ==
  ASSUME NEW m \in Machine, NEW v
  PROVE  /\ Unmoved(m, m)
         /\ Unmoved(m, [m EXCEPT !.running = v]) /\ Unmoved(m, [m EXCEPT !.loaded = v])
         /\ Unmoved(m, [m EXCEPT !.runtime = v]) /\ Unmoved(m, [m EXCEPT !.backups = v])
         /\ Unmoved(m, [m EXCEPT !.two = v]) /\ Unmoved(m, [m EXCEPT !.one = v])
         /\ Unmoved(m, [m EXCEPT !.previous = v])
         /\ Unmoved(m, [m EXCEPT !.two = v, !.one = v, !.previous = v])
BY DEF Machine, Unmoved

LEMMA ManagedUnmoved ==
  ASSUME NEW m \in Machine, NEW s \in Service
  PROVE  /\ Unmoved(m, Started(m, s)) /\ Unmoved(m, Stopped(m, s))
         /\ Unmoved(Enabled(m, s), Started(Enabled(m, s), s))
         /\ Unmoved(Disabled(m, s), Stopped(Disabled(m, s), s))
         /\ Unmoved(m, [Stopped(m, s) EXCEPT !.loaded = Stopped(m, s).loaded \ {s}])
         /\ Unmoved(m, [Started(m, s) EXCEPT !.loaded = Started(m, s).loaded \cup {s}])
         /\ Unmoved(Enabled(m, s), Enabled(m, s)) /\ Unmoved(Disabled(m, s), Disabled(m, s))
<1>1. \A n \in Machine : Unmoved(n, Started(n, s)) /\ Unmoved(n, Stopped(n, s))
  <2>1. \A n \in Machine : Unmoved(n, Started(n, s))
    BY FieldsUnmoved DEF Started
  <2>2. \A n \in Machine : Unmoved(n, Stopped(n, s))
    BY FieldsUnmoved DEF Stopped
  <2> QED BY <2>1, <2>2
<1>2. /\ Started(m, s) \in Machine /\ Stopped(m, s) \in Machine
      /\ Enabled(m, s) \in Machine /\ Disabled(m, s) \in Machine
  BY CommandsChange
<1>3. \A n \in Machine : \A v : Unmoved(n, [n EXCEPT !.loaded = v]) /\ Unmoved(n, n)
  BY FieldsUnmoved
<1>4. Unmoved(m, [Stopped(m, s) EXCEPT !.loaded = Stopped(m, s).loaded \ {s}])
  <2>1. Unmoved(Stopped(m, s), [Stopped(m, s) EXCEPT !.loaded = Stopped(m, s).loaded \ {s}])
    BY <1>2, <1>3
  <2> QED BY <1>1, <2>1 DEF Unmoved
<1>5. Unmoved(m, [Started(m, s) EXCEPT !.loaded = Started(m, s).loaded \cup {s}])
  <2>1. Unmoved(Started(m, s), [Started(m, s) EXCEPT !.loaded = Started(m, s).loaded \cup {s}])
    BY <1>2, <1>3
  <2> QED BY <1>1, <2>1 DEF Unmoved
<1> QED BY <1>1, <1>2, <1>3, <1>4, <1>5

\* What a command does to them.
Moves(m, n, do, s) ==
  \/ do \in {"enable", "enable-now", "enable-and-run"} /\ Unmoved(Enabled(m, s), n)
  \/ do \in Disabling /\ Unmoved(Disabled(m, s), n)
  \/ do = "define"
     /\ n = Redefined(m, s, 2, IF m.platform = "win32" THEN m.enabled \cup {s} ELSE m.enabled)
  \/ do = "restore-definition"
     /\ n = Redefined(m, s, Backup(m).format, IF m.platform = "win32" THEN m.enabled \cup {s} ELSE m.enabled)
  \/ do = "undefine"
     /\ n = Redefined(m, s, 0, IF m.platform = "win32" THEN m.enabled \ {s} ELSE m.enabled)
  \/ do = "forget" /\ n = [m EXCEPT !.listed = m.listed \ {s}]
  \/ do \notin {"enable", "enable-now", "define", "undefine"} /\ Unmoved(m, n)

LEMMA CommandedMoves ==
  ASSUME NEW m \in Machine, NEW s \in Service, NEW do \in Verbs \ {"define", "restore-definition", "yield"}
  PROVE  Moves(m, Commanded(m, do, s), do, s)
<1> DEFINE c == Commanded(m, do, s)
<1> SUFFICES Moves(m, c, do, s)
  OBVIOUS
<1> HIDE DEF Verbs, c
<1>1. CASE do \in {"start", "kickstart", "stop", "quiesce", "bootout", "bootstrap"}
  <2>1. \/ c = Started(m, s) \/ c = Stopped(m, s)
        \/ c = [Stopped(m, s) EXCEPT !.loaded = Stopped(m, s).loaded \ {s}]
        \/ c = [Started(m, s) EXCEPT !.loaded = Started(m, s).loaded \cup {s}]
    BY <1>1 DEF Commanded, c
  <2>2. Unmoved(m, c)
    BY <2>1, ManagedUnmoved
  <2> QED BY <1>1, <2>2 DEF Moves
<1>2. CASE do \in {"enable", "enable-now"}
  <2>1. c = Enabled(m, s) \/ c = Started(Enabled(m, s), s)
    BY <1>2 DEF Commanded, c
  <2>2. Unmoved(Enabled(m, s), c)
    BY <2>1, ManagedUnmoved
  <2> QED BY <1>2, <2>2 DEF Moves
<1>3. CASE do \in {"disable", "disable-now"}
  <2>1. c = Disabled(m, s) \/ c = Stopped(Disabled(m, s), s)
    BY <1>3 DEF Commanded, c
  <2>2. Unmoved(Disabled(m, s), c)
    BY <2>1, ManagedUnmoved
  <2> QED BY <1>3, <2>2 DEF Moves, Disabling
<1>4. CASE do = "undefine"
  <2>1. c = Redefined(m, s, 0, IF m.platform = "win32" THEN m.enabled \ {s} ELSE m.enabled)
    BY <1>4 DEF Commanded, Redefined, c
  <2> QED BY <1>4, <2>1 DEF Moves
<1>5. CASE do = "wipe"
  <2>1. c = [m EXCEPT !.runtime = IF s = Canonical THEN Absent ELSE m.runtime]
    BY <1>5 DEF Commanded, c
  <2>2. Unmoved(m, c)
    BY <2>1, FieldsUnmoved
  <2> QED BY <1>5, <2>2 DEF Moves
<1>6. CASE do = "forget"
  <2>1. c = [m EXCEPT !.two = None, !.one = None, !.previous = None] \/ c = [m EXCEPT !.listed = m.listed \ {s}]
    BY <1>6 DEF Commanded, c
  <2>2. Unmoved(m, [m EXCEPT !.two = None, !.one = None, !.previous = None])
    BY FieldsUnmoved
  <2> QED BY <1>6, <2>1, <2>2 DEF Moves
<1>7. CASE do \notin {"start", "kickstart", "stop", "quiesce", "enable", "disable", "enable-now", "disable-now",
                      "bootout", "bootstrap", "undefine", "wipe", "forget"}
  <2>1. c = m
    BY <1>7 DEF Commanded, c
  <2>2. Unmoved(m, c)
    BY <2>1, FieldsUnmoved
  <2> QED BY <1>7, <2>2 DEF Moves
<1> QED BY <1>1, <1>2, <1>3, <1>4, <1>5, <1>6, <1>7

LEMMA EffectMoves ==
  ASSUME NEW m \in Machine, NEW s \in Service, NEW do \in Verbs
  PROVE  Moves(m, Effect(m, do, s), do, s)
<1> DEFINE c == Effect(m, do, s)
<1> SUFFICES Moves(m, c, do, s)
  OBVIOUS
<1> HIDE DEF Verbs, c
<1>1. CASE do \in {"previous", "drop-previous", "drop-one", "drop-two", "pending", "write-planned", "commit",
                   "write-prior"}
  <2>1. \E v : c \in {[m EXCEPT !.two = v], [m EXCEPT !.one = v], [m EXCEPT !.previous = v]}
    <3>1. \/ c = [m EXCEPT !.previous = tx.prior] \/ c = [m EXCEPT !.previous = None]
          \/ c = [m EXCEPT !.one = None] \/ c = [m EXCEPT !.one = tx.prior]
          \/ c = [m EXCEPT !.two = None] \/ c = [m EXCEPT !.two = IF tx.prior # None THEN Planned ELSE None]
          \/ c = [m EXCEPT !.two = Planned] \/ c = [m EXCEPT !.two = Installed]
          \/ c = [m EXCEPT !.two = tx.prior]
      BY <1>1 DEF Effect, c
    <3> QED BY <3>1
  <2>2. Unmoved(m, c)
    BY <2>1, FieldsUnmoved
  <2> QED BY <1>1, <2>2 DEF Moves
<1>2. CASE do \in {"backup", "unstage", "runtime", "restore-files"}
  <2>1. c = m \/ \E v : c \in {[m EXCEPT !.backups = v], [m EXCEPT !.runtime = v]}
    <3>1. CASE do = "backup"
      <4> DEFINE v == m.backups \cup {[of |-> tx.prior, bytes |-> m.runtime, format |-> m.defined[s]]}
      <4>1. c = m \/ c = [m EXCEPT !.backups = v]
        BY <3>1 DEF Effect, c
      <4> HIDE DEF v
      <4> QED BY <4>1
    <3>2. CASE do = "unstage"
      <4>1. c = [m EXCEPT !.backups = m.backups \ Backups(m)]
        BY <3>2 DEF Effect, c
      <4> QED BY <4>1
    <3>3. CASE do = "runtime"
      <4>1. c = [m EXCEPT !.runtime = tx.version]
        BY <3>3 DEF Effect, c
      <4> QED BY <4>1
    <3>4. CASE do = "restore-files"
      <4>1. c = [m EXCEPT !.runtime = Backup(m).bytes]
        BY <3>4 DEF Effect, c
      <4> QED BY <4>1
    <3> QED BY <1>2, <3>1, <3>2, <3>3, <3>4
  <2>2. Unmoved(m, c)
    BY <2>1, FieldsUnmoved
  <2> QED BY <1>2, <2>2 DEF Moves
<1>3. CASE do = "define"
  <2>1. c = Redefined(m, s, 2, IF m.platform = "win32" THEN m.enabled \cup {s} ELSE m.enabled)
    BY <1>3 DEF Effect, Redefined, c
  <2> QED BY <1>3, <2>1 DEF Moves
<1>4. CASE do = "restore-definition"
  <2>1. c = Redefined(m, s, Backup(m).format, IF m.platform = "win32" THEN m.enabled \cup {s} ELSE m.enabled)
    BY <1>4 DEF Effect, Redefined, c
  <2> QED BY <1>4, <2>1 DEF Moves
<1>5. CASE do = "yield"
  <2>1. c = Disabled(m, s)
    BY <1>5 DEF Effect, c
  <2> QED BY <1>5, <2>1, ManagedUnmoved DEF Moves, Disabling
<1>6. CASE do = "enable-and-run"
  <2>1. c = Started(Enabled(m, s), s)
    BY <1>6 DEF Effect, c
  <2> QED BY <1>6, <2>1, ManagedUnmoved DEF Moves
<1>7. CASE do \notin {"previous", "drop-previous", "drop-one", "drop-two", "pending", "write-planned", "commit",
                      "write-prior", "backup", "unstage", "runtime", "restore-files", "define",
                      "restore-definition", "yield", "enable-and-run"}
  <2>1. c = Commanded(m, do, s)
    BY <1>7 DEF Effect, c
  <2>2. do \in Verbs \ {"define", "restore-definition", "yield"}
    BY <1>7
  <2> QED BY <2>1, <2>2, CommandedMoves
<1> QED BY <1>1, <1>2, <1>3, <1>4, <1>5, <1>6, <1>7

\* What a command leaves of a machine m, if it worked and if it did not.
Leaves(m, n, do, s) ==
  /\ n.platform = m.platform
  /\ \A x \in Service : n.defined[x] = m.defined[x] \/ (x = s /\ do \in Defining \cup {"define"})
  /\ do = "undefine" => n.defined[s] \in {0, m.defined[s]}
  /\ do = "define" => n.defined[s] \in {2, m.defined[s]}
  /\ m.listed \subseteq n.listed \cup (IF do = "forget" THEN {s} ELSE {})
  /\ m.enabled \subseteq n.enabled \cup (IF do \in Defining \cup Disabling THEN {s} ELSE {})

LEMMA RedefinedLeaves ==
  ASSUME NEW m \in Machine, NEW s \in Service, NEW format, NEW enabled
  PROVE  LET n == Redefined(m, s, format, enabled) IN
         /\ n.platform = m.platform /\ n.listed = m.listed /\ n.enabled = enabled
         /\ \A x \in Service : n.defined[x] = IF x = s THEN format ELSE m.defined[x]
BY DEF Machine, Redefined

LEMMA MovesLeave ==
  ASSUME NEW m \in Machine, NEW s \in Service, NEW do \in Verbs, NEW n, Moves(m, n, do, s)
  PROVE  /\ Leaves(m, n, do, s)
         /\ do = "undefine" => n.defined[s] = 0
         /\ do = "define" => n.defined[s] = 2 /\ (m.platform = "win32" => s \in n.enabled)
         /\ do \in {"enable", "enable-now"} => s \in n.enabled
<1> DEFINE Goal == /\ Leaves(m, n, do, s)
                   /\ do = "undefine" => n.defined[s] = 0
                   /\ do = "define" => n.defined[s] = 2 /\ (m.platform = "win32" => s \in n.enabled)
                   /\ do \in {"enable", "enable-now"} => s \in n.enabled
<1> SUFFICES Goal
  OBVIOUS
<1> HIDE DEF Verbs
<1>1. CASE do \in {"enable", "enable-now", "enable-and-run"} /\ Unmoved(Enabled(m, s), n)
  <2>1. /\ Enabled(m, s).platform = m.platform /\ Enabled(m, s).defined = m.defined
        /\ Enabled(m, s).listed = m.listed /\ Enabled(m, s).enabled = m.enabled \cup {s}
    BY DEF Machine, Enabled
  <2>2. /\ n.platform = m.platform /\ n.defined = m.defined /\ n.listed = m.listed /\ n.enabled = m.enabled \cup {s}
    BY <1>1, <2>1 DEF Unmoved
  <2> QED BY <1>1, <2>2 DEF Leaves, Defining, Disabling
<1>2. CASE do \in Disabling /\ Unmoved(Disabled(m, s), n)
  <2>1. /\ Disabled(m, s).platform = m.platform /\ Disabled(m, s).defined = m.defined
        /\ Disabled(m, s).listed = m.listed /\ Disabled(m, s).enabled = m.enabled \ {s}
    BY DEF Machine, Disabled
  <2>2. /\ n.platform = m.platform /\ n.defined = m.defined /\ n.listed = m.listed /\ n.enabled = m.enabled \ {s}
    BY <1>2, <2>1 DEF Unmoved
  <2> QED BY <1>2, <2>2 DEF Leaves, Defining, Disabling
<1>3. CASE do \in Defining \cup {"define"}
           /\ \E format, enabled :
                /\ n = Redefined(m, s, format, enabled)
                /\ do = "define" => /\ format = 2 /\ m.enabled \subseteq enabled
                                    /\ m.platform = "win32" => s \in enabled
                /\ do = "undefine" => format = 0
                /\ m.enabled \subseteq enabled \cup {s}
  <2>1. PICK format, enabled :
          /\ n = Redefined(m, s, format, enabled)
          /\ do = "define" => format = 2 /\ m.enabled \subseteq enabled /\ (m.platform = "win32" => s \in enabled)
          /\ do = "undefine" => format = 0
          /\ m.enabled \subseteq enabled \cup {s}
    BY <1>3
  <2>2. /\ n.platform = m.platform /\ n.listed = m.listed /\ n.enabled = enabled
        /\ \A x \in Service : n.defined[x] = IF x = s THEN format ELSE m.defined[x]
    BY <2>1, RedefinedLeaves
  <2>3. do \notin {"forget", "enable", "enable-now"} /\ (do \in Defining \/ do = "define")
    BY <1>3 DEF Defining
  <2>4. n.defined[s] = format
    BY <2>2
  <2>5. Leaves(m, n, do, s)
    BY <2>1, <2>2, <2>3, <2>4 DEF Leaves
  <2> QED BY <2>1, <2>2, <2>3, <2>4, <2>5
<1>4. CASE do = "forget" /\ n = [m EXCEPT !.listed = m.listed \ {s}]
  <2>1. /\ n.platform = m.platform /\ n.defined = m.defined /\ n.enabled = m.enabled /\ n.listed = m.listed \ {s}
    BY <1>4 DEF Machine
  <2> QED BY <1>4, <2>1 DEF Leaves, Defining, Disabling
<1>5. CASE do \notin {"enable", "enable-now", "define", "undefine"} /\ Unmoved(m, n)
  BY <1>5 DEF Leaves, Unmoved
<1>6. ASSUME do = "define",
             n = Redefined(m, s, 2, IF m.platform = "win32" THEN m.enabled \cup {s} ELSE m.enabled)
      PROVE  Goal
  <2> DEFINE e == IF m.platform = "win32" THEN m.enabled \cup {s} ELSE m.enabled
  <2>1. m.enabled \subseteq e /\ (m.platform = "win32" => s \in e) /\ n = Redefined(m, s, 2, e)
    BY <1>6
  <2> HIDE DEF e
  <2> QED BY <1>3, <1>6, <2>1
<1>7. ASSUME do = "restore-definition",
             n = Redefined(m, s, Backup(m).format, IF m.platform = "win32" THEN m.enabled \cup {s} ELSE m.enabled)
      PROVE  Goal
  <2> DEFINE e == IF m.platform = "win32" THEN m.enabled \cup {s} ELSE m.enabled
  <2>1. m.enabled \subseteq e \cup {s} /\ n = Redefined(m, s, Backup(m).format, e)
    BY <1>7
  <2> HIDE DEF e
  <2> QED BY <1>3, <1>7, <2>1 DEF Defining
<1>8. ASSUME do = "undefine",
             n = Redefined(m, s, 0, IF m.platform = "win32" THEN m.enabled \ {s} ELSE m.enabled)
      PROVE  Goal
  <2> DEFINE e == IF m.platform = "win32" THEN m.enabled \ {s} ELSE m.enabled
  <2>1. m.enabled \subseteq e \cup {s} /\ n = Redefined(m, s, 0, e)
    BY <1>8
  <2> HIDE DEF e
  <2> QED BY <1>3, <1>8, <2>1 DEF Defining
<1> HIDE DEF Goal
<1> QED BY <1>1, <1>2, <1>4, <1>5, <1>6, <1>7, <1>8 DEF Moves

LEMMA FailureLeaves ==
  ASSUME NEW m \in Machine, NEW s \in Service, NEW do \in Verbs, NEW n \in AfterFailure(m, do, s)
  PROVE  Leaves(m, n, do, s)
<1>1. CASE n = Effect(m, do, s)
  BY <1>1, EffectMoves, MovesLeave
<1>2. CASE n = m \/ n = [m EXCEPT !.runtime = Mixed]
  <2>1. Unmoved(m, n)
    BY <1>2, FieldsUnmoved
  <2> QED BY <2>1 DEF Leaves, Unmoved
<1>3. CASE n = Enabled(m, s) /\ do \in {"enable-now", "enable-and-run"}
  <2>1. Moves(m, n, do, s)
    <3>1. Unmoved(n, n)
      BY DEF Unmoved
    <3> QED BY <1>3, <3>1 DEF Moves
  <2> QED BY <2>1, MovesLeave
<1>4. \/ n = m \/ n = Effect(m, do, s) \/ n = [m EXCEPT !.runtime = Mixed]
      \/ n = Enabled(m, s) /\ do \in {"enable-now", "enable-and-run"}
  <2> HIDE DEF Verbs
  <2> QED BY DEF AfterFailure
<1> QED BY <1>1, <1>2, <1>3, <1>4

-----------------------------------------------------------------------------
(* The invariant behind OneOwnerAtBoot.                                    *)

Converges == tx.kind \in {"install", "replace", "start"}
StartsAtBoot == tx.kind # "start" \/ (machine.platform # "linux" /\ tx.restart)

\* While a convergence runs, it will still remove every definition of a legacy
\* service that is there and keep its record until then, and it has defined and
\* enabled the canonical service for good or is still going to.
OwnerInv ==
  /\ machine.platform = tx.before.platform
  /\ \A l \in LegacySet : machine.defined[l] # 0 => l \in machine.listed
  /\ phase = "forward" => \A l \in LegacySet : machine.defined[l] # 0 =>
       Owned(script, tx.prior, l) /\ (Converges => Has(script, Undefines(l, tx.prior)))
  /\ phase = "forward" /\ Converges /\ StartsAtBoot =>
       /\ Settled(script, Upholds(tx.prior), Enables(machine.platform, tx.prior))
       /\ Canonical \in machine.enabled \/ Has(script, Enables(machine.platform, tx.prior))
       /\ IF tx.kind = "start"
          THEN machine.defined[Canonical] # 0 /\ script \in Seq(Keeps(Defining, tx.prior))
          ELSE /\ Settled(script, Keeps(Defining, tx.prior), Defines(tx.prior))
               /\ machine.defined[Canonical] # 0 \/ Has(script, Defines(tx.prior))
  /\ phase = "rest" /\ outcome = "ok" /\ Converges =>
       /\ \A l \in LegacySet : machine.defined[l] = 0
       /\ StartsAtBoot => machine.defined[Canonical] # 0 /\ Canonical \in machine.enabled

\* What is over in any other way than well, or is being taken back, keeps the
\* records of the definitions that are there.
LEMMA OwnerOtherwise ==
  ASSUME OwnerInv, machine'.platform = machine.platform, tx'.before = tx.before,
         \A l \in LegacySet : machine'.defined[l] # 0 => l \in machine'.listed,
         phase' \notin {"forward", "rest"} \/ (phase' = "rest" /\ outcome' # "ok")
  PROVE  OwnerInv'
<1>1. phase' # "forward" /\ ~(phase' = "rest" /\ outcome' = "ok")
  OBVIOUS
<1> QED BY <1>1 DEF OwnerInv

\* What the next command of a script does to the definitions, and to what is
\* enabled and listed.
Advances(step) ==
  /\ machine'.platform = machine.platform
  /\ \A l \in LegacySet :
       machine'.defined[l] # 0 => machine.defined[l] # 0 /\ step \notin Undefines(l, tx.prior)
  /\ \A l \in machine.listed : step \in Remembers(l, tx.prior) => l \in machine'.listed
  /\ Canonical \in machine.enabled /\ step \in Upholds(tx.prior) => Canonical \in machine'.enabled
  /\ step \in Enables(machine.platform, tx.prior) => Canonical \in machine'.enabled
  /\ machine.defined[Canonical] # 0 /\ step \in Keeps(Defining, tx.prior) => machine'.defined[Canonical] # 0
  /\ step \in Defines(tx.prior) => machine'.defined[Canonical] # 0

\* A script goes on with the commands behind the next one.
LEMMA OwnerOn ==
  ASSUME InstallInv, OwnerInv, script # <<>>, phase = "forward", phase' = "forward",
         Same(tx'), tx'.restart = tx.restart, script' = Tail(script), Advances(Head(script))
  PROVE  OwnerInv'
<1> DEFINE P == Plain(tx.prior, Service)
           U == Upholds(tx.prior)
           E == Enables(machine.platform, tx.prior)
           K == Keeps(Defining, tx.prior)
           D == Defines(tx.prior)
           step == Head(script)
           rest == Tail(script)
<1>1. script \in Seq(P)
  BY DEF InstallInv
<1>2. /\ machine'.platform = machine.platform /\ tx'.prior = tx.prior /\ tx'.before = tx.before
      /\ (Converges' <=> Converges) /\ (StartsAtBoot' <=> StartsAtBoot)
      /\ Enables(machine.platform, tx.prior)' = E
  BY DEF Same, Converges, StartsAtBoot, Advances
<1>3. \A l \in LegacySet : machine'.defined[l] # 0 =>
        /\ machine.defined[l] # 0 /\ step \notin Undefines(l, tx.prior)
        /\ Owned(script, tx.prior, l) /\ (Converges => Has(script, Undefines(l, tx.prior)))
  <2> HIDE DEF step
  <2> QED BY DEF Advances, OwnerInv, step
<1> HIDE DEF P
<1>4. ASSUME NEW l \in LegacySet, machine'.defined[l] # 0
      PROVE  /\ l \in machine'.listed
             /\ Owned(rest, tx.prior, l)
             /\ Converges => Has(rest, Undefines(l, tx.prior))
  <2>1. /\ machine.defined[l] # 0 /\ step \notin Undefines(l, tx.prior)
        /\ Guarded(script, Remembers(l, tx.prior), Undefines(l, tx.prior))
        /\ Converges => Has(script, Undefines(l, tx.prior))
    BY <1>3, <1>4 DEF Owned
  <2>2. step \in Remembers(l, tx.prior) /\ Guarded(rest, Remembers(l, tx.prior), Undefines(l, tx.prior))
    BY <1>1, <2>1, GuardedTail
  <2>3. l \in machine'.listed
    <3>1. l \in machine.listed
      BY <2>1 DEF OwnerInv
    <3> HIDE DEF step
    <3> QED BY <2>2, <3>1 DEF Advances, step
  <2>4. Has(script, Undefines(l, tx.prior)) => Has(rest, Undefines(l, tx.prior))
    <3>1. Settled(script, P, Undefines(l, tx.prior))
      BY <1>1, ElementOfSeq DEF Settled
    <3> QED BY <1>1, <2>1, <3>1, SettledTail
  <2> QED BY <2>1, <2>2, <2>3, <2>4 DEF Owned
<1>5. ASSUME Converges, StartsAtBoot
      PROVE  /\ Settled(rest, U, E)
             /\ Canonical \in machine'.enabled \/ Has(rest, E)
  <2>1. Settled(script, U, E) /\ (Canonical \in machine.enabled \/ Has(script, E))
    BY <1>5 DEF OwnerInv
  <2> HIDE DEF U, E
  <2>2. Settled(rest, U, E) /\ (step \in U \/ Has(rest, E)) /\ (Has(script, E) => step \in E \/ Has(rest, E))
    BY <1>1, <2>1, SettledTail
  <2>3. /\ Canonical \in machine.enabled /\ step \in U => Canonical \in machine'.enabled
        /\ step \in E => Canonical \in machine'.enabled
    BY DEF Advances, U, E
  <2> QED BY <2>1, <2>2, <2>3
<1>6. ASSUME Converges, StartsAtBoot, tx.kind = "start"
      PROVE  machine'.defined[Canonical] # 0 /\ rest \in Seq(K)
  <2>1. machine.defined[Canonical] # 0 /\ script \in Seq(K)
    BY <1>6 DEF OwnerInv
  <2>2. step \in K /\ rest \in Seq(K)
    BY <2>1, HeadTailProperties
  <2> QED BY <2>1, <2>2 DEF Advances
<1>7. ASSUME Converges, StartsAtBoot, tx.kind # "start"
      PROVE  Settled(rest, K, D) /\ (machine'.defined[Canonical] # 0 \/ Has(rest, D))
  <2>1. Settled(script, K, D) /\ (machine.defined[Canonical] # 0 \/ Has(script, D))
    BY <1>7 DEF OwnerInv
  <2> HIDE DEF K, D
  <2>2. Settled(rest, K, D) /\ (step \in K \/ Has(rest, D)) /\ (Has(script, D) => step \in D \/ Has(rest, D))
    BY <1>1, <2>1, SettledTail
  <2>3. /\ machine.defined[Canonical] # 0 /\ step \in K => machine'.defined[Canonical] # 0
        /\ step \in D => machine'.defined[Canonical] # 0
    BY DEF Advances, K, D
  <2> QED BY <2>1, <2>2, <2>3
<1>8. machine'.platform = tx'.before.platform /\ tx'.kind = tx.kind
  BY <1>2 DEF OwnerInv, Same
<1> HIDE DEF step, rest, U, E, K, D
<1>9. script' = rest
  BY DEF rest
<1>10. /\ Upholds(tx'.prior) = U /\ Keeps(Defining, tx'.prior) = K /\ Defines(tx'.prior) = D
       /\ Enables(machine'.platform, tx'.prior) = E
  BY <1>2 DEF U, E, K, D
<1>11. phase' # "rest"
  OBVIOUS
<1>12. Converges' /\ StartsAtBoot' =>
       /\ Settled(script', Upholds(tx'.prior), Enables(machine'.platform, tx'.prior))
       /\ Canonical \in machine'.enabled \/ Has(script', Enables(machine'.platform, tx'.prior))
       /\ IF tx'.kind = "start"
          THEN machine'.defined[Canonical] # 0 /\ script' \in Seq(Keeps(Defining, tx'.prior))
          ELSE /\ Settled(script', Keeps(Defining, tx'.prior), Defines(tx'.prior))
               /\ machine'.defined[Canonical] # 0 \/ Has(script', Defines(tx'.prior))
  BY <1>2, <1>5, <1>6, <1>7, <1>8, <1>9, <1>10
<1>13. \A l \in LegacySet : machine'.defined[l] # 0 =>
         /\ l \in machine'.listed
         /\ Owned(script', tx'.prior, l) /\ (Converges' => Has(script', Undefines(l, tx'.prior)))
  BY <1>2, <1>4, <1>9
<1> QED BY <1>8, <1>11, <1>12, <1>13 DEF OwnerInv

\* What a step of the script does, whether it worked or failed without stopping it.
LEMMA StepAdvances ==
  ASSUME machine \in Machine, NEW step \in Plain(tx.prior, Service),
         Leaves(machine, machine', step.do, step.to),
         \/ step.on = "ignore"
         \/ /\ step.do = "undefine" => machine'.defined[step.to] = 0
            /\ step.do = "define" => /\ machine'.defined[step.to] = 2
                                     /\ machine.platform = "win32" => step.to \in machine'.enabled
            /\ step.do \in {"enable", "enable-now"} => step.to \in machine'.enabled
  PROVE  Advances(step)
<1> DEFINE do == step.do
           s == step.to
<1>1. do \in Verbs /\ s \in Service /\ (do \in {"define", "restore-definition"} => s = Canonical)
  BY DEF Plain, Steps, Fields, Proper
<1>2. Canonical \in Service /\ \A l \in LegacySet : l \in Service /\ l # Canonical
  BY TargetsAssumption DEF Service
<1> HIDE DEF Verbs
<1>3. /\ machine'.platform = machine.platform
      /\ \A x \in Service : machine'.defined[x] = machine.defined[x] \/ (x = s /\ do \in Defining \cup {"define"})
      /\ do = "undefine" => machine'.defined[s] \in {0, machine.defined[s]}
      /\ do = "define" => machine'.defined[s] \in {2, machine.defined[s]}
      /\ machine.listed \subseteq machine'.listed \cup (IF do = "forget" THEN {s} ELSE {})
      /\ machine.enabled \subseteq machine'.enabled \cup (IF do \in Defining \cup Disabling THEN {s} ELSE {})
  BY DEF Leaves
<1>4. ASSUME NEW l \in LegacySet, machine'.defined[l] # 0
      PROVE  machine.defined[l] # 0 /\ step \notin Undefines(l, tx.prior)
  <2>1. machine'.defined[l] = machine.defined[l] \/ (l = s /\ do = "undefine")
    BY <1>1, <1>2, <1>3 DEF Defining
  <2>2. machine.defined[l] # 0
    BY <1>3, <1>4, <2>1
  <2>3. ASSUME step \in Undefines(l, tx.prior) PROVE FALSE
    <3>1. do = "undefine" /\ s = l /\ step.on = "throw"
      BY <2>3 DEF Undefines
    <3> QED BY <1>4, <3>1
  <2> QED BY <2>2, <2>3
<1>5. ASSUME NEW l \in machine.listed, step \in Remembers(l, tx.prior) PROVE l \in machine'.listed
  <2>1. ~(do = "forget" /\ s = l)
    BY <1>5 DEF Remembers
  <2> QED BY <1>3, <2>1
<1>6. ASSUME Canonical \in machine.enabled, step \in Upholds(tx.prior) PROVE Canonical \in machine'.enabled
  <2>1. <<do, s>> \in Keeping(Defining \cup Disabling)
    BY <1>6 DEF Upholds, Keeps, Giving
  <2>2. ~(do \in Defining \cup Disabling /\ s = Canonical)
    <3> HIDE DEF do, s, Defining, Disabling
    <3> QED BY <2>1 DEF Keeping
  <2> QED BY <1>3, <1>6, <2>2
<1>7. ASSUME step \in Enables(machine.platform, tx.prior) PROVE Canonical \in machine'.enabled
  <2>1. /\ do \in {"enable", "enable-now"} \/ (do = "define" /\ machine.platform = "win32")
        /\ s = Canonical /\ step.on = "throw"
    BY <1>7 DEF Enables
  <2> QED BY <2>1
<1>8. ASSUME machine.defined[Canonical] # 0, step \in Keeps(Defining, tx.prior)
      PROVE  machine'.defined[Canonical] # 0
  <2>1. <<do, s>> \in Keeping(Defining)
    BY <1>8 DEF Keeps, Giving
  <2>2. ~(do \in Defining /\ s = Canonical)
    <3> HIDE DEF do, s, Defining
    <3> QED BY <2>1 DEF Keeping
  <2>3. machine'.defined[Canonical] = machine.defined[Canonical] \/ (do = "define" /\ s = Canonical)
    BY <1>2, <1>3, <2>2
  <2> QED BY <1>3, <1>8, <2>3
<1>9. ASSUME step \in Defines(tx.prior) PROVE machine'.defined[Canonical] # 0
  <2>1. do = "define" /\ s = Canonical /\ step.on = "throw"
    BY <1>9 DEF Defines
  <2>2. machine'.defined[s] = 2
    BY <2>1
  <2> QED BY <2>1, <2>2
<1> QED BY <1>3, <1>4, <1>5, <1>6, <1>7, <1>8, <1>9 DEF Advances

\* What is being taken back keeps every record of a definition that is there,
\* and so does a command that keeps it.
LEMMA ListedStays ==
  ASSUME machine \in Machine, NEW step \in Steps(tx.prior, Service), OwnerInv,
         Leaves(machine, machine', step.do, step.to),
         step \in Steps(tx.prior, {Canonical})
           \/ \A l \in LegacySet : machine.defined[l] # 0 => step \in Remembers(l, tx.prior)
  PROVE  /\ machine'.platform = machine.platform
         /\ \A l \in LegacySet : machine'.defined[l] # 0 => l \in machine'.listed
<1> DEFINE do == step.do
           s == step.to
<1>1. do \in Verbs /\ s \in Service /\ (do \in {"define", "restore-definition"} => s = Canonical)
  BY DEF Steps, Fields, Proper
<1>2. \A l \in LegacySet : l \in Service /\ l # Canonical
  BY TargetsAssumption DEF Service
<1> HIDE DEF Verbs
<1>3. /\ machine'.platform = machine.platform
      /\ \A x \in Service : machine'.defined[x] = machine.defined[x] \/ (x = s /\ do \in Defining \cup {"define"})
      /\ do = "undefine" => machine'.defined[s] \in {0, machine.defined[s]}
      /\ machine.listed \subseteq machine'.listed \cup (IF do = "forget" THEN {s} ELSE {})
  BY DEF Leaves
<1>4. ASSUME NEW l \in LegacySet, machine'.defined[l] # 0 PROVE l \in machine'.listed
  <2>1. machine'.defined[l] = machine.defined[l] \/ (l = s /\ do = "undefine")
    BY <1>1, <1>2, <1>3 DEF Defining
  <2>2. machine.defined[l] # 0
    BY <1>3, <1>4, <2>1
  <2>3. ~(do = "forget" /\ s = l)
    <3>1. CASE step \in Steps(tx.prior, {Canonical})
      BY <1>2, <3>1 DEF Steps, Proper
    <3>2. CASE step \in Remembers(l, tx.prior)
      BY <3>2 DEF Remembers
    <3> QED BY <2>2, <3>1, <3>2
  <2>4. l \in machine.listed
    BY <2>2 DEF OwnerInv
  <2> QED BY <1>3, <2>3, <2>4
<1> QED BY <1>3, <1>4

LEMMA SkipStepOwner ==
  ASSUME InstallInv, OwnerInv, SkipStep
  PROVE  OwnerInv'
<1>1. /\ machine' = machine /\ tx' = tx /\ phase' = phase /\ outcome' = outcome
      /\ phase # "rest" /\ script # <<>> /\ script' = Tail(script) /\ ~Applies(Head(script))
  BY DEF SkipStep
<1>2. Head(script).when # "always"
  BY <1>1 DEF Applies
<1>3. Advances(Head(script))
  <2> DEFINE step == Head(script)
  <2>1. step.when # "always"
    BY <1>2
  <2> HIDE DEF step
  <2>2. Advances(step)
    BY <1>1, <2>1 DEF Advances, Undefines, Enables, Defines
  <2> QED BY <2>2 DEF step
<1>4. Same(tx') /\ tx'.restart = tx.restart
  BY <1>1 DEF Same
<1>5. CASE phase = "forward"
  BY <1>1, <1>3, <1>4, <1>5, OwnerOn
<1>6. CASE phase # "forward"
  <2>1. \A l \in LegacySet : machine'.defined[l] # 0 => l \in machine'.listed
    BY <1>1 DEF OwnerInv
  <2> QED BY <1>1, <1>6, <2>1, OwnerOtherwise
<1> QED BY <1>5, <1>6

LEMMA SucceedOwner ==
  ASSUME InstallInv, OwnerInv, Succeed
  PROVE  OwnerInv'
<1> DEFINE step == Head(script)
<1>1. /\ phase # "rest" /\ script # <<>> /\ machine' = Effect(machine, step.do, step.to) /\ tx' = Noted(step)
      /\ script' = Tail(script) /\ phase' = phase /\ outcome' = outcome
  BY DEF Succeed
<1>2. step \in Steps(tx.prior, Service)
  BY <1>1, HeadFits
<1>3. Same(tx') /\ tx'.restart = tx.restart
  <2> HIDE DEF step
  <2>1. Same(Noted(step))
    BY <1>2, Bounds, NotedSame
  <2> QED BY <1>1, <2>1 DEF Same
<1>4. step.do \in Verbs /\ step.to \in Service
  BY <1>2 DEF Steps, Fields
<1>5. /\ Leaves(machine, machine', step.do, step.to)
      /\ step.do = "undefine" => machine'.defined[step.to] = 0
      /\ step.do = "define" => machine'.defined[step.to] = 2 /\ (machine.platform = "win32" => step.to \in machine'.enabled)
      /\ step.do \in {"enable", "enable-now"} => step.to \in machine'.enabled
  <2> HIDE DEF step
  <2>1. machine \in Machine
    BY Bounds
  <2>2. Moves(machine, machine', step.do, step.to)
    BY <1>1, <1>4, <2>1, EffectMoves
  <2> QED BY <1>4, <2>1, <2>2, MovesLeave
<1>6. CASE phase = "forward"
  <2>1. step \in Plain(tx.prior, Service)
    BY <1>1, <1>6, HeadFits
  <2>2. Advances(step)
    <3> HIDE DEF step
    <3> QED BY <1>5, <2>1, Bounds, StepAdvances
  <2> QED BY <1>1, <1>3, <1>6, <2>2, OwnerOn
<1>7. CASE phase # "forward"
  <2>1. step \in Steps(tx.prior, {Canonical})
    BY <1>1, <1>7, HeadFits
  <2> HIDE DEF step
  <2>2. /\ machine'.platform = machine.platform
        /\ \A l \in LegacySet : machine'.defined[l] # 0 => l \in machine'.listed
    BY <1>2, <1>5, <2>1, Bounds, ListedStays
  <2> QED BY <1>1, <1>3, <1>7, <2>2, OwnerOtherwise DEF Same
<1> QED BY <1>6, <1>7

\* A failure leaves the record of every definition that is there.
LEMMA FailureListed ==
  ASSUME InstallInv, OwnerInv, script # <<>>, machine' \in AfterFailure(machine, Head(script).do, Head(script).to)
  PROVE  /\ machine'.platform = machine.platform
         /\ \A l \in LegacySet : machine'.defined[l] # 0 => l \in machine'.listed
         /\ Leaves(machine, machine', Head(script).do, Head(script).to)
<1> DEFINE step == Head(script)
<1>1. step \in Steps(tx.prior, Service) /\ (phase # "forward" => step \in Steps(tx.prior, {Canonical}))
  BY HeadFits
<1>2. Leaves(machine, machine', step.do, step.to)
  <2>1. step.do \in Verbs /\ step.to \in Service /\ machine' \in AfterFailure(machine, step.do, step.to)
    BY <1>1 DEF Steps, Fields
  <2> HIDE DEF step
  <2> QED BY <2>1, Bounds, FailureLeaves
<1>3. phase = "forward" => \A l \in LegacySet : machine.defined[l] # 0 => step \in Remembers(l, tx.prior)
  <2> SUFFICES ASSUME phase = "forward", NEW l \in LegacySet, machine.defined[l] # 0
               PROVE  step \in Remembers(l, tx.prior)
    OBVIOUS
  <2>1. Guarded(script, Remembers(l, tx.prior), Undefines(l, tx.prior))
    BY DEF OwnerInv, Owned
  <2>2. script \in Seq(Plain(tx.prior, Service))
    BY DEF InstallInv
  <2> QED BY <2>1, <2>2, GuardedTail
<1> HIDE DEF step
<1>4. /\ machine'.platform = machine.platform
      /\ \A l \in LegacySet : machine'.defined[l] # 0 => l \in machine'.listed
  BY <1>1, <1>2, <1>3, Bounds, ListedStays
<1> QED BY <1>2, <1>4 DEF step

LEMMA FailOwner ==
  ASSUME InstallInv, OwnerInv, Fail
  PROVE  OwnerInv'
<1> DEFINE step == Head(script)
           unsure == Tried(step).unsure \/ NoWayBack
           t == [Tried(step) EXCEPT !.unsure = unsure]
<1>1. /\ phase # "rest" /\ script # <<>>
      /\ machine' \in AfterFailure(machine, step.do, step.to) /\ tx' = t
      /\ \/ step.on = "throw" /\ Thrown(step, t)
         \/ step.on # "throw" /\ script' = RemainderAfter(step) /\ UNCHANGED <<undo, phase, outcome>>
  BY DEF Fail
<1>2. /\ machine'.platform = machine.platform
      /\ \A l \in LegacySet : machine'.defined[l] # 0 => l \in machine'.listed
      /\ Leaves(machine, machine', step.do, step.to)
  BY <1>1, FailureListed
<1>3. step \in Steps(tx.prior, Service)
  BY <1>1, HeadFits
<1>4. Same(tx') /\ tx'.restart = tx.restart
  <2>1. Tried(step) \in Transaction /\ Same(Tried(step))
    <3> HIDE DEF step
    <3> QED BY <1>3, Bounds, NotedSame, NotedFits
  <2> DEFINE u == Tried(step)
  <2>2. tx' = [u EXCEPT !.unsure = unsure]
    BY <1>1
  <2> HIDE DEF u, unsure, step
  <2>3. u \in Transaction /\ Same(u)
    BY <2>1 DEF u
  <2> QED BY <2>2, <2>3 DEF Same, Transaction
<1>5. tx'.before = tx.before
  <2> HIDE DEF step, t
  <2> QED BY <1>4 DEF Same
<1>6. CASE step.on = "throw" /\ Thrown(step, t)
  <2> HIDE DEF step, t
  <2>1. phase' \notin {"forward", "rest"} \/ (phase' = "rest" /\ outcome' # "ok")
    BY <1>1, <1>6 DEF Thrown, Rest
  <2> QED BY <1>2, <1>5, <2>1, OwnerOtherwise
<1>7. CASE step.on # "throw" /\ phase = "forward" /\ script' = RemainderAfter(step)
           /\ UNCHANGED <<undo, phase, outcome>>
  <2>1. step \in Plain(tx.prior, Service)
    BY <1>1, <1>7, HeadFits
  <2> HIDE DEF step, t
  <2>2. step.on = "ignore"
    BY <1>7, <2>1 DEF Plain
  <2>3. script' = Tail(script)
    BY <1>7, <2>2 DEF RemainderAfter
  <2>4. Advances(step)
    BY <1>2, <2>1, <2>2, Bounds, StepAdvances
  <2>5. phase' = "forward" /\ script # <<>>
    BY <1>1, <1>7
  <2> QED BY <1>4, <1>7, <2>3, <2>4, <2>5, OwnerOn DEF step
<1>8. CASE step.on # "throw" /\ phase # "forward" /\ UNCHANGED <<undo, phase, outcome>>
  <2> HIDE DEF step, t
  <2> QED BY <1>1, <1>2, <1>5, <1>8, OwnerOtherwise
<1> HIDE DEF step, t
<1> QED BY <1>1, <1>6, <1>7, <1>8

LEMMA KilledOwner ==
  ASSUME InstallInv, OwnerInv, Killed
  PROVE  OwnerInv'
<1>1. /\ script # <<>> /\ machine' \in AfterFailure(machine, Head(script).do, Head(script).to)
      /\ phase' = "rest" /\ outcome' = "died"
  BY DEF Killed, Rest
<1>2. tx'.before = tx.before
  <2> DEFINE unsure == tx.unsure \/ NoWayBack
  <2>1. tx' = [tx EXCEPT !.unsure = unsure]
    BY DEF Killed
  <2> HIDE DEF unsure
  <2> QED BY <2>1, Bounds DEF Transaction
<1>3. /\ machine'.platform = machine.platform
      /\ \A l \in LegacySet : machine'.defined[l] # 0 => l \in machine'.listed
  BY <1>1, FailureListed
<1> QED BY <1>1, <1>2, <1>3, OwnerOtherwise

LEMMA FinallyUnmoved ==
  ASSUME NEW m \in Machine
  PROVE  Unmoved(m, Finally(m))
<1> DEFINE kept == m.backups \ Backups(m)
           unstaged == [m EXCEPT !.backups = kept]
<1>1. Effect(m, "unstage", Canonical) = unstaged
  BY DEF Effect
<1>2. kept \in SUBSET [of : Record, bytes : Bytes, format : 0..2]
  BY DEF Machine
<1> HIDE DEF kept
<1>3. unstaged \in Machine /\ Unmoved(m, unstaged)
  BY <1>2, BackupsChange, FieldsUnmoved
<1>4. Finally(m) = unstaged \/ Finally(m) = [unstaged EXCEPT !.runtime = Absent]
  BY <1>1 DEF Finally
<1> HIDE DEF unstaged
<1>5. Unmoved(unstaged, [unstaged EXCEPT !.runtime = Absent])
  BY <1>3, FieldsUnmoved
<1> QED BY <1>3, <1>4, <1>5 DEF Unmoved

\* A convergence whose script is over did all that it was still going to do.
LEMMA EndPhaseOwner ==
  ASSUME InstallInv, OwnerInv, EndPhase
  PROVE  OwnerInv'
<1>1. /\ phase # "rest" /\ script = <<>> /\ tx' = tx
      /\ \/ phase = "forward" /\ Rest("ok") /\ machine' = machine
         \/ machine' = Finally(machine) /\ phase' = "mend"
         \/ machine' = machine /\ phase' = "hand-back"
         \/ machine' = machine /\ Rest("failed")
  BY DEF EndPhase
<1>2. Unmoved(machine, machine')
  <2>1. Unmoved(machine, machine)
    BY DEF Unmoved
  <2> QED BY <1>1, <2>1, Bounds, FinallyUnmoved
<1>3. /\ machine'.platform = machine.platform /\ tx'.before = tx.before
      /\ \A l \in LegacySet : machine'.defined[l] # 0 => l \in machine'.listed
  BY <1>1, <1>2 DEF OwnerInv, Unmoved
<1>4. CASE phase = "forward" /\ Rest("ok") /\ machine' = machine
  <2>1. phase' = "rest" /\ phase' # "forward" /\ (Converges' <=> Converges) /\ (StartsAtBoot' <=> StartsAtBoot)
    BY <1>1, <1>4 DEF Rest, Converges, StartsAtBoot
  <2>2. \A G : ~Has(script, G)
    BY <1>1 DEF Has
  <2>3. Converges => /\ \A l \in LegacySet : machine'.defined[l] = 0
                     /\ StartsAtBoot => machine'.defined[Canonical] # 0 /\ Canonical \in machine'.enabled
    BY <1>4, <2>2 DEF OwnerInv
  <2>4. machine'.platform = tx'.before.platform
    BY <1>3 DEF OwnerInv
  <2> QED BY <1>3, <2>1, <2>3, <2>4 DEF OwnerInv
<1>5. CASE phase' = "mend" \/ phase' = "hand-back" \/ Rest("failed")
  <2>1. phase' \notin {"forward", "rest"} \/ (phase' = "rest" /\ outcome' # "ok")
    BY <1>5 DEF Rest
  <2> QED BY <1>3, <2>1, OwnerOtherwise
<1> QED BY <1>1, <1>4, <1>5

LEMMA AroundOwner ==
  ASSUME InstallInv, OwnerInv, Around
  PROVE  OwnerInv'
<1>1. phase = "rest" /\ tx' = tx /\ phase' = phase /\ outcome' = outcome
  BY DEF Around
<1>2. Unmoved(machine, machine')
  <2>1. CASE machine' \in Booted(machine)
    <3> DEFINE able == {s \in machine.enabled : machine.defined[s] # 0}
    <3>1. PICK s \in (IF able = {} THEN {None} ELSE able) :
            machine' = [machine EXCEPT !.running = s,
                                       !.loaded = IF machine.platform = "darwin" THEN able ELSE {}]
      BY <2>1 DEF Booted
    <3> HIDE DEF able
    <3> QED BY <3>1, Bounds DEF Machine, Unmoved
  <2>2. CASE \E holder \in {None, Other} : machine' = [machine EXCEPT !.running = holder]
    BY <2>2, Bounds DEF Machine, Unmoved
  <2> QED BY <2>1, <2>2 DEF Around
<1>3. /\ (Converges' <=> Converges) /\ (StartsAtBoot' <=> StartsAtBoot)
      /\ machine'.platform = machine.platform /\ machine'.defined = machine.defined
      /\ machine'.enabled = machine.enabled /\ machine'.listed = machine.listed
  BY <1>1, <1>2 DEF Converges, StartsAtBoot, Unmoved
<1>4. phase' # "forward"
  BY <1>1
<1> QED BY <1>1, <1>3, <1>4 DEF OwnerInv

\* Every legacy service that is listed is one that the transaction replaces.
LEMMA ListedAreReplaced ==
  ASSUME NEW kind, NEW target, NEW version, NEW prior, NEW restart, NEW m \in Machine,
         NEW t, t = Begun(kind, target, version, prior, restart, m), NEW l \in m.listed
  PROVE  Among(l, t.legacy)
<1> DEFINE chosen == [i \in DOMAIN Legacies |-> Only(Legacies[i] \in m.listed, <<Legacies[i]>>)]
<1>1. Legacies \in Seq(LegacySet) /\ l \in LegacySet
  BY TargetsAssumption DEF Machine
<1>2. Len(Legacies) \in Nat /\ DOMAIN Legacies = 1..Len(Legacies)
      /\ \A i \in 1..Len(Legacies) : Legacies[i] \in LegacySet
  BY <1>1, LenProperties, ElementOfSeq
<1>3. \A i \in 1..Len(Legacies) : <<Legacies[i]>> \in Seq(LegacySet)
  BY <1>2
<1>4. \A i \in 1..Len(Legacies) : chosen[i] \in Seq(LegacySet)
  BY <1>2, <1>3, OnlyFits
<1>5. chosen = [i \in 1..Len(Legacies) |-> chosen[i]]
  BY <1>2
<1>6. PICK k \in 1..Len(Legacies) : Legacies[k] = l
  BY <1>1, <1>2 DEF LegacySet
<1>7. Has(chosen[k], {l})
  <2>1. chosen[k] = <<l>>
    BY <1>2, <1>6 DEF Only
  <2> HIDE DEF chosen
  <2> QED BY <2>1 DEF Has
<1>8. t.legacy = FlattenSeq(chosen)
  BY DEF Begun, Each, Where
<1> HIDE DEF chosen
<1>9. \A i \in 1..Len(Legacies) : chosen[i] \in Seq(LegacySet) /\ Guarded(chosen[i], LegacySet, {l})
  BY <1>4, GuardedByNone
<1>10. Has(FlattenSeq(chosen), {l})
  BY <1>2, <1>5, <1>7, <1>9, PartsGuarded
<1> QED BY <1>8, <1>10 DEF Has, Among

\* A convergence starts the canonical service only where its definition is.
LEMMA StartedIsDefined ==
  ASSUME NEW m \in Machine, NEW version, NEW protocol, UpdateStatus(m, version, protocol) \in {"newer", "current"},
         Unverified(m) = {}
  PROVE  m.defined[Canonical] # 0
<1> DEFINE record == ReadRecord(m)
           candidates == {r \in {record, m.previous} : r # None /\ (r = record \/ record.state = "installing")}
           unlisted == {s \in m.listed : m.defined[s] = 0}
<1>1. record # None
  BY DEF UpdateStatus
<1>2. unlisted \cup (IF record # None /\ ~ \E r \in candidates : Owns(m, r) THEN {Canonical} ELSE {}) = {}
  BY DEF Unverified
<1> HIDE DEF record, candidates, unlisted
<1>3. \E r \in candidates : Owns(m, r)
  BY <1>1, <1>2
<1> QED BY <1>3 DEF Owns

\* What is begun and what is undertaken say the same.
LEMMA UndertakenIs ==
  ASSUME machine \in Machine, NEW t \in Transaction, Undertake(t)
  PROVE  /\ tx'.kind = t.kind /\ tx'.prior = t.prior /\ tx'.restart = t.restart /\ tx'.before = t.before
         /\ machine' = machine /\ script' = Script(t) /\ phase' = "forward"
<1>1. /\ tx' = [t EXCEPT !.unsure = tx.unsure] /\ machine' = machine /\ script' = Script(t) /\ phase' = "forward"
  BY DEF Undertake
<1>2. tx'.kind = t.kind /\ tx'.prior = t.prior /\ tx'.restart = t.restart
  BY <1>1 DEF Transaction
<1>3. tx'.before = t.before
  BY <1>1 DEF Transaction
<1> QED BY <1>1, <1>2, <1>3

LEMMA ConvergeOwner ==
  ASSUME InstallInv, OwnerInv, Converge
  PROVE  OwnerInv'
<1>1. PICK cli \in Versions, direct \in BOOLEAN, restart \in BOOLEAN :
        LET version == Promoted(cli)
            status == UpdateStatus(machine, version, Speaks[cli])
            starts == status = "newer" \/ (status = "current" /\ ~direct)
            kind == IF starts THEN "start" ELSE IF machine.listed = {} THEN "install" ELSE "replace"
            prior == IF starts THEN ReadRecord(machine) ELSE PreviousOwner(machine)
        IN  /\ Unverified(machine) = {}
            /\ Undertake(Begun(kind, Canonical, version, prior, restart, machine))
  BY DEF Converge
<1> DEFINE version == Promoted(cli)
           status == UpdateStatus(machine, version, Speaks[cli])
           starts == status = "newer" \/ (status = "current" /\ ~direct)
           kind == IF starts THEN "start" ELSE IF machine.listed = {} THEN "install" ELSE "replace"
           prior == IF starts THEN ReadRecord(machine) ELSE PreviousOwner(machine)
           t == Begun(kind, Canonical, version, prior, restart, machine)
           p == machine.platform
<1>2. Unverified(machine) = {} /\ Undertake(t)
  BY <1>1
<1>3. machine \in Machine /\ version \in Versions
  BY Bounds, PromotedFits
<1>4. /\ kind \in Kinds /\ prior \in Record \cup {None} /\ Canonical \in Service /\ version \in Versions \cup {0}
      /\ kind \in {"start", "install", "replace"}
  <2>1. kind \in {"start", "install", "replace"} /\ prior \in {ReadRecord(machine), PreviousOwner(machine)}
    OBVIOUS
  <2> HIDE DEF kind, prior, version
  <2> QED BY <1>3, <2>1, RecordRead DEF Kinds, Service
<1>5. kind = "start" => machine.defined[Canonical] # 0
  <2>1. kind = "start" => status \in {"newer", "current"}
    OBVIOUS
  <2> HIDE DEF kind, version
  <2> QED BY <1>2, <1>3, <2>1, StartedIsDefined
<1>6. kind = "install" => machine.listed = {}
  OBVIOUS
<1> HIDE DEF version, status, starts, kind, prior
<1>7. t \in Transaction /\ t.kind = kind /\ t.restart = restart
  BY <1>3, <1>4, BegunFits
<1>8. t.before = machine
  BY DEF Begun
<1>9. \A l \in machine.listed : Among(l, t.legacy)
  BY <1>3, ListedAreReplaced
<1> HIDE DEF t
<1>10. /\ tx'.kind = kind /\ tx'.prior = t.prior /\ tx'.restart = restart /\ tx'.before = machine
       /\ machine' = machine /\ script' = Script(t) /\ phase' = "forward"
  BY <1>2, <1>3, <1>7, <1>8, UndertakenIs
<1>11. /\ \A l \in LegacySet : Owned(Script(t), t.prior, l)
       /\ kind \in {"replace", "start"} =>
            \A l \in LegacySet : Among(l, t.legacy) => Has(Script(t), Undefines(l, t.prior))
       /\ kind \in {"install", "replace"} => Defined(Script(t), t.prior) /\ EnabledAtBoot(Script(t), p, t.prior)
       /\ kind = "start" => /\ Script(t) \in Seq(Keeps(Defining, t.prior))
                            /\ restart /\ p # "linux" => EnabledAtBoot(Script(t), p, t.prior)
  BY <1>7, <1>8, ScriptOwns
<1>12. ASSUME NEW l \in LegacySet, machine'.defined[l] # 0
       PROVE  /\ l \in machine'.listed
              /\ Owned(script', tx'.prior, l) /\ Has(script', Undefines(l, tx'.prior))
  <2>1. l \in machine.listed
    BY <1>10, <1>12 DEF OwnerInv
  <2>2. Among(l, t.legacy) /\ kind # "install"
    BY <1>6, <1>9, <2>1
  <2>3. Owned(Script(t), t.prior, l) /\ Has(Script(t), Undefines(l, t.prior))
    BY <1>4, <1>11, <2>2
  <2> QED BY <1>10, <2>1, <2>3
<1>13. ASSUME StartsAtBoot'
       PROVE  /\ Settled(script', Upholds(tx'.prior), Enables(machine'.platform, tx'.prior))
              /\ Canonical \in machine'.enabled \/ Has(script', Enables(machine'.platform, tx'.prior))
              /\ IF tx'.kind = "start"
                 THEN machine'.defined[Canonical] # 0 /\ script' \in Seq(Keeps(Defining, tx'.prior))
                 ELSE /\ Settled(script', Keeps(Defining, tx'.prior), Defines(tx'.prior))
                      /\ machine'.defined[Canonical] # 0 \/ Has(script', Defines(tx'.prior))
  <2>1. kind # "start" \/ (p # "linux" /\ restart)
    BY <1>10, <1>13 DEF StartsAtBoot
  <2>2. EnabledAtBoot(Script(t), p, t.prior)
    BY <1>4, <1>11, <2>1
  <2>3. CASE kind = "start"
    BY <1>5, <1>10, <1>11, <2>2, <2>3 DEF EnabledAtBoot
  <2>4. CASE kind # "start"
    <3>1. Defined(Script(t), t.prior)
      BY <1>4, <1>11, <2>4
    <3> QED BY <1>10, <2>2, <2>4, <3>1 DEF EnabledAtBoot, Defined
  <2> QED BY <2>3, <2>4
<1>14. phase' # "rest" /\ machine'.platform = tx'.before.platform
  BY <1>10
<1> QED BY <1>12, <1>13, <1>14 DEF OwnerInv

\* Neither a start of a legacy service nor an uninstallation converges.
LEMMA OthersOwner ==
  ASSUME InstallInv, OwnerInv, StartOwned \/ Uninstall
  PROVE  OwnerInv'
<1>1. PICK kind \in {"start-owned", "uninstall"}, target \in Service, version \in Versions \cup {0},
           prior \in Record \cup {None}, restart \in {TRUE} :
        Undertake(Begun(kind, target, version, prior, restart, machine))
  BY OthersBegin
<1> DEFINE t == Begun(kind, target, version, prior, restart, machine)
<1>2. t \in Transaction /\ t.kind = kind
  <2>1. kind \in Kinds /\ restart \in BOOLEAN /\ machine \in Machine
    BY Bounds DEF Kinds
  <2>2. t = Begun(kind, target, version, prior, restart, machine)
    OBVIOUS
  <2> HIDE DEF t
  <2>3. \A k \in Kinds, r \in BOOLEAN :
          t = Begun(k, target, version, prior, r, machine) => t \in Transaction /\ t.kind = k
    BY <2>1, BegunFits
  <2> QED BY <2>1, <2>2, <2>3
<1>3. t.before = machine
  BY DEF Begun
<1>4. Undertake(t)
  BY <1>1
<1> HIDE DEF t
<1>5. /\ tx'.kind = kind /\ tx'.prior = t.prior /\ tx'.before = machine
      /\ machine' = machine /\ script' = Script(t) /\ phase' = "forward"
  BY <1>2, <1>3, <1>4, Bounds, UndertakenIs
<1>6. ~Converges'
  BY <1>5 DEF Converges
<1>7. \A l \in LegacySet : Owned(script', tx'.prior, l)
  BY <1>2, <1>5, ScriptOwns
<1>8. \A l \in LegacySet : machine'.defined[l] # 0 => l \in machine'.listed
  BY <1>5 DEF OwnerInv
<1>9. machine'.platform = tx'.before.platform
  BY <1>5
<1> QED BY <1>6, <1>7, <1>8, <1>9 DEF OwnerInv

LEMMA OwnerInit ==
  ASSUME InstallInit
  PROVE  OwnerInv
<1>1. /\ machine \in Beginnings /\ phase = "rest" /\ outcome = "none"
      /\ tx = Begun("start", Canonical, 0, None, TRUE, machine)
  BY DEF InstallInit
<1>2. tx.before = machine
  BY <1>1 DEF Begun
<1>3. \A l \in LegacySet : machine.defined[l] # 0 => l \in machine.listed
  <2>1. {s \in LegacySet : machine.defined[s] # 0} \subseteq machine.listed
    BY <1>1, TransactionsAssumption
  <2> QED BY <2>1
<1> QED BY <1>1, <1>2, <1>3 DEF OwnerInv

LEMMA OwnerNext ==
  ASSUME InstallInv, OwnerInv, InstallNext
  PROVE  OwnerInv'
<1>1. CASE SkipStep
  BY <1>1, SkipStepOwner
<1>2. CASE Succeed
  BY <1>2, SucceedOwner
<1>3. CASE Fail
  BY <1>3, FailOwner
<1>4. CASE Killed
  BY <1>4, KilledOwner
<1>5. CASE EndPhase
  BY <1>5, EndPhaseOwner
<1>6. CASE Converge
  BY <1>6, ConvergeOwner
<1>7. CASE StartOwned \/ Uninstall
  BY <1>7, OthersOwner
<1>8. CASE Around
  BY <1>8, AroundOwner
<1> QED BY <1>1, <1>2, <1>3, <1>4, <1>5, <1>6, <1>7, <1>8 DEF InstallNext

LEMMA OwnerIsAlone ==
  ASSUME InstallInv, OwnerInv
  PROVE  OneOwnerAtBoot
<1> SUFFICES ASSUME phase = "rest", outcome = "ok", Converges
             PROVE  /\ {s \in machine.enabled : machine.defined[s] # 0} \subseteq {Canonical}
                    /\ StartsAtBoot => {s \in machine.enabled : machine.defined[s] # 0} = {Canonical}
  BY DEF OneOwnerAtBoot, Converges, StartsAtBoot
<1>1. /\ \A l \in LegacySet : machine.defined[l] = 0
      /\ StartsAtBoot => machine.defined[Canonical] # 0 /\ Canonical \in machine.enabled
  BY DEF OwnerInv
<1>2. machine.enabled \subseteq {Canonical} \cup LegacySet
  BY Bounds DEF Machine, Service
<1> QED BY <1>1, <1>2

\* After a convergence that succeeds, whatever was interrupted before it and
\* whichever of its commands failed without stopping it, the canonical service
\* alone starts at boot: no legacy service keeps a definition, since each that
\* has one has a record too and is therefore replaced, and what the script does
\* behind the command that enables the canonical service disables it no more.
THEOREM OneOwnerStarts == InstallSpec => []OneOwnerAtBoot
<1>1. InstallInit => OwnerInv
  BY OwnerInit
<1>2. InstallInv /\ OwnerInv /\ [InstallNext]_installVars => OwnerInv'
  <2> SUFFICES ASSUME InstallInv, OwnerInv, [InstallNext]_installVars PROVE OwnerInv'
    OBVIOUS
  <2>1. CASE InstallNext
    BY <2>1, OwnerNext
  <2>2. CASE UNCHANGED installVars
    BY <2>2 DEF installVars, OwnerInv, Converges, StartsAtBoot
  <2> QED BY <2>1, <2>2
<1>3. InstallInv /\ OwnerInv => OneOwnerAtBoot
  BY OwnerIsAlone
<1> QED BY <1>1, <1>2, <1>3, InstallInvariance, PTL DEF InstallSpec
=============================================================================
