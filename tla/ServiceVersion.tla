---------------------------- MODULE ServiceVersion ----------------------------
(***************************************************************************)
(* The order of package versions, which decides whether an installed       *)
(* service is updated, promoted or refused (service-version.ts).  A        *)
(* version is its three numbers and its pre-release identifiers; an        *)
(* identifier is the sequence of its characters, told by their codes.      *)
(* Build metadata is dropped by the parser and left out.                   *)
(***************************************************************************)
EXTENDS Integers, Sequences, FiniteSetsExt

CONSTANTS
  Candidates, \* the versions that are compared
  Digits,     \* the codes of the digits that identifiers use, "0" being 0
  MaxSafe,    \* Number.MAX_SAFE_INTEGER
  Release,    \* the pre-release of a version that has none
  Incomparable

Identifier == Seq(Int) \ {<<>>}
Version == [core : Seq(Nat), prerelease : {Release} \cup Seq(Identifier)]

ASSUME VersionAssumption ==
  /\ Digits \subseteq 0..9 /\ MaxSafe \in Nat /\ Incomparable \notin Int
  /\ Candidates \subseteq Version
  /\ \A v \in Candidates : Len(v.core) = 3 /\ v.prerelease # <<>>

VARIABLES left, right
versionVars == <<left, right>>

OnlyDigits(identifier) == \A i \in DOMAIN identifier : identifier[i] \in Digits
IsNumeric(identifier) == OnlyDigits(identifier) /\ (Len(identifier) > 1 => identifier[1] # 0)

\* parseServiceVersion gives null to a number too large and to a leading zero.
Parses(version) ==
  /\ \A i \in 1..3 : version.core[i] <= MaxSafe
  /\ version.prerelease # Release =>
       \A i \in DOMAIN version.prerelease :
         OnlyDigits(version.prerelease[i]) => IsNumeric(version.prerelease[i])

Sign(lower) == IF lower THEN -1 ELSE 1

\* Where two sequences differ first, a missing element included.
FirstDifference(a, b) ==
  Min({i \in 1..Max({Len(a), Len(b)}) : i > Len(a) \/ i > Len(b) \/ a[i] # b[i]})

\* The order of strings: by their first different character.
TextBefore(a, b) ==
  LET i == FirstDifference(a, b) IN i > Len(a) \/ (i <= Len(b) /\ a[i] < b[i])

\* Mistake to be caught: numeric identifiers are compared like text.
CompareAsText(a, b) ==
  CASE a = b                       -> 0
    [] IsNumeric(a) # IsNumeric(b) -> Sign(IsNumeric(a))
    [] OTHER                       -> Sign(TextBefore(a, b))

ComparePrereleaseIdentifier(a, b) ==
  CASE a = b                                             -> 0
    [] IsNumeric(a) /\ IsNumeric(b) /\ Len(a) # Len(b)   -> Sign(Len(a) < Len(b))
    [] IsNumeric(a) # IsNumeric(b)                       -> Sign(IsNumeric(a))
    [] OTHER                                             -> Sign(TextBefore(a, b))

ComparePrerelease(a, b) ==
  IF a = b THEN 0
  ELSE IF Release \in {a, b} THEN Sign(b = Release)
  ELSE LET i == FirstDifference(a, b) IN
       IF i > Len(a) \/ i > Len(b) THEN Sign(i > Len(a))
                                   ELSE ComparePrereleaseIdentifier(a[i], b[i])

CompareServiceVersions(a, b) ==
  IF ~Parses(a) \/ ~Parses(b) THEN Incomparable
  ELSE IF a.core # b.core THEN Sign(TextBefore(a.core, b.core))
  ELSE ComparePrerelease(a.prerelease, b.prerelease)

VersionInit == left \in Candidates /\ right \in Candidates

(***************************************************************************)
(* Properties.                                                             *)
(***************************************************************************)
Value(digits) == LET value[n \in 0..Len(digits)] == IF n = 0 THEN 0 ELSE 10 * value[n - 1] + digits[n]
                 IN  value[Len(digits)]

\* What semantic versioning says of two identifiers: numbers by their value and
\* below words.
IdentifierBelow(a, b) ==
  IF IsNumeric(a) /\ IsNumeric(b) THEN Value(a) < Value(b)
  ELSE IsNumeric(a) \/ (~IsNumeric(b) /\ TextBefore(a, b))

\* Versions that parse are in a total order, whichever of the two is named
\* first, that puts pre-releases below their release, orders identifiers as
\* semantic versioning does, and does not depend on what lies between: so the
\* newest of several services is one (service-version.ts, and selectCompatible-
\* NewerInstallation, which sorts by it).
VersionOrder ==
  LET order == CompareServiceVersions(left, right)
      AtMost(a, b) == CompareServiceVersions(a, b) \in {-1, 0}
  IN  /\ order = Incomparable <=> ~Parses(left) \/ ~Parses(right)
      /\ order # Incomparable =>
           /\ order = -CompareServiceVersions(right, left)
           /\ order = 0 <=> left = right
           /\ left.core = right.core /\ left.prerelease = Release => order \in {0, 1}
           /\ \A middle \in Candidates : AtMost(left, middle) /\ AtMost(middle, right) => AtMost(left, right)
           /\ /\ left.core = right.core /\ Release \notin {left.prerelease, right.prerelease}
              /\ Len(left.prerelease) = 1 /\ Len(right.prerelease) = 1 /\ left # right
              => (order = -1 <=> IdentifierBelow(left.prerelease[1], right.prerelease[1]))
=============================================================================
