------------------------------- MODULE SemVer -------------------------------
(***************************************************************************)
(* release.Compare, by which setup, upgrade and the release notice decide  *)
(* which of two versions is newer.  A version is three numbers and a       *)
(* pre-release, a sequence of identifiers; an identifier is a sequence of  *)
(* characters, ranked as bytes are: the hyphen, then the digits, then the  *)
(* letters.  The model counts in a small base and with a small word.       *)
(***************************************************************************)
EXTENDS Integers, Sequences

CONSTANTS
    Base,      \* the number of digits
    Letters,   \* the number of letters
    MaxUint,   \* the largest value ParseUint takes
    Versions   \* the versions to compare, as the pattern semanticTag takes them

Digits     == 1..Base
Characters == 0..(Base + Letters)   \* 0 is the hyphen
ASSUME CountsAssumption == Base \in Nat \ {0, 1} /\ Letters \in Nat /\ MaxUint \in Nat
ASSUME VersionsAssumption ==
    Versions \subseteq [core : [1..3 -> 0..MaxUint], pre : Seq(Seq(Characters) \ {<<>>})]
-----------------------------------------------------------------------------
(* The helpers.                                                            *)

\* -1, 0 or 1, as x is below, at or above y.
Sign(x, y) == IF x < y THEN -1 ELSE IF x > y THEN 1 ELSE 0

\* The first place where two sequences differ, or 0: what a loop that returns at
\* the first difference finds.
FirstDifference(s, t) ==
    LET D == {k \in DOMAIN s \cap DOMAIN t : s[k] # t[k]}
    IN  IF D = {} THEN 0 ELSE CHOOSE k \in D : \A j \in D : k <= j

\* Go's string comparison.
TextCompare(s, t) ==
    LET k == FirstDifference(s, t)
    IN  IF k = 0 THEN Sign(Len(s), Len(t)) ELSE Sign(s[k], t[k])

IsDigits(s) == \A k \in DOMAIN s : s[k] \in Digits

\* The value of a sequence of digits.
Value(s) ==
    LET f[k \in 0..Len(s)] == IF k = 0 THEN 0 ELSE f[k - 1] * Base + (s[k] - 1)
    IN  f[Len(s)]

\* numericIdentifier: no leading zero, and a value ParseUint takes.
IsNumeric(s) ==
    /\ ~(Len(s) > 1 /\ s[1] = 1)
    /\ IsDigits(s) /\ Value(s) <= MaxUint

\* Mutant of CompareIdentifiers: only two numbers are no text.
CompareMixedAsText(s, t) ==
    IF IsNumeric(s) /\ IsNumeric(t) THEN Sign(Value(s), Value(t)) ELSE TextCompare(s, t)

CompareIdentifiers(s, t) ==
    CASE IsNumeric(s) /\ IsNumeric(t) -> Sign(Value(s), Value(t))
      [] IsNumeric(s) /\ ~IsNumeric(t) -> -1
      [] ~IsNumeric(s) /\ IsNumeric(t) -> 1
      [] OTHER -> TextCompare(s, t)

\* No pre-release is newer than any; then identifier by identifier, and one that
\* goes on is newer.
ComparePre(p, q) ==
    LET D == {k \in DOMAIN p \cap DOMAIN q : CompareIdentifiers(p[k], q[k]) # 0}
    IN  IF p = <<>> \/ q = <<>> THEN Sign(Len(q), Len(p))
        ELSE IF D = {} THEN Sign(Len(p), Len(q))
        ELSE LET k == CHOOSE k \in D : \A j \in D : k <= j
             IN  CompareIdentifiers(p[k], q[k])

Compare(v, w) ==
    LET k == FirstDifference(v.core, w.core)
    IN  IF k # 0 THEN Sign(v.core[k], w.core[k]) ELSE ComparePre(v.pre, w.pre)
-----------------------------------------------------------------------------
(***************************************************************************)
(* Properties.                                                             *)
(***************************************************************************)
\* Semantic Versioning 2.0.0, rule 11, for the identifiers it allows: numbers
\* below text, numbers by value, text byte by byte, and a longer pre-release above
\* the one it begins with.
Number(s) == IsDigits(s)
Legal(v)  == \A k \in DOMAIN v.pre : Number(v.pre[k]) => IsNumeric(v.pre[k])

LowerIdentifier(s, t) ==
    \/ Number(s) /\ ~Number(t)
    \/ Number(s) /\ Number(t) /\ Value(s) < Value(t)
    \/ ~Number(s) /\ ~Number(t) /\ TextCompare(s, t) = -1

LowerPre(p, q) ==
    \/ p # <<>> /\ q = <<>>
    \/ /\ p # <<>> /\ q # <<>>
       /\ \E n \in 0..Len(p) :
            /\ n <= Len(q) /\ \A k \in 1..n : p[k] = q[k]
            /\ \/ n = Len(p) /\ n < Len(q)
               \/ n < Len(p) /\ n < Len(q) /\ LowerIdentifier(p[n + 1], q[n + 1])

Lower(v, w) ==
    \/ \E n \in 1..3 : v.core[n] < w.core[n] /\ \A k \in 1..(n - 1) : v.core[k] = w.core[k]
    \/ v.core = w.core /\ LowerPre(v.pre, w.pre)

\* "Compare follows SemVer precedence", for the versions SemVer allows and whose
\* numbers fit a word.
FollowsSemVer ==
    \A v, w \in Versions : Legal(v) /\ Legal(w) =>
        Compare(v, w) = CASE Lower(v, w) -> -1 [] Lower(w, v) -> 1 [] OTHER -> 0

\* The answer does not depend on the order in which versions are compared: it is
\* the sign of one total order.
IsOrder ==
    \A v, w, x \in Versions :
        /\ Compare(v, w) = 0 - Compare(w, v)
        /\ Compare(v, w) = 0 <=> v = w
        /\ Compare(v, w) <= 0 /\ Compare(w, x) <= 0 => Compare(v, x) <= 0

\* Compare orders every version the pattern takes, numbers with leading zeros and
\* numbers too large for a word included, and orders those that SemVer knows as
\* SemVer does.
OrdersAsSemVer == FollowsSemVer /\ IsOrder
=============================================================================
