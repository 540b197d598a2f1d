--------------------------- MODULE MCReleaseCheck ---------------------------
(***************************************************************************)
(* Small instances of ReleaseCheck and of SemVer: two Companions, two      *)
(* releases, and versions with three digits, numbers up to two digits, a   *)
(* hyphen, one letter and pre-releases of up to two identifiers.           *)
(***************************************************************************)
EXTENDS ReleaseCheck, TLC

CONSTANTS c1, c2

TwoCompanions == {c1, c2}
Symmetry      == Permutations(Companions)

\* 0, 2, 10, 22, 00, 02, 100 and 101 (too large), a hyphen, a letter, letters with
\* digits before and after.
Identifiers == {<<1>>, <<3>>, <<2, 1>>, <<3, 3>>, <<1, 1>>, <<1, 3>>, <<2, 1, 1>>,
                <<2, 1, 2>>, <<0>>, <<4>>, <<2, 4>>, <<4, 2>>}
PreReleases == {<<>>} \cup {<<s>> : s \in Identifiers}
               \cup {<<s, t>> : s \in {<<3>>, <<4>>}, t \in {<<1>>, <<2, 1>>, <<0, 1>>, <<4>>}}
Cores       == {<<0, 0, 1>>, <<0, 1, 0>>}
SomeVersions == {[core |-> c, pre |-> p] : c \in Cores, p \in PreReleases}
                \cup {[core |-> <<1, 0, 0>>, pre |-> <<>>]}

Stable(core)     == [core |-> core, pre |-> <<>>]
SomeReleases     == <<Stable(<<0, 0, 1>>), Stable(<<0, 1, 0>>)>>
ReleaseCandidate == [core |-> <<0, 1, 0>>, pre |-> <<<<4>>, <<1>>>>]
=============================================================================
