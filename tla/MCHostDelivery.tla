--------------------------- MODULE MCHostDelivery ---------------------------
(***************************************************************************)
(* Small instances of HostDelivery: two contents of one length and a       *)
(* longer one, two offers of the file and two uploads.                     *)
(***************************************************************************)
EXTENDS HostDelivery, TLC

CONSTANTS o1, o2, u1, u2, a, b, long

TwoOffers   == {o1, o2}
TwoUploads  == {u1, u2}
AnyContent  == {a, b, long}
Sizes       == [c \in Contents |-> IF c = long THEN 2 ELSE 1]
Symmetry    == Permutations(Offers) \cup Permutations(Uploads) \cup Permutations({a, b})
=============================================================================
