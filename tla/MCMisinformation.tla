--------------------------- MODULE MCMisinformation ---------------------------
(* Instances of Misinformation for TLC. *)
EXTENDS ConsensusRefinement, TLC

CONSTANTS o1, o2, o3, o4, o5, o6, r1

SixOrgs   == {o1, o2, o3, o4, o5, o6}
FiveOrgs  == {o1, o2, o3, o4, o5}
FourOrgs  == {o1, o2, o3, o4}
OneReport == {r1}
NoOrgs    == {}
Joiners   == {o4, o5}
OneTick   == 0..1

\* o4 and o5 are told apart as candidates, the others are interchangeable.
Swaps     == Permutations({o1, o2, o3}) \cup Permutations({o4, o5})
Everybody == Permutations({o1, o2, o3, o4})
=============================================================================
