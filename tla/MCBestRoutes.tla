---------------------------- MODULE MCBestRoutes ----------------------------
(* Instances of the route selection for TLC. *)
EXTENDS BestRoutes, TLC

CONSTANTS peer1, peer2, pA, pAB, pX, pY, t1, t2

\* Two peers; pAB is a longer prefix than pA.
MCRelation == [acc \in Accounts |-> 1]
MCIdOrder  == [acc \in Accounts |-> IF acc = peer1 THEN 0 ELSE 1]
MCAddress  == [acc \in Accounts |-> IF acc = peer1 THEN pX ELSE pY]
MCAbove    == [p \in Destinations |-> IF p = pAB THEN {pA, pAB} ELSE {p}]
MCLength   == [p \in Destinations |-> IF p = pAB THEN 2 ELSE 1]

\* peer2's path may be the shorter one.
MCLengths  == [acc \in Accounts |-> IF acc = peer1 THEN {2} ELSE {1, 2}]

\* peer2 for all prefixes below pA.
MCStaticRoutes == {[p \in Destinations |-> IF p = pA THEN peer2 ELSE None]}

Symmetry == Permutations(Tasks)
=============================================================================
