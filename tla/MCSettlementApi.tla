--------------------------- MODULE MCSettlementApi --------------------------
(* Instances of the settlement endpoint for TLC. *)
EXTENDS SettlementApi, TLC

CONSTANTS r1, r2, r3, k1, k2

\* The hash of a quantity in scale 2 is not text.
MCTextHashes == [num : Amounts, scale : {0, 3}]

Symmetry == Permutations(Requests) \cup Permutations(Keys)
=============================================================================
