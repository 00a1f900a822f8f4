---------------------------- MODULE MCBtpService ----------------------------
(* Instances of the BTP service for TLC. *)
EXTENDS BtpService

CONSTANTS A, B, r1, r2, r3

\* Each node relays a request to the other, and A sends one more.
MCOrigin == [r \in Requests |-> IF r = r2 THEN B ELSE A]

\* The name of an id does not matter: r3 draws r1's id, or another one.
MCDraws == [r \in Requests |-> IF r = r3 THEN {1, 2} ELSE {1}]
=============================================================================

