--------------------------- MODULE MCStreamPayment --------------------------
(* Instances of a STREAM payment for TLC. *)
EXTENDS StreamPayment

\* The network's rate is the sender's, or below what it accepts.
MCPathRates == {<<2, 3>>, <<1, 2>>}

\* A node that takes packets of 3, and one whose unit is finer and whose
\* maximum is less than one unit of the sender.
MCLimits == {<<3, 1>>, <<2, 4>>}
=============================================================================
