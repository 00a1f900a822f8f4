-------------------------- MODULE MCBalanceService --------------------------
(* Instances of the balance service for TLC. *)
EXTENDS BalanceServiceBooks, TLC

CONSTANTS alice, bob, p1, p2, p3, s1, k1, q1, q2

\* alice may owe the node up to 3 and has no settlement settings; bob may owe
\* it 1 and is settled from 3 down to -2, below his limit, as in the fixture of
\* the Redis store's tests.
MCMinBalance == alice :> -3 @@ bob :> -1
MCThreshold  == alice :> None @@ bob :> 3
MCSettleTo   == alice :> None @@ bob :> -2
MCEngine     == alice :> FALSE @@ bob :> TRUE

\* For the timed runs: bob alone is settled, at a threshold that two packets
\* reach and one does not, and nobody has a limit.
MCClearThreshold == [a \in Accounts |-> IF a = bob THEN 4 ELSE None]
MCClearSettleTo  == [a \in Accounts |-> IF a = bob THEN 0 ELSE None]
MCNoLimit        == [a \in Accounts |-> None]
MCBobsEngine     == [a \in Accounts |-> a = bob]

\* Settled to below 0, which a balance of 0 is over.
MCTimedSettleTo  == [a \in Accounts |-> IF a = bob THEN -1 ELSE None]

PacketSymmetry == Permutations(Packets)
=============================================================================
