---------------------------- MODULE MCRelayHome ----------------------------
(***************************************************************************)
(* An instance of RelayHome for TLC: a founder and one peer that join by   *)
(* invite or by the public door, talk, leave and come back.  The peer also *)
(* talks through the A2A gateway.                                          *)
(***************************************************************************)
EXTENDS RelayHome

CONSTANTS alice, bob, lead, worker, m1, m2, m3, i1

MCPair == {alice, bob}
MCSender == [m \in Messages |-> IF m = m1 THEN alice ELSE bob]
MCTarget == [m \in Messages |-> IF m = m1 THEN worker ELSE Everyone]

\* What follows two faults is followed for two messages.
LateBound == 2
Short == faults > 1 => head <= LateBound
=============================================================================
