---------------------------- MODULE MCMembership ----------------------------
(***************************************************************************)
(* Two nodes, the first with two processes, a hub file and two relays, and *)
(* channels that have one name.                                            *)
(***************************************************************************)
EXTENDS Membership, TLC

CONSTANTS alice, bob, session, daemon, peer, lead, worker, hub, relay, other, demo, c1, i1

MCNodeOf == [p \in Procs |-> IF p = peer THEN bob ELSE alice]
MCSymmetry == Permutations(Procs \ {peer}) \cup Permutations(Aliases)
=============================================================================
