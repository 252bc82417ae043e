--------------------------- MODULE MCRuntimeHost ---------------------------
(***************************************************************************)
(* One application in two versions, a registration, a daemon and its       *)
(* successor, two command lines.                                           *)
(***************************************************************************)
EXTENDS RuntimeHost, TLC

CONSTANTS r1, c1, c2, d1, d2, sh1, sh2

MCCarries == [i \in Ids |-> Channels]
MCHarness == [i \in Ids |-> "auto"]

\* Two daemons together are followed for a shorter history of commands.
LateBound == 2
Short == (\A b \in Boots : daemon[b].pc # "new") => commands <= LateBound

Symmetric == Permutations(Clis) \cup Permutations(Boots) \cup Permutations(Channels)
=============================================================================
