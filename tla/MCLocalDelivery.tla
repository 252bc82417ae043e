--------------------------- MODULE MCLocalDelivery ---------------------------
(***************************************************************************)
(* Instances of LocalDelivery for TLC: two profiles on one hub, the        *)
(* receiver's profile worked on by two processes at once.                  *)
(***************************************************************************)
EXTENDS LocalDelivery, TLC

CONSTANTS alice, bob, m1, m2, m3, syncA, syncB1, syncB2, clientA, clientB

MCNodes == {alice, bob}
MCFrom == [m \in Messages |-> IF m = m3 THEN bob ELSE alice]
MCTo == [m \in Messages |-> CASE m = m1 -> bob [] m = m2 -> Everyone [] m = m3 -> alice]
MCNodeOf == [t \in Tasks |-> IF t \in {syncA, clientA} THEN alice ELSE bob]
\* The two syncers of bob's profile run the same code on the same store.
SyncerSymmetry == Permutations({syncB1, syncB2})

\* After a crash neither a pause nor an expired message is followed.
Short == crashes > 0 => mode # "paused" /\ \A n \in Nodes : expired[n] = {}
=============================================================================
