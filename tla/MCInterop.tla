----------------------------- MODULE MCInterop -----------------------------
(***************************************************************************)
(* Two nodes: bo is a member under its own name, ana joins late.  ana runs *)
(* a session, bo two, one after the other or both at once, the second with *)
(* newer applications, and a server that leaves, joins again or publishes  *)
(* a card made by hand.  ana's cards bear the name "bo", also an alias.    *)
(***************************************************************************)
EXTENDS Interop

V(rank, build) == [major |-> 1, rank |-> rank, build |-> build]
S(v, floor, place) == [uri |-> "chat", version |-> v, floor |-> floor, place |-> place]
Old == V(2, "")
New == V(4, "")
Built == V(4, "b")
Newest == V(5, "")

MCNodeOf == [ana1 |-> "ana", bo1 |-> "bo", bo2 |-> "bo", boS |-> "bo"]
MCRegistry ==
    [ana1 |-> {[consumer |-> "plain", supports |-> {S(Old, Old, 0)}, channels |-> {AnyChannel}]},
     bo1  |-> {[consumer |-> "plain", supports |-> {S(Built, Old, 1), S(Old, Old, 0)}, channels |-> {AnyChannel}]},
     bo2  |-> {[consumer |-> "strict", supports |-> {S(New, New, 0)}, channels |-> {}],
               [consumer |-> "wide", supports |-> {S(Old, Old, 0)}, channels |-> {AnyChannel}]}]
MCHandCard == [name |-> "bo", extensions |-> {S(Newest, Old, 0)}]
MCFounder == [c1 |-> [ana |-> NoNode, bo |-> "bo"]]
MCIdOf == [ana |-> "id-ana", bo |-> "id-bo"]
MCNameOf == [ana |-> "bo", bo |-> "robert"]
MCRank == [ana |-> 1, bo |-> 2]

Say(n, to, v, tool) ==
    [node |-> n, channel |-> "c1", handle |-> to, tool |-> tool, selector |-> [uri |-> "chat", version |-> v]]
MCIntents == {Say("ana", "bo", Old, TRUE), Say("ana", "id-bo", New, TRUE), Say("ana", "id-bo", Newest, TRUE),
              Say("ana", "*", Old, TRUE), Say("bo", "*", Old, FALSE)}

\* Two processes wait at once, one of them ends or one call fails.
Waiting == 2
Troubles == faults + Cardinality(Procs \ up)
Short ==
    /\ Cardinality({p \in Procs : call[p] # Idle}) <= Waiting
    /\ Troubles <= 1
    /\ begun = 2 \/ Troubles = 1 => Len(log) <= 1
    /\ begun = 2 /\ Troubles = 1 => log = << >>
=============================================================================
