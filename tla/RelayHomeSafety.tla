-------------------------- MODULE RelayHomeSafety --------------------------
(***************************************************************************)
(* Theorems about RelayHome, for every number of nodes, messages, invites  *)
(* and faults: what retention may delete, what the icebreak limit bounds,  *)
(* and what an inbox receives.                                             *)
(***************************************************************************)
EXTENDS RelayHome, FiniteSetTheorems, TLAPS

\* Before the channel exists nobody is in it.
Blank == mode = "none" => visibility = "none" /\ minted = {} /\ Members = {}

OwnAlias == \A n, p \in Members : alias[n] = alias[p] => n = p

\* Members are never removed: who has the channel in its store, or waits for
\* the answer of a pull, is one, and so is whoever was answered.
Inside ==
    /\ joined \subseteq Members /\ answered \subseteq Members
    /\ \A n \in Nodes : pulled[n] # -1 => n \in Members
    /\ \A n \in Nodes : joinSeq[n] <= head

Doors == Blank /\ OwnAlias /\ Inside

\* A row stems from a member, and from the time since it joined.
Signed ==
    \A r \in rows : /\ r.seq \in 1..head
                    /\ \E n \in Members : r.from = alias[n] /\ r.seq > joinSeq[n]

\* Whoever can be shown a peer's row is on record as answered.
Heard ==
    \A n \in Members : \A r \in rows : r.from # alias[n] /\ r.seq > joinSeq[n] => n \in answered

Log == IsFiniteSet(rows) /\ Signed /\ Heard /\ IcebreakHolds

\* The mirror knows exactly what went to the inbox.
Mirrored == \A n \in Nodes, m \in Messages : arrivals[n][m] = IF m \in known[n] THEN 1 ELSE 0

\* A node that has not the channel in its store has no cursor either.
NoCursor == \A n \in Nodes \ joined : cursor[n] = 0

Stored(n, s) == \A r \in rows : r.seq <= s /\ AddressedTo(n, r) /\ r.status = "delivered" => r.id \in known[n]

\* A pull vouches for all it has passed, before and after it is acknowledged.
Vouched ==
    /\ \A n \in joined \ cut : Stored(n, cursor[n])
    /\ \A n \in Nodes \ cut : pulled[n] # -1 => Stored(n, pulled[n])

Copies == Mirrored /\ NoCursor /\ Vouched

Inv == TypeOK /\ Doors /\ Log /\ Copies

-----------------------------------------------------------------------------
\* cleanupRetention takes rows away and adds none.
LEMMA CleanupTakes ==
    ASSUME TypeOK, NEW rs, NEW ack, Cleanup(rs, ack)
    PROVE  rows' \subseteq rs /\ expired' \in 0..head
BY DEF Cleanup, TypeOK

-----------------------------------------------------------------------------
LEMMA InitInv == Init => Inv
<1> SUFFICES ASSUME Init PROVE Inv
    OBVIOUS
<1>0. Members = {}
    BY DEF Init, Members
<1>1. TypeOK
    BY RelayAssumption DEF Init, TypeOK
<1>2. Doors
    BY <1>0 DEF Init, Doors, Blank, OwnAlias, Inside
<1>3. Log
    BY <1>0, FS_EmptySet DEF Init, Log, Signed, Heard, IcebreakHolds
<1>4. Copies
    BY DEF Init, Copies, Mirrored, NoCursor, Vouched, Stored
<1> QED
    BY <1>1, <1>2, <1>3, <1>4 DEF Inv

-----------------------------------------------------------------------------
\* What the two doors have in common: a member under its alias is answered again, a
\* stranger is admitted under an alias nobody has.
Enters(n, a) ==
    /\ n \in Nodes /\ a \in Aliases /\ n \notin joined
    /\ mode # "none"
    /\ \/ UNCHANGED <<alias, joinSeq>> /\ n \in Members
       \/ MayTake(n, a) /\ Admit(n, a)
    /\ Answer(RecordChannel(n), UNCHANGED <<joined, cursor>>)
    /\ uses' \in [Invites -> 0..MaxUses]
    /\ UNCHANGED <<mode, visibility, minted, logVars, known, arrivals, confirmed, pulled, cut>>

LEMMA AnswerCases ==
    ASSUME TypeOK, NEW n \in Nodes, Answer(RecordChannel(n), UNCHANGED <<joined, cursor>>)
    PROVE  /\ joined' \in {joined, joined \cup {n}}
           /\ n \in joined' \ joined => cursor' = [cursor EXCEPT ![n] = 0]
           /\ joined' = joined => cursor' = cursor \/ cursor' = [cursor EXCEPT ![n] = 0]
           /\ n \in joined => cursor' = cursor
           /\ faults' \in 0..MaxFaults
BY RelayAssumption DEF Answer, RecordChannel, SetCursor, Unanswered, TypeOK

\* A newcomer joins at the head under a free alias, so that no row is its own or for it.
LEMMA EntersInv ==
    ASSUME Inv, NEW n, NEW a, Enters(n, a)
    PROVE  Inv'
<1> USE DEF Inv
<1>1. PICK k \in Nodes : k = n /\ k \notin joined
    BY DEF Enters
<1>2. /\ joined' \in {joined, joined \cup {n}}
      /\ n \in joined' \ joined => cursor' = [cursor EXCEPT ![n] = 0]
      /\ cursor' = cursor \/ cursor' = [cursor EXCEPT ![n] = 0]
      /\ faults' \in 0..MaxFaults
    BY AnswerCases, <1>1 DEF Enters
<1>3. cursor' = cursor
    BY <1>1, <1>2 DEF Copies, NoCursor, TypeOK
<1>4. UNCHANGED <<mode, visibility, minted, rows, head, acked, expired, answered, known, arrivals, confirmed, pulled, cut>>
    BY DEF Enters, logVars
<1>5. /\ alias' \in [Nodes -> Aliases \cup {NoAlias}] /\ joinSeq' \in [Nodes -> Nat]
      /\ \A p \in Nodes : joinSeq'[p] <= head
      /\ \A p \in Nodes \ {n} : alias'[p] = alias[p] /\ joinSeq'[p] = joinSeq[p]
      /\ n \in Members => alias'[n] = alias[n] /\ joinSeq'[n] = joinSeq[n]
      /\ n \notin Members => /\ joinSeq'[n] = head
                             /\ \A p \in Members : alias[p] # alias'[n]
      /\ alias'[n] # NoAlias
    <2>1. CASE UNCHANGED <<alias, joinSeq>> /\ n \in Members
        BY <2>1, <1>1 DEF TypeOK, Doors, Inside, Members
    <2>2. CASE MayTake(n, a) /\ Admit(n, a)
        BY <2>2, <1>1, RelayAssumption DEF TypeOK, Doors, Inside, Members, MayTake, Admit, Enters
    <2> QED
        BY <2>1, <2>2 DEF Enters
<1>6. Members' = Members \cup {n}
    BY <1>1, <1>5 DEF Members
<1>7. TypeOK'
    BY <1>1, <1>2, <1>3, <1>4, <1>5 DEF TypeOK, Enters
<1>8. Doors'
    <2>1. Blank'
        BY <1>4 DEF Blank, Enters
    <2>2. OwnAlias'
        BY <1>1, <1>5, <1>6 DEF OwnAlias, Doors, Members
    <2>3. Inside'
        BY <1>1, <1>2, <1>4, <1>5, <1>6 DEF Inside, Doors
    <2> QED
        BY <2>1, <2>2, <2>3 DEF Doors
<1>9. Log'
    <2>1. IsFiniteSet(rows')
        BY <1>4 DEF Log
    <2>2. Signed'
        <3> SUFFICES ASSUME NEW r \in rows
                     PROVE  /\ r.seq \in 1..head
                            /\ \E p \in Members' : r.from = alias'[p] /\ r.seq > joinSeq'[p]
            BY <1>4 DEF Signed
        <3>1. PICK p \in Members : r.from = alias[p] /\ r.seq > joinSeq[p]
            BY DEF Log, Signed
        <3>2. alias'[p] = alias[p] /\ joinSeq'[p] = joinSeq[p]
            BY <1>5 DEF Members
        <3> QED
            BY <3>1, <3>2, <1>6 DEF Log, Signed
    <2>3. Heard'
        <3> SUFFICES ASSUME NEW p \in Members', NEW r \in rows, r.from # alias'[p], r.seq > joinSeq'[p]
                     PROVE  p \in answered
            BY <1>4 DEF Heard
        <3>1. CASE p \in Members
            BY <3>1, <1>5 DEF Log, Heard, Members
        <3>2. CASE p \notin Members
            <4>1. joinSeq'[p] = head
                BY <3>2, <1>5, <1>6
            <4>2. r.seq \in 1..head /\ head \in Nat
                BY DEF Log, Signed, TypeOK
            <4> QED
                BY <4>1, <4>2
        <3> QED
            BY <3>1, <3>2
    <2>4. IcebreakHolds'
        <3> SUFFICES ASSUME NEW p \in Members', p \notin answered
                     PROVE  Cardinality({r \in rows : r.from = alias'[p]}) <= MaxBeforeReply
            BY <1>4 DEF IcebreakHolds
        <3>1. CASE p \in Members
            BY <3>1, <1>5 DEF Log, IcebreakHolds, Members
        <3>2. CASE p \notin Members
            <4>1. p = n /\ \A q \in Members : alias[q] # alias'[p]
                BY <3>2, <1>5, <1>6
            <4>2. {r \in rows : r.from = alias'[p]} = {}
                BY <4>1 DEF Log, Signed
            <4>3. Cardinality({}) = 0
                BY FS_EmptySet
            <4>4. MaxBeforeReply >= 0
                BY RelayAssumption
            <4> QED
                BY <4>2, <4>3, <4>4
        <3> QED
            BY <3>1, <3>2
    <2> QED
        BY <2>1, <2>2, <2>3, <2>4 DEF Log
<1>10. Copies'
    <2>1. Mirrored' /\ NoCursor'
        BY <1>1, <1>2, <1>3, <1>4 DEF Copies, Mirrored, NoCursor
    <2>2. ASSUME NEW p \in Members, NEW s, Stored(p, s) PROVE Stored(p, s)'
        <3>1. alias'[p] = alias[p]
            BY <1>5 DEF Members
        <3> QED
            BY <2>2, <3>1, <1>4 DEF Stored, AddressedTo
    <2>3. ASSUME NEW p \in joined \ cut PROVE Stored(p, cursor[p])'
        <3>1. p \in Members
            BY DEF Doors, Inside
        <3>2. Stored(p, cursor[p])
            BY DEF Copies, Vouched
        <3> QED
            BY <3>1, <3>2, <2>2, <1>3
    <2>4. ASSUME n \in joined' PROVE Stored(n, cursor[n])'
        <3>1. cursor[n] = 0
            BY <1>1 DEF Copies, NoCursor
        <3>2. \A r \in rows : r.seq \in 1..head
            BY DEF Log, Signed
        <3>3. head \in Nat
            BY DEF TypeOK
        <3> QED
            BY <3>1, <3>2, <3>3, <1>3, <1>4 DEF Stored
    <2>5. ASSUME NEW p \in Nodes \ cut, pulled[p] # -1 PROVE Stored(p, pulled[p])'
        <3>1. p \in Members
            BY <2>5 DEF Doors, Inside
        <3>2. Stored(p, pulled[p])
            BY <2>5 DEF Copies, Vouched
        <3> QED
            BY <3>1, <3>2, <2>2, <1>4
    <2>6. Vouched'
        BY <2>3, <2>4, <2>5, <1>2, <1>3, <1>4 DEF Vouched
    <2> QED
        BY <2>1, <2>6 DEF Copies
<1> QED
    BY <1>7, <1>8, <1>9, <1>10

LEMMA JoinInv ==
    ASSUME Inv, NEW n \in Nodes, NEW a \in Aliases, NEW i \in Invites, PostJoin(n, a, i)
    PROVE  Inv'
<1>1. n \notin joined /\ JoinViaInvite(n, a, i)
    BY DEF PostJoin
<1>2. mode # "none"
    BY <1>1 DEF JoinViaInvite, Inv, Doors, Blank
<1>3. uses' \in [Invites -> 0..MaxUses]
    BY <1>1, RelayAssumption DEF JoinViaInvite, HasUses, Inv, TypeOK
<1>4. (UNCHANGED <<alias, joinSeq>> /\ n \in Members) \/ (MayTake(n, a) /\ Admit(n, a))
    BY <1>1, RelayAssumption DEF JoinViaInvite, Members
<1>5. Enters(n, a)
    BY <1>1, <1>2, <1>3, <1>4 DEF PostJoin, Enters
<1> QED
    BY <1>5, EntersInv

LEMMA PublicJoinInv ==
    ASSUME Inv, NEW n \in Nodes, NEW a \in Aliases, PostPublicJoin(n, a)
    PROVE  Inv'
<1>1. n \notin joined /\ JoinPublicChannel(n, a)
    BY DEF PostPublicJoin
<1>2. mode # "none"
    BY <1>1 DEF JoinPublicChannel, Inv, Doors, Blank
<1>3. (UNCHANGED <<alias, joinSeq>> /\ n \in Members) \/ (MayTake(n, a) /\ Admit(n, a))
    BY <1>1, RelayAssumption DEF JoinPublicChannel, Members
<1>4. uses' \in [Invites -> 0..MaxUses]
    BY DEF PostPublicJoin, Inv, TypeOK
<1>5. Enters(n, a)
    BY <1>1, <1>2, <1>3, <1>4 DEF PostPublicJoin, Enters
<1> QED
    BY <1>5, EntersInv

\* The founder comes to an empty channel.
LEMMA CreateInv ==
    ASSUME Inv, NEW n \in Nodes, NEW a \in Aliases, PostCreate(n, a)
    PROVE  Inv'
<1> USE DEF Inv
<1>1. /\ Members = {} /\ joined = {} /\ answered = {} /\ rows = {}
      /\ \A p \in Nodes : pulled[p] = -1 /\ alias[p] = NoAlias
    <2>1. Members = {}
        BY DEF PostCreate, CreateChannelBootstrap, Doors, Blank
    <2> QED
        BY <2>1 DEF Doors, Inside, Log, Signed, Members
<1>2. /\ mode' \in Modes /\ visibility' \in Visibilities
      /\ alias' = [alias EXCEPT ![n] = a]
      /\ UNCHANGED <<joinSeq, minted, uses, rows, head, acked, expired, answered, known, arrivals, confirmed, pulled, cut>>
    BY DEF PostCreate, CreateChannelBootstrap, logVars
<1>3. /\ joined' \in {joined, joined \cup {n}}
      /\ cursor' = cursor \/ cursor' = [cursor EXCEPT ![n] = 0]
      /\ faults' \in 0..MaxFaults
    BY AnswerCases DEF PostCreate
<1>4. cursor' = cursor
    BY <1>1, <1>3 DEF Copies, NoCursor, TypeOK
<1>5. Members' = {n}
    BY <1>1, <1>2, RelayAssumption DEF Members, TypeOK
<1>6. TypeOK'
    BY <1>2, <1>3, <1>4 DEF TypeOK
<1>7. Doors'
    <2>1. mode' # "none"
        BY <1>2, RelayAssumption
    <2> QED
        BY <1>1, <1>2, <1>3, <1>5, <2>1 DEF Doors, Blank, OwnAlias, Inside
<1>8. Log'
    <2>1. Cardinality({}) <= MaxBeforeReply
        BY FS_EmptySet, RelayAssumption
    <2>2. \A p \in Nodes : {r \in rows' : r.from = alias'[p]} = {}
        BY <1>1, <1>2
    <2>3. IcebreakHolds'
        BY <1>5, <2>1, <2>2 DEF IcebreakHolds
    <2> QED
        BY <1>1, <1>2, <2>3 DEF Log, Signed, Heard
<1>9. Copies'
    BY <1>1, <1>2, <1>3, <1>4 DEF Copies, Mirrored, NoCursor, Vouched, Stored
<1> QED
    BY <1>6, <1>7, <1>8, <1>9

LEMMA InvitesInv ==
    ASSUME Inv, NEW n \in Nodes, NEW i \in Invites, PostInvites(n, i)
    PROVE  Inv'
<1> USE DEF Inv
<1>1. /\ minted' \subseteq Invites /\ n \in Members
      /\ UNCHANGED <<mode, visibility, alias, joinSeq, uses, logVars, joined, engineVars, faults>>
    BY DEF PostInvites, CreateInvite, RequireMember, TypeOK
<1>2. Members' = Members
    BY <1>1 DEF Members
<1>3. TypeOK'
    BY <1>1 DEF TypeOK, logVars, engineVars
<1>4. Doors'
    BY <1>1, <1>2 DEF Doors, Blank, OwnAlias, Inside, logVars, engineVars
<1>5. Log'
    BY <1>1, <1>2 DEF Log, Signed, Heard, IcebreakHolds, logVars
<1>6. Copies'
    BY <1>1 DEF Copies, Mirrored, NoCursor, Vouched, Stored, AddressedTo, logVars, engineVars
<1> QED
    BY <1>3, <1>4, <1>5, <1>6

LEMMA LeaveInv ==
    ASSUME Inv, NEW n \in Nodes, LeaveChannel(n)
    PROVE  Inv'
<1> USE DEF Inv
<1>1. /\ joined' = joined \ {n} /\ cursor' = [cursor EXCEPT ![n] = 0]
      /\ UNCHANGED <<channelVars, logVars, known, arrivals, confirmed, pulled, cut>>
    BY DEF LeaveChannel, SetCursor
<1>2. Members' = Members
    BY <1>1 DEF Members, channelVars
<1>3. TypeOK'
    BY <1>1, RelayAssumption DEF TypeOK, LeaveChannel, logVars, channelVars
<1>4. Doors'
    BY <1>1, <1>2 DEF Doors, Blank, OwnAlias, Inside, logVars, channelVars
<1>5. Log'
    BY <1>1, <1>2 DEF Log, Signed, Heard, IcebreakHolds, logVars, channelVars
<1>6. Copies'
    BY <1>1 DEF Copies, Mirrored, NoCursor, Vouched, Stored, AddressedTo, TypeOK, logVars, channelVars
<1> QED
    BY <1>3, <1>4, <1>5, <1>6

LEMMA SyncAbortInv ==
    ASSUME Inv, NEW n \in Nodes, SyncAbort(n)
    PROVE  Inv'
<1> USE DEF Inv
<1>1. /\ pulled' = [pulled EXCEPT ![n] = -1]
      /\ UNCHANGED <<channelVars, logVars, joined, cursor, known, arrivals, confirmed, cut>>
    BY DEF SyncAbort
<1>2. Members' = Members
    BY <1>1 DEF Members, channelVars
<1>3. TypeOK'
    BY <1>1, RelayAssumption DEF TypeOK, SyncAbort, Unanswered, logVars, channelVars
<1>4. Doors'
    BY <1>1, <1>2 DEF Doors, Blank, OwnAlias, Inside, TypeOK, logVars, channelVars
<1>5. Log'
    BY <1>1, <1>2 DEF Log, Signed, Heard, IcebreakHolds, logVars, channelVars
<1>6. Copies'
    BY <1>1 DEF Copies, Mirrored, NoCursor, Vouched, Stored, AddressedTo, TypeOK, logVars, channelVars
<1> QED
    BY <1>3, <1>4, <1>5, <1>6

-----------------------------------------------------------------------------
\* A clean-up, and an append that ends in one, keep what is said of the log.
LEMMA CleanLog ==
    ASSUME Inv, NEW ack, Cleanup(rows, ack), UNCHANGED <<channelVars, head, answered>>
    PROVE  Log'
<1> USE DEF Inv
<1>1. rows' \subseteq rows /\ Members' = Members
    BY DEF Cleanup, channelVars, Members
<1>2. IsFiniteSet(rows')
    BY <1>1, FS_Subset DEF Log
<1>3. Signed' /\ Heard'
    BY <1>1 DEF Log, Signed, Heard, channelVars
<1>4. ASSUME NEW n \in Members \ answered
      PROVE  Cardinality({r \in rows' : r.from = alias[n]}) <= MaxBeforeReply
    <2> DEFINE before == {r \in rows : r.from = alias[n]}
    <2> DEFINE after == {r \in rows' : r.from = alias[n]}
    <2>1. IsFiniteSet(before) /\ after \subseteq before
        BY <1>1, FS_Subset DEF Log
    <2>2. IsFiniteSet(after) /\ Cardinality(after) <= Cardinality(before)
        BY <2>1, FS_Subset
    <2>3. Cardinality(before) <= MaxBeforeReply
        BY DEF Log, IcebreakHolds
    <2>4. Cardinality(before) \in Nat /\ Cardinality(after) \in Nat /\ MaxBeforeReply \in Nat
        BY <2>1, <2>2, FS_CardinalityType, RelayAssumption
    <2> QED
        BY <2>2, <2>3, <2>4
<1>5. IcebreakHolds'
    BY <1>1, <1>4 DEF IcebreakHolds, channelVars
<1> QED
    BY <1>2, <1>3, <1>5 DEF Log

\* One more element makes a set at most one larger.
LEMMA OneMore ==
    ASSUME NEW S, IsFiniteSet(S), NEW x
    PROVE  /\ IsFiniteSet(S \cup {x})
           /\ Cardinality(S \cup {x}) <= Cardinality(S) + 1
           /\ Cardinality(S \cup {x}) \in Nat
<1>1. IsFiniteSet(S \cup {x}) /\ Cardinality(S \cup {x}) = (IF x \in S THEN Cardinality(S) ELSE Cardinality(S) + 1)
    BY FS_AddElement
<1>2. Cardinality(S) \in Nat /\ Cardinality(S \cup {x}) \in Nat
    BY <1>1, FS_CardinalityType
<1> QED
    BY <1>1, <1>2

LEMMA AppendLog ==
    ASSUME Inv, NEW n \in Nodes, NEW m \in Messages, Accepted(n), AppendNew(n, m), UNCHANGED channelVars
    PROVE  Log'
<1> USE DEF Inv
<1> DEFINE new == NewRow(n, m)
<1>1. n \in Members /\ Members' = Members /\ UNCHANGED <<alias, joinSeq>>
    BY DEF Accepted, RequireMember, channelVars, Members
<1>2. /\ rows' \subseteq rows \cup {new} /\ head \in Nat /\ head' = head + 1
      /\ new.seq = head + 1 /\ new.from = alias[n]
      /\ answered' = answered \cup {p \in Members : p # n /\ head + 1 > joinSeq[p]}
    BY DEF AppendNew, Cleanup, NewRow, NewSeq, TypeOK
<1>3. \A p \in Members : joinSeq[p] <= head /\ joinSeq[p] \in Nat
    BY DEF Doors, Inside, TypeOK, Members
<1>4. IsFiniteSet(rows \cup {new})
    BY FS_AddElement DEF Log
<1>5. IsFiniteSet(rows')
    BY <1>2, <1>4, FS_Subset
<1>6. Signed'
    <2> SUFFICES ASSUME NEW r \in rows'
                 PROVE  r.seq \in 1..(head + 1) /\ \E p \in Members : r.from = alias[p] /\ r.seq > joinSeq[p]
        BY <1>1, <1>2 DEF Signed
    <2>1. CASE r \in rows
        BY <2>1, <1>2 DEF Log, Signed
    <2>2. CASE r = new
        BY <2>2, <1>1, <1>2, <1>3
    <2> QED
        BY <2>1, <2>2, <1>2
<1>7. Heard'
    <2> SUFFICES ASSUME NEW p \in Members, NEW r \in rows', r.from # alias[p], r.seq > joinSeq[p]
                 PROVE  p \in answered'
        BY <1>1 DEF Heard
    <2>1. CASE r \in rows
        BY <2>1, <1>2 DEF Log, Heard
    <2>2. CASE r = new
        BY <2>2, <1>2, <1>3
    <2> QED
        BY <2>1, <2>2, <1>2
<1>8. ASSUME NEW p \in Members \ answered'
      PROVE  Cardinality({r \in rows' : r.from = alias[p]}) <= MaxBeforeReply
    <2> DEFINE before == {r \in rows : r.from = alias[p]}
    <2> DEFINE after == {r \in rows' : r.from = alias[p]}
    <2>1. p \in Members \ answered
        BY <1>2
    <2>2. IsFiniteSet(before) /\ Cardinality(before) \in Nat /\ Cardinality(before) <= MaxBeforeReply
        BY <2>1, FS_Subset, FS_CardinalityType DEF Log, IcebreakHolds
    <2>3. MaxBeforeReply \in Nat
        BY RelayAssumption
    <2>4. CASE p # n
        <3>1. alias[p] # alias[n]
            BY <2>4, <1>1 DEF Doors, OwnAlias
        <3>2. after \subseteq before
            BY <3>1, <1>2
        <3>3. IsFiniteSet(after) /\ Cardinality(after) <= Cardinality(before) /\ Cardinality(after) \in Nat
            BY <2>2, <3>2, FS_Subset, FS_CardinalityType
        <3> QED
            BY <2>2, <2>3, <3>3
    <2>5. CASE p = n
        <3>1. ~HasPeerReplied(n)
            BY <2>1, <2>5 DEF Log, Heard, HasPeerReplied, Since
        <3>2. before = {r \in Since(n) : r.from = alias[n]}
            BY <2>5, <1>1 DEF Since, Log, Signed, Doors, OwnAlias
        <3>3. Cardinality(before) + 1 <= MaxBeforeReply
            BY <3>1, <3>2 DEF Accepted, IcebreakOpen, CountSentSinceJoin
        <3>4. after \subseteq before \cup {new}
            BY <1>2
        <3>5. IsFiniteSet(before \cup {new}) /\ Cardinality(before \cup {new}) <= Cardinality(before) + 1
              /\ Cardinality(before \cup {new}) \in Nat
            BY <2>2, OneMore
        <3>6. IsFiniteSet(after) /\ Cardinality(after) <= Cardinality(before \cup {new}) /\ Cardinality(after) \in Nat
            BY <3>4, <3>5, FS_Subset, FS_CardinalityType
        <3> QED
            BY <2>2, <2>3, <3>3, <3>5, <3>6
    <2> QED
        BY <2>4, <2>5
<1>9. IcebreakHolds'
    BY <1>1, <1>8 DEF IcebreakHolds
<1> QED
    BY <1>5, <1>6, <1>7, <1>9 DEF Log

\* A row appended later lies beyond what a pull vouches for.
LEMMA StoredStays ==
    ASSUME Inv, NEW p \in Nodes, NEW s \in 0..head, Stored(p, s),
           UNCHANGED alias, known[p] \subseteq known'[p],
           \A r \in rows' : r \in rows \/ r.seq = head + 1
    PROVE  Stored(p, s)'
<1> SUFFICES ASSUME NEW r \in rows', r.seq <= s, AddressedTo(p, r), r.status = "delivered"
             PROVE  r.id \in known'[p]
    BY DEF Stored, AddressedTo
<1>1. r \in rows
    BY DEF Inv, TypeOK
<1> QED
    BY <1>1 DEF Stored

\* The copies do not depend on what the log gains or loses.
LEMMA LogStepCopies ==
    ASSUME Inv, UNCHANGED <<channelVars, joined, cursor, known, arrivals, pulled, cut>>,
           \A r \in rows' : r \in rows \/ r.seq = head + 1
    PROVE  Copies'
<1> USE DEF Inv
<1>1. UNCHANGED alias
    BY DEF channelVars
<1>2. ASSUME NEW p \in Nodes, NEW s \in 0..head, Stored(p, s) PROVE Stored(p, s)'
    BY <1>1, <1>2, StoredStays
<1>3. ASSUME NEW p \in joined \ cut PROVE Stored(p, cursor[p])'
    <2>1. p \in Nodes /\ cursor[p] \in 0..head
        BY DEF TypeOK
    <2>2. Stored(p, cursor[p])
        BY DEF Copies, Vouched
    <2> QED
        BY <2>1, <2>2, <1>2
<1>4. ASSUME NEW p \in Nodes \ cut, pulled[p] # -1 PROVE Stored(p, pulled[p])'
    <2>1. pulled[p] \in 0..head
        BY <1>4 DEF TypeOK
    <2>2. Stored(p, pulled[p])
        BY <1>4 DEF Copies, Vouched
    <2> QED
        BY <2>1, <2>2, <1>2
<1>5. Vouched'
    BY <1>3, <1>4 DEF Vouched
<1> QED
    BY <1>5 DEF Copies, Mirrored, NoCursor

LEMMA LogStepDoors ==
    ASSUME Inv, UNCHANGED <<channelVars, joined, pulled>>, head' \in Nat, head' >= head,
           answered' \subseteq Members
    PROVE  Doors'
<1>1. Members' = Members /\ UNCHANGED <<mode, visibility, minted, alias, joinSeq>>
    BY DEF channelVars, Members
<1>2. \A n \in Nodes : joinSeq[n] <= head /\ joinSeq[n] \in Nat /\ head \in Nat
    BY DEF Inv, TypeOK, Doors, Inside
<1> QED
    BY <1>1, <1>2 DEF Inv, Doors, Blank, OwnAlias, Inside

-----------------------------------------------------------------------------
\* POST messages, through the HTTP door or the gateway.
LEMMA AppendInv ==
    ASSUME Inv, NEW n \in Nodes, NEW m \in Messages, AppendMessages(n, m),
           UNCHANGED <<channelVars, acked, joined, cursor, known, arrivals, pulled, cut>>,
           confirmed' \subseteq Messages, faults' \in 0..MaxFaults
    PROVE  Inv'
<1> USE DEF Inv
<1>1. CASE AppendNew(n, m)
    <2> DEFINE new == NewRow(n, m)
    <2>1. /\ Accepted(n) /\ n \in Members
          /\ rows' \subseteq rows \cup {new} /\ head \in Nat /\ head' = head + 1 /\ expired' \in 0..head
          /\ answered' = answered \cup {p \in Members : p # n /\ head + 1 > joinSeq[p]}
        BY <1>1 DEF AppendMessages, Accepted, RequireMember, AppendNew, Cleanup, NewSeq, TypeOK
    <2>2. new \in Row /\ new.seq = head + 1
        BY <2>1 DEF NewRow, NewSeq, Row, Members, TypeOK
    <2>3. TypeOK'
        <3>1. rows' \subseteq Row /\ head' \in Nat /\ expired' \in 0..head' /\ answered' \subseteq Nodes
            BY <2>1, <2>2 DEF TypeOK, Members
        <3>2. cursor' \in [Nodes -> 0..head'] /\ pulled' \in [Nodes -> -1..head']
            BY <2>1 DEF TypeOK
        <3> QED
            BY <3>1, <3>2 DEF TypeOK, channelVars
    <2>4. Doors'
        BY <2>1, LogStepDoors DEF Doors, Inside
    <2>5. Log'
        BY <1>1, <2>1, AppendLog
    <2>6. Copies'
        BY <2>1, <2>2, LogStepCopies
    <2> QED
        BY <2>3, <2>4, <2>5, <2>6
<1>2. CASE AppendDuplicate(m)
    <2>1. UNCHANGED <<head, answered>> /\ Cleanup(rows, acked)
        BY <1>2 DEF AppendDuplicate
    <2>2. rows' \subseteq rows /\ expired' \in 0..head
        BY <2>1, CleanupTakes
    <2>3. TypeOK'
        BY <2>1, <2>2 DEF TypeOK, channelVars
    <2>4. Doors'
        BY <2>1, LogStepDoors DEF Doors, Inside, TypeOK
    <2>5. Log'
        BY <2>1, CleanLog
    <2>6. Copies'
        BY <2>2, LogStepCopies
    <2> QED
        BY <2>3, <2>4, <2>5, <2>6
<1> QED
    BY <1>1, <1>2 DEF AppendMessages

LEMMA RestartInv ==
    ASSUME Inv, RelayRestart
    PROVE  Inv'
<1> USE DEF Inv
<1>1. /\ Cleanup(rows, acked) /\ UNCHANGED faults
      /\ UNCHANGED <<channelVars, head, acked, answered, joined, cursor, known, arrivals, confirmed, pulled, cut>>
    BY DEF RelayRestart, engineVars
<1>2. rows' \subseteq rows /\ expired' \in 0..head
    BY <1>1, CleanupTakes
<1>3. TypeOK'
    BY <1>1, <1>2 DEF TypeOK, channelVars
<1>4. Doors'
    BY <1>1, LogStepDoors DEF Doors, Inside, TypeOK
<1>5. Log'
    BY <1>1, CleanLog
<1>6. Copies'
    BY <1>1, <1>2, LogStepCopies
<1> QED
    BY <1>3, <1>4, <1>5, <1>6

\* What a pull passes was stored before, or is stored now.
LEMMA GetMessagesInv ==
    ASSUME Inv, NEW n \in Nodes, GetMessages(n)
    PROVE  Inv'
<1> USE DEF Inv
<1>1. /\ n \in joined /\ n \in Members /\ pulled[n] = -1
      /\ known' = [known EXCEPT ![n] = known[n] \cup Fresh(n)]
      /\ arrivals' = [arrivals EXCEPT ![n] =
             [m \in Messages |-> IF m \in Fresh(n) THEN arrivals[n][m] + 1 ELSE arrivals[n][m]]]
      /\ cut' = IF PullMessages(n) = Newer(n) THEN cut ELSE cut \cup {n}
      /\ pulled' = [pulled EXCEPT ![n] = head]
      /\ UNCHANGED <<channelVars, logVars, joined, cursor, confirmed, faults>>
    BY DEF GetMessages, RequireMember
<1>2. Members' = Members
    BY <1>1 DEF Members, channelVars
<1>3. Fresh(n) \subseteq Messages \ known[n]
    BY DEF Fresh, PullMessages, Newer, TypeOK, Row
<1>4. TypeOK'
    <2>1. known' \in [Nodes -> SUBSET Messages]
        BY <1>1, <1>3 DEF TypeOK
    <2>2. arrivals' \in [Nodes -> [Messages -> Nat]]
        BY <1>1 DEF TypeOK
    <2>3. cut' \subseteq Nodes /\ pulled' \in [Nodes -> -1..head]
        BY <1>1 DEF TypeOK
    <2> QED
        BY <1>1, <2>1, <2>2, <2>3 DEF TypeOK, channelVars, logVars
<1>5. Doors'
    BY <1>1, <1>2 DEF Doors, Blank, OwnAlias, Inside, TypeOK, logVars, channelVars
<1>6. Log'
    BY <1>1, <1>2 DEF Log, Signed, Heard, IcebreakHolds, logVars, channelVars
<1>7. Mirrored'
    <2> SUFFICES ASSUME NEW p \in Nodes, NEW m \in Messages
                 PROVE  arrivals'[p][m] = IF m \in known'[p] THEN 1 ELSE 0
        BY DEF Mirrored
    <2>1. arrivals[p][m] = IF m \in known[p] THEN 1 ELSE 0
        BY DEF Copies, Mirrored
    <2>2. CASE p # n
        BY <2>1, <2>2, <1>1 DEF TypeOK
    <2>3. CASE p = n
        BY <2>1, <2>3, <1>1, <1>3 DEF TypeOK
    <2> QED
        BY <2>2, <2>3
<1>8. ASSUME NEW p \in Nodes, NEW s \in 0..head, Stored(p, s) PROVE Stored(p, s)'
    <2>1. known[p] \subseteq known'[p]
        BY <1>1 DEF TypeOK
    <2>2. UNCHANGED <<alias, rows>>
        BY <1>1 DEF channelVars, logVars
    <2> QED
        BY <1>8, <2>1, <2>2 DEF Stored, AddressedTo
<1>9. ASSUME n \notin cut' PROVE Stored(n, head)'
    <2>1. PullMessages(n) = Newer(n) /\ n \notin cut
        BY <1>1, <1>9
    <2>2. Stored(n, cursor[n])
        BY <1>1, <2>1 DEF Copies, Vouched
    <2>3. UNCHANGED <<alias, rows, head>> /\ known'[n] = known[n] \cup Fresh(n)
        BY <1>1 DEF channelVars, logVars, TypeOK
    <2> SUFFICES ASSUME NEW r \in rows, AddressedTo(n, r), r.status = "delivered"
                 PROVE  r.id \in known'[n]
        BY <2>3 DEF Stored, AddressedTo
    <2>4. CASE r.seq <= cursor[n]
        BY <2>2, <2>3, <2>4 DEF Stored
    <2>5. CASE r.seq > cursor[n]
        <3>1. r \in PullMessages(n)
            BY <2>1, <2>5 DEF Newer
        <3>2. r.id \in Fresh(n) \/ r.id \in known[n]
            BY <3>1 DEF Fresh
        <3> QED
            BY <3>2, <2>3
    <2>6. r.seq \in Nat /\ cursor[n] \in Nat
        BY DEF TypeOK, Row
    <2> QED
        BY <2>4, <2>5, <2>6
<1>10. Vouched'
    <2>1. ASSUME NEW p \in joined' \ cut' PROVE Stored(p, cursor[p])'
        <3>1. p \in joined \ cut /\ p \in Nodes /\ cursor[p] \in 0..head
            BY <1>1 DEF TypeOK
        <3>2. Stored(p, cursor[p])
            BY <3>1 DEF Copies, Vouched
        <3>3. UNCHANGED cursor
            BY <1>1
        <3> QED
            BY <3>1, <3>2, <3>3, <1>8
    <2>2. ASSUME NEW p \in Nodes \ cut', pulled'[p] # -1 PROVE Stored(p, pulled[p])'
        <3>1. CASE p = n
            BY <3>1, <2>2, <1>1, <1>9 DEF TypeOK, logVars
        <3>2. CASE p # n
            <4>1. pulled'[p] = pulled[p] /\ p \notin cut
                BY <3>2, <1>1 DEF TypeOK
            <4>2. Stored(p, pulled[p]) /\ pulled[p] \in 0..head
                BY <4>1, <2>2 DEF Copies, Vouched, TypeOK
            <4> QED
                BY <4>1, <4>2, <1>8
        <3> QED
            BY <3>1, <3>2
    <2> QED
        BY <2>1, <2>2 DEF Vouched
<1>11. Copies'
    BY <1>1, <1>7, <1>10 DEF Copies, NoCursor
<1> QED
    BY <1>4, <1>5, <1>6, <1>11

LEMMA PostAckInv ==
    ASSUME Inv, NEW n \in Nodes, PostAck(n)
    PROVE  Inv'
<1> USE DEF Inv
<1>1. /\ pulled[n] # -1
      /\ acked' = [acked EXCEPT ![n] = IF pulled[n] > acked[n] THEN pulled[n] ELSE acked[n]]
      /\ Cleanup(rows, acked')
      /\ cursor' = cursor \/ (n \in joined /\ cursor' = [cursor EXCEPT ![n] = pulled[n]])
      /\ pulled' = [pulled EXCEPT ![n] = -1]
      /\ faults' \in 0..MaxFaults
      /\ UNCHANGED <<channelVars, head, answered, joined, known, arrivals, confirmed, cut>>
    BY RelayAssumption DEF PostAck, AckCursor, Answer, SetCursor, CursorAfter, Unanswered, TypeOK
<1>2. rows' \subseteq rows /\ expired' \in 0..head
    BY <1>1, CleanupTakes
<1>3. pulled[n] \in 0..head /\ Members' = Members
    BY <1>1 DEF TypeOK, Members, channelVars
<1>4. TypeOK'
    <2>1. acked' \in [Nodes -> Nat \cup {-1}]
        BY <1>1, <1>3 DEF TypeOK
    <2>2. cursor' \in [Nodes -> 0..head] /\ pulled' \in [Nodes -> -1..head]
        BY <1>1, <1>3 DEF TypeOK
    <2> QED
        BY <1>1, <1>2, <2>1, <2>2 DEF TypeOK, channelVars
<1>5. Doors'
    BY <1>1, <1>3 DEF Doors, Blank, OwnAlias, Inside, TypeOK, channelVars
<1>6. Log'
    BY <1>1, CleanLog
<1>7. ASSUME NEW p \in Nodes, NEW s \in 0..head, Stored(p, s) PROVE Stored(p, s)'
    BY <1>1, <1>2, <1>7, StoredStays DEF channelVars
<1>8. Vouched'
    <2>1. ASSUME NEW p \in joined' \ cut' PROVE Stored(p, cursor[p])'
        <3>1. p \in joined \ cut /\ p \in Nodes /\ cursor[p] \in 0..head
            BY <1>1 DEF TypeOK
        <3>2. CASE cursor'[p] = cursor[p]
            <4>1. Stored(p, cursor[p])
                BY <3>1 DEF Copies, Vouched
            <4> QED
                BY <4>1, <3>1, <3>2, <1>7
        <3>3. CASE p = n /\ cursor'[p] = pulled[n]
            <4>1. Stored(n, pulled[n])
                BY <3>1, <3>3, <1>1 DEF Copies, Vouched
            <4> QED
                BY <4>1, <3>3, <1>3, <1>7
        <3> QED
            BY <3>1, <3>2, <3>3, <1>1 DEF TypeOK
    <2>2. ASSUME NEW p \in Nodes \ cut', pulled'[p] # -1 PROVE Stored(p, pulled[p])'
        <3>1. pulled'[p] = pulled[p] /\ p \notin cut /\ pulled[p] \in 0..head
            BY <2>2, <1>1 DEF TypeOK
        <3>2. Stored(p, pulled[p])
            BY <2>2, <3>1 DEF Copies, Vouched
        <3> QED
            BY <3>1, <3>2, <1>7
    <2> QED
        BY <2>1, <2>2 DEF Vouched
<1>9. Copies'
    BY <1>1, <1>8 DEF Copies, Mirrored, NoCursor, TypeOK
<1> QED
    BY <1>4, <1>5, <1>6, <1>9

-----------------------------------------------------------------------------
LEMMA NextInv == Inv /\ [Next]_vars => Inv'
<1> SUFFICES ASSUME Inv, [Next]_vars PROVE Inv'
    OBVIOUS
<1>1. ASSUME NEW n \in Nodes, NEW a \in Aliases, PostCreate(n, a) PROVE Inv'
    BY <1>1, CreateInv
<1>2. ASSUME NEW n \in Nodes, NEW a \in Aliases, PostPublicJoin(n, a) PROVE Inv'
    BY <1>2, PublicJoinInv
<1>3. ASSUME NEW n \in Nodes, NEW a \in Aliases, NEW i \in Invites, PostJoin(n, a, i) PROVE Inv'
    BY <1>3, JoinInv
<1>4. ASSUME NEW n \in Nodes, NEW i \in Invites, PostInvites(n, i) PROVE Inv'
    BY <1>4, InvitesInv
<1>5. ASSUME NEW n \in Nodes, LeaveChannel(n) PROVE Inv'
    BY <1>5, LeaveInv
<1>6. ASSUME NEW n \in Nodes, NEW m \in Messages, PostMessages(n, m) PROVE Inv'
    BY <1>6, AppendInv, RelayAssumption DEF PostMessages, Answer, Unanswered, Inv, TypeOK
<1>7. ASSUME NEW n \in Nodes, NEW m \in Messages, PostA2A(n, m) PROVE Inv'
    BY <1>7, AppendInv DEF PostA2A, engineVars, Inv, TypeOK
<1>8. CASE RelayRestart
    BY <1>8, RestartInv
<1>9. ASSUME NEW n \in Nodes, GetMessages(n) PROVE Inv'
    BY <1>9, GetMessagesInv
<1>10. ASSUME NEW n \in Nodes, PostAck(n) PROVE Inv'
    BY <1>10, PostAckInv
<1>11. ASSUME NEW n \in Nodes, SyncAbort(n) PROVE Inv'
    BY <1>11, SyncAbortInv
<1>12. CASE UNCHANGED vars
    <2>1. UNCHANGED <<mode, visibility, alias, joinSeq, minted, uses, rows, head, acked, expired, joined,
                      cursor, known, arrivals, confirmed, pulled, answered, cut, faults>>
        BY <1>12 DEF vars, channelVars, logVars, engineVars
    <2>2. TypeOK' /\ Doors' /\ Log'
        BY <2>1 DEF Inv, TypeOK, Doors, Blank, OwnAlias, Inside, Members, Log, Signed, Heard, IcebreakHolds
    <2>3. Copies'
        BY <2>1 DEF Inv, Copies, Mirrored, NoCursor, Vouched, Stored, AddressedTo
    <2> QED
        BY <2>2, <2>3 DEF Inv
<1> QED
    BY <1>1, <1>2, <1>3, <1>4, <1>5, <1>6, <1>7, <1>8, <1>9, <1>10, <1>11, <1>12 DEF Next

LEMMA Invariant == Spec => []Inv
BY InitInv, NextInv, PTL DEF Spec

\* The variables of the relay and of its engines keep their types: the bounds of seqs,
\* cursors and use counts among them.
THEOREM TypeCorrect == Spec => []TypeOK
<1>1. Inv => TypeOK
    BY DEF Inv
<1> QED
    BY <1>1, Invariant, PTL

\* However many members, messages, invites and faults, a member no peer has answered keeps
\* within the icebreak limit (HasPeerReplied, CountSentSinceJoin), through either door.
THEOREM IcebreakCorrect == Spec => []IcebreakHolds
<1>1. Inv => IcebreakHolds
    BY DEF Inv, Log
<1> QED
    BY <1>1, Invariant, PTL

\* A pull never inserts a message into an inbox that has it (Fresh), whatever was lost before.
THEOREM InboxCorrect == Spec => []InboxOnce
<1>1. Inv => InboxOnce
    BY DEF Inv, Copies, Mirrored, InboxOnce
<1> QED
    BY <1>1, Invariant, PTL

\* A cursor vouches for every delivered message up to it, unless the limit cut a pull off.
THEOREM NothingSkipped == Spec => []RelayNothingSkipped
<1>1. ASSUME Inv PROVE RelayNothingSkipped
    <2> SUFFICES ASSUME NEW n \in joined \ cut, NEW r \in rows,
                        r.seq <= cursor[n], AddressedTo(n, r), r.status = "delivered"
                 PROVE  arrivals[n][r.id] > 0
        BY DEF RelayNothingSkipped
    <2>1. r.id \in known[n]
        BY <1>1 DEF Inv, Copies, Vouched, Stored
    <2>2. n \in Nodes /\ r.id \in Messages
        BY <1>1 DEF Inv, TypeOK, Row
    <2>3. arrivals[n][r.id] = 1
        BY <1>1, <2>1, <2>2 DEF Inv, Copies, Mirrored
    <2> QED
        BY <2>3
<1> QED
    BY <1>1, Invariant, PTL

-----------------------------------------------------------------------------
Gone(r) == \A q \in rows' : q.seq # r.seq
Kept == \A r \in rows : Gone(r) => r.seq <= expired' \/ \A n \in Members : acked'[n] >= r.seq

LEMMA CleanupKeeps ==
    ASSUME Inv, NEW rs, rows \subseteq rs, Cleanup(rs, acked')
    PROVE  Kept
<1> SUFFICES ASSUME NEW r \in rows, Gone(r), ~(r.seq <= expired')
             PROVE  \A n \in Members : acked'[n] >= r.seq
    BY DEF Kept
<1>1. PICK soft \in expired..head : rows' = {q \in rs : q.seq > expired' /\ ~(q.seq <= soft /\ AllAcked(acked', q.seq))}
    BY DEF Cleanup
<1>2. r \notin rows' /\ r \in rs
    BY DEF Gone
<1>3. r.seq > expired'
    BY CleanupTakes DEF Inv, TypeOK, Row
<1> QED
    BY <1>1, <1>2, <1>3 DEF AllAcked

\* Whichever request runs it, cleanupRetention takes from the log only rows past the hard limit
\* and rows the cursor of every member has passed, that of one that left included.
THEOREM RetentionCorrect == Spec => UnreadRetained
<1>1. ASSUME Inv, [Next]_vars PROVE Kept
    <2>1. CASE UNCHANGED rows
        BY <2>1 DEF Kept, Gone
    <2>2. ASSUME NEW n \in Nodes, NEW m \in Messages, AppendMessages(n, m), UNCHANGED acked PROVE Kept
        BY <1>1, <2>2, CleanupKeeps DEF AppendMessages, AppendNew, AppendDuplicate
    <2>3. ASSUME NEW n \in Nodes, PostAck(n) PROVE Kept
        BY <1>1, <2>3, CleanupKeeps DEF PostAck, AckCursor
    <2>4. CASE RelayRestart
        BY <1>1, <2>4, CleanupKeeps DEF RelayRestart
    <2>5. CASE UNCHANGED vars
        BY <2>1, <2>5 DEF vars, logVars
    <2> QED
        BY <1>1, <2>1, <2>2, <2>3, <2>4, <2>5
        DEF Next, PostMessages, PostA2A, GetMessages, SyncAbort, LeaveChannel, PostInvites, PostCreate,
            PostPublicJoin, PostJoin, logVars
<1>2. Inv /\ [Next]_vars => [Kept]_vars
    BY <1>1
<1>3. [][Kept]_vars => UnreadRetained
    BY PTL DEF UnreadRetained, Kept, Gone
<1> QED
    BY <1>2, <1>3, Invariant, PTL DEF Spec
=============================================================================
