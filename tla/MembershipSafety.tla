-------------------------- MODULE MembershipSafety --------------------------
(***************************************************************************)
(* Membership for every number of nodes, processes, homes, channels and    *)
(* invites.                                                                *)
(*                                                                         *)
(* MirrorAgrees is not inductive by itself.  Whoever enters a channel must *)
(* find the alias free, so no row, no answer under way and no leave that   *)
(* is about to reach a hub file names it yet (Owned), and an alias of a    *)
(* channel that does not exist is free (Vacant).                           *)
(*                                                                         *)
(* KeysOpen needs the keys under way: in a link, in an answer that is not  *)
(* recorded and in a mint that is not a link yet (KeyTravels), and that    *)
(* whoever is between two steps with a key finds it in the file (KeyHeld). *)
(***************************************************************************)
EXTENDS Membership, TLAPS

Entering(p) == op[p].pc \in {"created", "joined", "keyed"}
Carrying(p) == op[p].pc \in {"created", "joined", "keyed", "minted"}
MemberAs(o, n) == member[o.home][o.chan][o.alias] = n

Vacant ==
    \A h \in Homes, c \in Ids, a \in Aliases : channel[h][c] = "none" => member[h][c][a] = NoNode

RowOwned ==
    \A n \in Nodes, c \in Ids :
        row[n][c] # NoRow /\ ~Forgetting(n, c) => member[row[n][c].home][c][row[n][c].alias] = n

EntryOwned == \A p \in Procs : Entering(p) => MemberAs(op[p], NodeOf[p])

LeaveOwned ==
    \A p \in Procs : op[p].pc = "leaving" /\ op[p].home \in LocalHomes => MemberAs(op[p], NodeOf[p])

Owned == ~astray => RowOwned /\ EntryOwned /\ LeaveOwned

\* What a link or an operation says of a channel: it exists, and the key is the one it needs.
Genuine(o) ==
    /\ channel[o.home][o.chan] # "none"
    /\ o.key # NoHome => o.home \notin LocalHomes
    /\ ~rekeyed => o.key = KeyFor(o.home, channel[o.home][o.chan])

\* The same, said of o in the next state.
GenuineNext(o) ==
    /\ channel'[o.home][o.chan] # "none"
    /\ o.key # NoHome => o.home \notin LocalHomes
    /\ ~rekeyed' => o.key = KeyFor(o.home, channel'[o.home][o.chan])

RowReal ==
    \A n \in Nodes, c \in Ids : row[n][c] # NoRow => channel[row[n][c].home][c] = row[n][c].visibility

InviteReal == \A i \in Tokens : invite[i] # NoInvite => Genuine(invite[i])

OpReal ==
    \A p \in Procs : /\ Carrying(p) => Genuine(op[p])
                     /\ op[p].pc = "keyed" => op[p].key # NoHome

KeyTravels == RowReal /\ InviteReal /\ OpReal

KeyHeld ==
    ~rekeyed => \A p \in Procs : op[p].pc \in {"keyed", "minted"} /\ op[p].key # NoHome =>
        keyFile[NodeOf[p]][op[p].chan] = op[p].key

RowKeyed ==
    ~rekeyed => \A n \in Nodes, c \in Ids :
        row[n][c] # NoRow /\ Sealed(row[n][c].home, row[n][c].visibility) =>
            \/ keyFile[n][c] = row[n][c].home
            \/ \E p \in Procs : NodeOf[p] = n /\ op[p].pc = "keyed" /\ op[p].chan = c

Inv == TypeOK /\ Vacant /\ Owned /\ KeyTravels /\ KeyHeld /\ RowKeyed

-----------------------------------------------------------------------------
\* Every step is taken by one process.
Acts(p) ==
    \/ SaveKey(p) \/ RecordMembership(p)
    \/ LeaveAtHome(p) \/ ForgetChannel(p) \/ CutOff(p)
    \/ \E h \in Homes, a \in Aliases, v \in Visibility : CreateChannel(p, h, a, v)
    \/ \E h \in Homes, c \in Ids, a \in Aliases : JoinOpen(p, h, c, a)
    \/ \E i \in Tokens, a \in Aliases : JoinByInvite(p, i, a)
    \/ \E c \in Ids : LeaveChannel(p, c) \/ CreateInvite(p, c)
    \/ \E i \in Tokens : LinkInvite(p, i)

\* A join, by an invite or by an open door, in one form.
Joins(p, h, c, a, k) ==
    /\ Admit(h, c, NodeOf[p], a) /\ Begin(p, "joined", h, c, a, k)
    /\ channel[h][c] # "none"
    /\ k # NoHome => h \notin LocalHomes
    /\ ~rekeyed => k = KeyFor(h, channel[h][c])
    /\ UNCHANGED <<channel, invite, row, keyFile, rekeyed>>

Enters(p) == \E h \in Homes, c \in Ids, a \in Aliases, k \in Homes \cup {NoHome} : Joins(p, h, c, a, k)

LEMMA OpCases ==
    ASSUME TypeOK, NEW p \in Procs
    PROVE  /\ NodeOf[p] \in Nodes
           /\ op[p] = Idle <=> op[p].pc = "idle"
           /\ op[p] # Idle => op[p] \in Held
           /\ op[p].pc # "idle" =>
                /\ op[p].home \in Homes /\ op[p].chan \in Ids /\ op[p].alias \in Aliases
                /\ op[p].key \in Homes \cup {NoHome}
  <1>1. op[p] \in {Idle} \cup Held
    BY DEF TypeOK
  <1>2. CASE op[p] = Idle
    BY <1>2, MembershipAssumption DEF Idle
  <1>3. CASE op[p] \in Held
    BY <1>3, MembershipAssumption DEF Held, Idle
  <1> QED BY <1>1, <1>2, <1>3

LEMMA RowCases ==
    ASSUME TypeOK, NEW n \in Nodes, NEW c \in Ids, row[n][c] # NoRow
    PROVE  row[n][c].home \in Homes /\ row[n][c].alias \in Aliases /\ row[n][c].visibility \in Visibility
  <1>1. row[n][c] \in Row
    BY DEF TypeOK
  <1> QED BY <1>1 DEF Row

LEMMA InviteCases ==
    ASSUME TypeOK, NEW i \in Tokens, invite[i] # NoInvite
    PROVE  invite[i].home \in Homes /\ invite[i].chan \in Ids /\ invite[i].key \in Homes \cup {NoHome}
  <1>1. invite[i] \in Invite
    BY DEF TypeOK
  <1> QED BY <1>1 DEF Invite

Pcs == {"created", "joined", "keyed", "minted", "leaving", "left"}

\* Cite for an operation that begins.
LEMMA BeginAt ==
    ASSUME TypeOK, NEW p \in Procs, NEW pc \in Pcs, NEW h \in Homes, NEW c \in Ids, NEW a \in Aliases,
           NEW k \in Homes \cup {NoHome}, Begin(p, pc, h, c, a, k)
    PROVE  /\ op[p] = Idle /\ op' \in [Procs -> {Idle} \cup Held] /\ begun' \in 0..MaxOps
           /\ op'[p] = [pc |-> pc, home |-> h, chan |-> c, alias |-> a, key |-> k]
           /\ \A q \in Procs \ {p} : op'[q] = op[q]
  <1>1. begun \in Nat /\ MaxOps \in Nat /\ op \in [Procs -> {Idle} \cup Held]
    BY MembershipAssumption DEF TypeOK
  <1>2. begun' \in 0..MaxOps
    BY <1>1 DEF Begin
  <1>3. [pc |-> pc, home |-> h, chan |-> c, alias |-> a, key |-> k] \in Held
    BY DEF Held, Pcs
  <1> QED BY <1>1, <1>2, <1>3 DEF Begin

\* Cite for a step of an operation under way.
LEMMA MoveAt ==
    ASSUME TypeOK, NEW p \in Procs, NEW pc \in Pcs, op[p].pc # "idle", Move(p, pc)
    PROVE  /\ op' \in [Procs -> {Idle} \cup Held] /\ begun' = begun
           /\ op'[p].pc = pc /\ op'[p].home = op[p].home /\ op'[p].chan = op[p].chan
           /\ op'[p].alias = op[p].alias /\ op'[p].key = op[p].key
           /\ \A q \in Procs \ {p} : op'[q] = op[q]
  <1>1. op \in [Procs -> {Idle} \cup Held] /\ op[p] \in Held
    BY OpCases DEF TypeOK
  <1>2. op' = [op EXCEPT ![p].pc = pc] /\ begun' = begun
    BY DEF Move
  <1>3. [op[p] EXCEPT !.pc = pc] \in Held
    BY <1>1 DEF Held, Pcs
  <1>4. op'[p] = [op[p] EXCEPT !.pc = pc] /\ \A q \in Procs \ {p} : op'[q] = op[q]
    BY <1>1, <1>2
  <1>5. op' \in [Procs -> {Idle} \cup Held]
    BY <1>1, <1>2, <1>3
  <1> QED BY <1>1, <1>2, <1>4, <1>5 DEF Held

\* Cite for an operation that ends.
LEMMA FinishAt ==
    ASSUME TypeOK, NEW p \in Procs, Finish(p)
    PROVE  /\ op' \in [Procs -> {Idle} \cup Held] /\ begun' = begun
           /\ op'[p] = Idle /\ op'[p].pc = "idle" /\ \A q \in Procs \ {p} : op'[q] = op[q]
  BY DEF Finish, TypeOK, Idle

LEMMA MemberSet ==
    ASSUME TypeOK, NEW h \in Homes, NEW c \in Ids, NEW a \in Aliases, NEW x \in Nodes \cup {NoNode}
    PROVE  [member EXCEPT ![h][c][a] = x] \in [Homes -> [Ids -> [Aliases -> Nodes \cup {NoNode}]]]
  <1>1. member[h][c] \in [Aliases -> Nodes \cup {NoNode}] /\ member[h] \in [Ids -> [Aliases -> Nodes \cup {NoNode}]]
    BY DEF TypeOK
  <1>2. [member[h][c] EXCEPT ![a] = x] \in [Aliases -> Nodes \cup {NoNode}]
    BY <1>1
  <1>3. [member[h] EXCEPT ![c] = [member[h][c] EXCEPT ![a] = x]] \in [Ids -> [Aliases -> Nodes \cup {NoNode}]]
    BY <1>1, <1>2
  <1> QED BY <1>3 DEF TypeOK

LEMMA MemberAt ==
    ASSUME TypeOK, NEW h \in Homes, NEW c \in Ids, NEW a \in Aliases, NEW x,
           NEW g \in Homes, NEW d \in Ids, NEW b \in Aliases
    PROVE  [member EXCEPT ![h][c][a] = x][g][d][b] = IF g = h /\ d = c /\ b = a THEN x ELSE member[g][d][b]
  <1>1. member \in [Homes -> [Ids -> [Aliases -> Nodes \cup {NoNode}]]]
    BY DEF TypeOK
  <1> QED BY <1>1

\* What an admission may do to the aliases of the homes.
LEMMA AdmitAt ==
    ASSUME TypeOK, NEW n \in Nodes, NEW h \in Homes, NEW c \in Ids, NEW a \in Aliases, Admit(h, c, n, a),
           NEW g \in Homes, NEW d \in Ids, NEW b \in Aliases
    PROVE  /\ member'[g][d][b] # member[g][d][b] =>
                g = h /\ d = c /\ b = a /\ member[g][d][b] = NoNode /\ member'[g][d][b] = n
           /\ ~astray' => ~astray /\ member'[h][c][a] = n
           /\ member' \in [Homes -> [Ids -> [Aliases -> Nodes \cup {NoNode}]]]
           /\ astray' \in BOOLEAN
  <1>0. member \in [Homes -> [Ids -> [Aliases -> Nodes \cup {NoNode}]]] /\ astray \in BOOLEAN
    BY DEF TypeOK
  <1>1. CASE member' = member /\ astray' = (astray \/ member[h][c][a] # n)
    BY <1>0, <1>1
  <1>2. CASE MayEnter(h, c, n, a) /\ member' = [member EXCEPT ![h][c][a] = n] /\ astray' = astray
    <2>1. member'[g][d][b] = IF g = h /\ d = c /\ b = a THEN n ELSE member[g][d][b]
      BY <1>2, MemberAt
    <2>2. [member EXCEPT ![h][c][a] = n][h][c][a] = n
      BY <1>0
    <2>3. member' \in [Homes -> [Ids -> [Aliases -> Nodes \cup {NoNode}]]]
      BY <1>2, MemberSet
    <2> QED BY <1>0, <1>2, <2>1, <2>2, <2>3 DEF MayEnter
  <1> QED BY <1>1, <1>2 DEF Admit, AddMember

LEMMA JoinForm ==
    ASSUME TypeOK, InviteReal, NEW p \in Procs, NEW a \in Aliases,
           (\E h \in Homes, c \in Ids : JoinOpen(p, h, c, a)) \/ (\E i \in Tokens : JoinByInvite(p, i, a))
    PROVE  Enters(p)
  <1>1. ASSUME NEW h \in Homes, NEW c \in Ids, JoinOpen(p, h, c, a) PROVE Joins(p, h, c, a, NoHome)
    <2>1. /\ Admit(h, c, NodeOf[p], a) /\ Begin(p, "joined", h, c, a, NoHome)
          /\ UNCHANGED <<channel, invite, row, keyFile, rekeyed>>
          /\ (h \in LocalHomes /\ channel[h][c] # "none") \/ channel[h][c] = "public"
      BY <1>1 DEF JoinOpen, JoinChannel, JoinPublic
    <2> QED BY <2>1 DEF Joins, KeyFor, Sealed
  <1>2. ASSUME NEW i \in Tokens, JoinByInvite(p, i, a)
        PROVE  Joins(p, invite[i].home, invite[i].chan, a, invite[i].key)
    <2>1. /\ invite[i] # NoInvite
          /\ Admit(invite[i].home, invite[i].chan, NodeOf[p], a)
          /\ Begin(p, "joined", invite[i].home, invite[i].chan, a, invite[i].key)
          /\ UNCHANGED <<channel, invite, row, keyFile, rekeyed>>
      BY <1>2 DEF JoinByInvite
    <2>2. Genuine(invite[i])
      BY <2>1 DEF InviteReal
    <2> QED BY <2>1, <2>2 DEF Joins, Genuine
  <1>3. NoHome \in Homes \cup {NoHome}
    OBVIOUS
  <1>4. ASSUME NEW i \in Tokens, JoinByInvite(p, i, a)
        PROVE  invite[i].home \in Homes /\ invite[i].chan \in Ids /\ invite[i].key \in Homes \cup {NoHome}
    <2>1. invite[i] # NoInvite
      BY <1>4 DEF JoinByInvite
    <2> QED BY <2>1, InviteCases
  <1>5. CASE \E h \in Homes, c \in Ids : JoinOpen(p, h, c, a)
    BY <1>1, <1>3, <1>5 DEF Enters
  <1>6. CASE \E i \in Tokens : JoinByInvite(p, i, a)
    BY <1>2, <1>4, <1>6 DEF Enters
  <1> QED BY <1>5, <1>6

\* The steps as the lemmas below take them.
LEMMA StepForm ==
    ASSUME TypeOK, InviteReal, Next
    PROVE  \E p \in Procs :
             \/ SaveKey(p) \/ RecordMembership(p)
             \/ LeaveAtHome(p) \/ ForgetChannel(p) \/ CutOff(p)
             \/ \E h \in Homes, a \in Aliases, v \in Visibility : CreateChannel(p, h, a, v)
             \/ Enters(p)
             \/ \E c \in Ids : LeaveChannel(p, c)
             \/ \E c \in Ids : CreateInvite(p, c)
             \/ \E i \in Tokens : LinkInvite(p, i)
  <1>1. PICK p \in Procs : Acts(p)
    BY DEF Next, Acts
  <1>2. (\E h \in Homes, c \in Ids, a \in Aliases : JoinOpen(p, h, c, a)) => Enters(p)
    BY JoinForm
  <1>3. (\E i \in Tokens, a \in Aliases : JoinByInvite(p, i, a)) => Enters(p)
    BY JoinForm
  <1> QED BY <1>1, <1>2, <1>3, Zenon DEF Acts

LEMMA UsesStep == ASSUME TypeOK, Next PROVE uses' \in [Tokens -> 0..MaxUses]
  <1> PICK p \in Procs : Acts(p)
    BY DEF Next, Acts
  <1>0. uses \in [Tokens -> 0..MaxUses] /\ MaxUses \in Nat
    BY MembershipAssumption DEF TypeOK
  <1>1. ASSUME NEW i \in Tokens, Redeem(i) PROVE uses' \in [Tokens -> 0..MaxUses]
    <2>1. uses[i] \in 0..MaxUses /\ uses[i] < MaxUses /\ uses' = [uses EXCEPT ![i] = uses[i] + 1]
      BY <1>0, <1>1 DEF Redeem
    <2>2. uses[i] + 1 \in 0..MaxUses
      BY <1>0, <2>1
    <2> QED BY <1>0, <2>1, <2>2
  <1>2. ASSUME NEW i \in Tokens, NEW a \in Aliases, JoinByInvite(p, i, a) PROVE uses' = uses \/ Redeem(i)
    BY <1>2, Zenon DEF JoinByInvite
  <1>3. SaveKey(p) \/ RecordMembership(p) \/ LeaveAtHome(p) \/ ForgetChannel(p) \/ CutOff(p) => uses' = uses
    BY DEF SaveKey, RecordMembership, LeaveAtHome, ForgetChannel, CutOff, homeVars
  <1>4. ASSUME NEW h \in Homes, NEW a \in Aliases, NEW v \in Visibility, CreateChannel(p, h, a, v) PROVE uses' = uses
    BY <1>4 DEF CreateChannel
  <1>5. ASSUME NEW h \in Homes, NEW c \in Ids, NEW a \in Aliases, JoinOpen(p, h, c, a) PROVE uses' = uses
    BY <1>5 DEF JoinOpen, JoinChannel, JoinPublic
  <1>6. ASSUME NEW c \in Ids, LeaveChannel(p, c) \/ CreateInvite(p, c) PROVE uses' = uses
    BY <1>6 DEF LeaveChannel, CreateInvite, homeVars
  <1>7. ASSUME NEW i \in Tokens, LinkInvite(p, i) PROVE uses' = uses
    BY <1>7 DEF LinkInvite, homeVars
  <1> QED BY <1>0, <1>1, <1>2, <1>3, <1>4, <1>5, <1>6, <1>7 DEF Acts

LEMMA TypeStep == ASSUME TypeOK, KeyTravels, Next PROVE TypeOK'
  <1>0. PICK p \in Procs :
           \/ SaveKey(p) \/ RecordMembership(p)
           \/ LeaveAtHome(p) \/ ForgetChannel(p) \/ CutOff(p)
           \/ \E h \in Homes, a \in Aliases, v \in Visibility : CreateChannel(p, h, a, v)
           \/ Enters(p)
           \/ \E c \in Ids : LeaveChannel(p, c)
           \/ \E c \in Ids : CreateInvite(p, c)
           \/ \E i \in Tokens : LinkInvite(p, i)
    BY StepForm DEF KeyTravels
  <1>u. uses' \in [Tokens -> 0..MaxUses]
    BY UsesStep
  <1>n. NodeOf[p] \in Nodes
    BY OpCases
  <1>1. CASE SaveKey(p)
    <2>1. op[p].pc # "idle" /\ Move(p, "keyed") /\ UNCHANGED <<homeVars, invite, row, astray>>
          /\ keyFile' = [keyFile EXCEPT ![NodeOf[p]][op[p].chan] = op[p].key]
          /\ rekeyed' \in BOOLEAN
      BY <1>1 DEF SaveKey, WriteKey, TypeOK
    <2>2. op[p].chan \in Ids /\ op[p].key \in Homes \cup {NoHome}
      BY <2>1, OpCases
    <2>3. keyFile' \in [Nodes -> [Ids -> Homes \cup {NoHome}]]
      BY <1>n, <2>1, <2>2 DEF TypeOK
    <2>4. op' \in [Procs -> {Idle} \cup Held] /\ begun' = begun
      BY <2>1, MoveAt DEF Pcs
    <2> QED BY <2>1, <2>3, <2>4 DEF homeVars, TypeOK
  <1>2. CASE RecordMembership(p)
    <2>1. op[p].pc \in {"created", "joined", "keyed"} /\ Finish(p)
          /\ UNCHANGED <<homeVars, invite, keyFile, astray, rekeyed>>
          /\ row' = [row EXCEPT ![NodeOf[p]][op[p].chan] =
                       [home |-> op[p].home, alias |-> op[p].alias, visibility |-> channel[op[p].home][op[p].chan]]]
      BY <1>2 DEF RecordMembership
    <2>2. op[p].home \in Homes /\ op[p].chan \in Ids /\ op[p].alias \in Aliases
      BY <2>1, OpCases
    <2>3. channel[op[p].home][op[p].chan] \in Visibility
      BY <2>1, <2>2 DEF KeyTravels, OpReal, Carrying, Genuine, TypeOK
    <2>4. [home |-> op[p].home, alias |-> op[p].alias, visibility |-> channel[op[p].home][op[p].chan]] \in Row
      BY <2>2, <2>3 DEF Row
    <2>5. row' \in [Nodes -> [Ids -> Row \cup {NoRow}]]
      BY <1>n, <2>1, <2>2, <2>4 DEF TypeOK
    <2>6. op' \in [Procs -> {Idle} \cup Held] /\ begun' = begun
      BY <2>1, FinishAt
    <2> QED BY <2>1, <2>5, <2>6 DEF homeVars, TypeOK
  <1>3. CASE LeaveAtHome(p)
    <2>1. op[p].pc # "idle" /\ Move(p, "left") /\ UNCHANGED <<channel, uses, invite, row, keyFile, rekeyed>>
          /\ astray' \in BOOLEAN
          /\ (member' = member \/ member' = [member EXCEPT ![op[p].home][op[p].chan][op[p].alias] = NoNode])
      BY <1>3 DEF LeaveAtHome, DeleteMember, TypeOK
    <2>2. op[p].home \in Homes /\ op[p].chan \in Ids /\ op[p].alias \in Aliases
      BY <2>1, OpCases
    <2>3. [member EXCEPT ![op[p].home][op[p].chan][op[p].alias] = NoNode]
            \in [Homes -> [Ids -> [Aliases -> Nodes \cup {NoNode}]]]
      BY <2>2, MemberSet
    <2>4. op' \in [Procs -> {Idle} \cup Held] /\ begun' = begun
      BY <2>1, MoveAt DEF Pcs
    <2> QED BY <2>1, <2>3, <2>4 DEF TypeOK
  <1>4. CASE ForgetChannel(p)
    <2>1. op[p].pc # "idle" /\ Finish(p) /\ UNCHANGED <<homeVars, invite, keyFile, astray, rekeyed>>
          /\ row' = [row EXCEPT ![NodeOf[p]][op[p].chan] = NoRow]
      BY <1>4 DEF ForgetChannel
    <2>2. op[p].chan \in Ids
      BY <2>1, OpCases
    <2>3. row' \in [Nodes -> [Ids -> Row \cup {NoRow}]]
      BY <1>n, <2>1, <2>2 DEF TypeOK
    <2>4. op' \in [Procs -> {Idle} \cup Held] /\ begun' = begun
      BY <2>1, FinishAt
    <2> QED BY <2>1, <2>3, <2>4 DEF homeVars, TypeOK
  <1>5. CASE CutOff(p)
    <2>1. Finish(p) /\ UNCHANGED <<homeVars, invite, row, keyFile>> /\ astray' \in BOOLEAN /\ rekeyed' \in BOOLEAN
      BY <1>5 DEF CutOff, TypeOK
    <2>2. op' \in [Procs -> {Idle} \cup Held] /\ begun' = begun
      BY <2>1, FinishAt
    <2> QED BY <2>1, <2>2 DEF homeVars, TypeOK
  <1>6. ASSUME NEW h \in Homes, NEW a \in Aliases, NEW v \in Visibility, CreateChannel(p, h, a, v) PROVE TypeOK'
    <2>1. PICK c \in Ids :
            /\ channel' = [channel EXCEPT ![h][c] = v]
            /\ member' = [member EXCEPT ![h][c][a] = NodeOf[p]]
            /\ Begin(p, "created", h, c, a, KeyFor(h, v))
      BY <1>6 DEF CreateChannel, AddMember
    <2>2. KeyFor(h, v) \in Homes \cup {NoHome}
      BY DEF KeyFor
    <2>3. op' \in [Procs -> {Idle} \cup Held] /\ begun' \in 0..MaxOps
      BY <2>1, <2>2, BeginAt DEF Pcs
    <2>4. member' \in [Homes -> [Ids -> [Aliases -> Nodes \cup {NoNode}]]]
      BY <1>n, <2>1, MemberSet
    <2>5. channel' \in [Homes -> [Ids -> Visibility \cup {"none"}]]
      BY <2>1 DEF TypeOK
    <2> QED BY <1>6, <2>3, <2>4, <2>5 DEF CreateChannel, TypeOK
  <1>7. CASE Enters(p)
    <2>1. PICK h \in Homes, c \in Ids, a \in Aliases, k \in Homes \cup {NoHome} : Joins(p, h, c, a, k)
      BY <1>7 DEF Enters
    <2>2. Admit(h, c, NodeOf[p], a) /\ Begin(p, "joined", h, c, a, k)
          /\ UNCHANGED <<channel, invite, row, keyFile, rekeyed>>
      BY <2>1 DEF Joins
    <2>3. op' \in [Procs -> {Idle} \cup Held] /\ begun' \in 0..MaxOps
      BY <2>2, BeginAt DEF Pcs
    <2>4. member' \in [Homes -> [Ids -> [Aliases -> Nodes \cup {NoNode}]]] /\ astray' \in BOOLEAN
      BY <1>n, <2>2, AdmitAt
    <2> QED BY <1>u, <2>2, <2>3, <2>4 DEF TypeOK
  <1>8. ASSUME NEW c \in Ids, LeaveChannel(p, c) PROVE TypeOK'
    <2> DEFINE r == row[NodeOf[p]][c]
    <2>1. r # NoRow /\ Begin(p, "leaving", r.home, c, r.alias, NoHome) /\ astray' \in BOOLEAN
          /\ UNCHANGED <<homeVars, invite, row, keyFile, rekeyed>>
      BY <1>8 DEF LeaveChannel, TypeOK
    <2>2. r.home \in Homes /\ r.alias \in Aliases
      BY <1>n, <2>1, RowCases
    <2> HIDE DEF r
    <2>3. op' \in [Procs -> {Idle} \cup Held] /\ begun' \in 0..MaxOps
      BY <2>1, <2>2, BeginAt DEF Pcs
    <2> QED BY <2>1, <2>3 DEF homeVars, TypeOK
  <1>9. ASSUME NEW c \in Ids, CreateInvite(p, c) PROVE TypeOK'
    <2> DEFINE r == row[NodeOf[p]][c]
               k == KeyFor(r.home, r.visibility)
    <2>1. r # NoRow /\ Begin(p, "minted", r.home, c, r.alias, k) /\ rekeyed' \in BOOLEAN
          /\ UNCHANGED <<homeVars, invite, row, keyFile, astray>>
      BY <1>9 DEF CreateInvite, TypeOK
    <2>2. r.home \in Homes /\ r.alias \in Aliases
      BY <1>n, <2>1, RowCases
    <2>3. k \in Homes \cup {NoHome}
      BY <2>2 DEF KeyFor
    <2> HIDE DEF r, k
    <2>4. op' \in [Procs -> {Idle} \cup Held] /\ begun' \in 0..MaxOps
      BY <2>1, <2>2, <2>3, BeginAt DEF Pcs
    <2> QED BY <2>1, <2>4 DEF homeVars, TypeOK
  <1>10. ASSUME NEW i \in Tokens, LinkInvite(p, i) PROVE TypeOK'
    <2> DEFINE k == IF op[p].key = NoHome THEN NoHome ELSE keyFile[NodeOf[p]][op[p].chan]
    <2>1. op[p].pc = "minted" /\ Finish(p) /\ UNCHANGED <<homeVars, row, keyFile, astray, rekeyed>>
          /\ invite' = [invite EXCEPT ![i] = [home |-> op[p].home, chan |-> op[p].chan, key |-> k]]
      BY <1>10 DEF LinkInvite
    <2>2. op[p].home \in Homes /\ op[p].chan \in Ids
      BY <2>1, OpCases
    <2>3. k \in Homes \cup {NoHome}
      BY <1>n, <2>2 DEF TypeOK
    <2>4. [home |-> op[p].home, chan |-> op[p].chan, key |-> k] \in Invite
      BY <2>2, <2>3 DEF Invite
    <2> HIDE DEF k
    <2>5. op' \in [Procs -> {Idle} \cup Held] /\ begun' = begun
      BY <2>1, FinishAt
    <2>6. invite' \in [Tokens -> Invite \cup {NoInvite}]
      BY <2>1, <2>4 DEF TypeOK
    <2> QED BY <2>1, <2>5, <2>6 DEF homeVars, TypeOK
  <1> QED BY <1>0, <1>1, <1>2, <1>3, <1>4, <1>5, <1>6, <1>7, <1>8, <1>9, <1>10

-----------------------------------------------------------------------------
\* What a leave at the home does to the aliases.
LEMMA LeaveAt ==
    ASSUME TypeOK, NEW p \in Procs, LeaveAtHome(p), NEW g \in Homes, NEW d \in Ids, NEW b \in Aliases,
           member'[g][d][b] # member[g][d][b]
    PROVE  /\ g = op[p].home /\ d = op[p].chan /\ b = op[p].alias /\ op[p].home \in LocalHomes
           /\ member'[g][d][b] = NoNode
  <1>1. op[p].pc # "idle"
    BY DEF LeaveAtHome
  <1>2. op[p].home \in Homes /\ op[p].chan \in Ids /\ op[p].alias \in Aliases
    BY <1>1, OpCases
  <1>3. op[p].home \in LocalHomes /\ member' = [member EXCEPT ![op[p].home][op[p].chan][op[p].alias] = NoNode]
    BY DEF LeaveAtHome, DeleteMember
  <1> QED BY <1>2, <1>3, MemberAt

LEMMA VacantStep == ASSUME TypeOK, InviteReal, Vacant, Next PROVE Vacant'
  <1> SUFFICES ASSUME NEW g \in Homes, NEW d \in Ids, NEW b \in Aliases, channel'[g][d] = "none"
               PROVE  member'[g][d][b] = NoNode
    BY DEF Vacant
  <1>0. PICK p \in Procs :
           \/ SaveKey(p) \/ RecordMembership(p)
           \/ LeaveAtHome(p) \/ ForgetChannel(p) \/ CutOff(p)
           \/ \E h \in Homes, a \in Aliases, v \in Visibility : CreateChannel(p, h, a, v)
           \/ Enters(p)
           \/ \E c \in Ids : LeaveChannel(p, c)
           \/ \E c \in Ids : CreateInvite(p, c)
           \/ \E i \in Tokens : LinkInvite(p, i)
    BY StepForm
  <1>1. CASE UNCHANGED <<channel, member>>
    BY <1>1 DEF Vacant
  <1>2. SaveKey(p) \/ RecordMembership(p) \/ ForgetChannel(p) \/ CutOff(p) => UNCHANGED <<channel, member>>
    BY DEF SaveKey, RecordMembership, ForgetChannel, CutOff, homeVars
  <1>3. CASE LeaveAtHome(p)
    BY <1>3, LeaveAt DEF Vacant, LeaveAtHome
  <1>4. ASSUME NEW h \in Homes, NEW a \in Aliases, NEW v \in Visibility, CreateChannel(p, h, a, v)
        PROVE  member'[g][d][b] = NoNode
    <2>1. PICK c \in Ids :
            /\ channel' = [channel EXCEPT ![h][c] = v]
            /\ member' = [member EXCEPT ![h][c][a] = NodeOf[p]]
      BY <1>4 DEF CreateChannel, AddMember
    <2>2. channel'[g][d] = IF g = h /\ d = c THEN v ELSE channel[g][d]
      BY <2>1 DEF TypeOK
    <2>3. ~(g = h /\ d = c) /\ channel[g][d] = "none"
      BY <2>2 DEF Visibility
    <2> QED BY <2>1, <2>3, MemberAt DEF Vacant
  <1>5. CASE Enters(p)
    <2>1. PICK h \in Homes, c \in Ids, a \in Aliases :
            Admit(h, c, NodeOf[p], a) /\ channel[h][c] # "none" /\ UNCHANGED channel
      BY <1>5 DEF Enters, Joins
    <2> QED BY <2>1, AdmitAt, OpCases DEF Vacant
  <1>6. ASSUME NEW c \in Ids, LeaveChannel(p, c) \/ CreateInvite(p, c) PROVE UNCHANGED <<channel, member>>
    BY <1>6 DEF LeaveChannel, CreateInvite, homeVars
  <1>7. ASSUME NEW i \in Tokens, LinkInvite(p, i) PROVE UNCHANGED <<channel, member>>
    BY <1>7 DEF LinkInvite, homeVars
  <1> QED BY <1>0, <1>1, <1>2, <1>3, <1>4, <1>5, <1>6, <1>7

-----------------------------------------------------------------------------
\* A row stays out of every leave when only p moves, and p was not forgetting it.
LEMMA StillForgetting ==
    ASSUME NEW p \in Procs, NEW n \in Nodes, NEW c \in Ids, \A q \in Procs \ {p} : op'[q] = op[q],
           op[p].pc # "left" \/ op[p].home \notin LocalHomes \/ op[p].chan # c \/ NodeOf[p] # n,
           row'[n][c] = row[n][c], ~Forgetting(n, c)'
    PROVE  ~Forgetting(n, c)
  BY DEF Forgetting

\* Cite for a step of p that leaves the homes and the rows alone.
LEMMA OwnedFrame ==
    ASSUME RowOwned, EntryOwned, LeaveOwned, NEW p \in Procs, UNCHANGED <<member, row>>,
           \A q \in Procs \ {p} : op'[q] = op[q],
           op[p].pc # "left" \/ op[p].home \notin LocalHomes,
           Entering(p)' => MemberAs(op'[p], NodeOf[p]),
           op'[p].pc = "leaving" /\ op'[p].home \in LocalHomes => MemberAs(op'[p], NodeOf[p])
    PROVE  RowOwned' /\ EntryOwned' /\ LeaveOwned'
  <1>1. RowOwned'
    BY StillForgetting DEF RowOwned
  <1>2. \A q \in Procs \ {p} : (Entering(q)' <=> Entering(q)) /\ MemberAs(op'[q], NodeOf[q]) = MemberAs(op[q], NodeOf[q])
    BY DEF Entering, MemberAs
  <1>3. \A q \in Procs : MemberAs(op[q], NodeOf[q])' = MemberAs(op'[q], NodeOf[q])
    BY DEF MemberAs
  <1> QED BY <1>1, <1>2, <1>3 DEF EntryOwned, LeaveOwned

\* Cite for an entry: what was somebody's stays, and p has what it was answered.
LEMMA OwnedEntry ==
    ASSUME TypeOK, RowOwned, EntryOwned, LeaveOwned, NEW p \in Procs, op[p] = Idle, row' = row,
           \A q \in Procs \ {p} : op'[q] = op[q],
           op'[p].pc \in {"created", "joined"}, MemberAs(op[p], NodeOf[p])',
           \A g \in Homes, d \in Ids, b \in Aliases :
               member'[g][d][b] # member[g][d][b] => member[g][d][b] = NoNode
    PROVE  RowOwned' /\ EntryOwned' /\ LeaveOwned'
  <1>0. NoNode \notin Nodes /\ op[p].pc = "idle"
    BY MembershipAssumption DEF Idle
  <1>1. RowOwned'
    <2> SUFFICES ASSUME NEW n \in Nodes, NEW c \in Ids, row[n][c] # NoRow, ~Forgetting(n, c)'
                 PROVE  member'[row[n][c].home][c][row[n][c].alias] = n
      BY DEF RowOwned
    <2>1. row[n][c].home \in Homes /\ row[n][c].alias \in Aliases
      BY RowCases
    <2>2. member[row[n][c].home][c][row[n][c].alias] = n
      BY <1>0, StillForgetting DEF RowOwned
    <2> QED BY <1>0, <2>1, <2>2
  <1>2. ASSUME NEW q \in Procs \ {p}, op[q].pc # "idle", MemberAs(op[q], NodeOf[q])
        PROVE  MemberAs(op[q], NodeOf[q])'
    <2>1. op[q].home \in Homes /\ op[q].chan \in Ids /\ op[q].alias \in Aliases /\ NodeOf[q] \in Nodes
      BY <1>2, OpCases
    <2>2. op'[q] = op[q]
      OBVIOUS
    <2> QED BY <1>0, <1>2, <2>1, <2>2 DEF MemberAs
  <1>3. EntryOwned'
    <2> SUFFICES ASSUME NEW q \in Procs, Entering(q)' PROVE MemberAs(op[q], NodeOf[q])'
      BY DEF EntryOwned
    <2>1. q # p => Entering(q) /\ op[q].pc # "idle"
      BY DEF Entering
    <2> QED BY <1>2, <2>1 DEF EntryOwned
  <1>4. LeaveOwned'
    <2> SUFFICES ASSUME NEW q \in Procs, op'[q].pc = "leaving", op'[q].home \in LocalHomes
                 PROVE  MemberAs(op[q], NodeOf[q])'
      BY DEF LeaveOwned
    <2>1. q # p /\ op'[q] = op[q]
      OBVIOUS
    <2> QED BY <1>2, <2>1 DEF LeaveOwned
  <1> QED BY <1>1, <1>3, <1>4

LEMMA OwnedStep == ASSUME TypeOK, Vacant, KeyTravels, Owned, Next PROVE Owned'
  <1> SUFFICES ASSUME ~astray' PROVE RowOwned' /\ EntryOwned' /\ LeaveOwned'
    BY DEF Owned
  <1>0. PICK p \in Procs :
           \/ SaveKey(p) \/ RecordMembership(p)
           \/ LeaveAtHome(p) \/ ForgetChannel(p) \/ CutOff(p)
           \/ \E h \in Homes, a \in Aliases, v \in Visibility : CreateChannel(p, h, a, v)
           \/ Enters(p)
           \/ \E c \in Ids : LeaveChannel(p, c)
           \/ \E c \in Ids : CreateInvite(p, c)
           \/ \E i \in Tokens : LinkInvite(p, i)
    BY StepForm DEF KeyTravels
  <1> DEFINE n == NodeOf[p]
  <1>n. n \in Nodes
    BY OpCases
  <1>k. ASSUME ~astray PROVE RowOwned /\ EntryOwned /\ LeaveOwned
    BY <1>k DEF Owned
  <1>1. CASE SaveKey(p)
    <2>1. op[p].pc \in {"created", "joined"} /\ Move(p, "keyed") /\ UNCHANGED <<member, row, astray>>
      BY <1>1 DEF SaveKey, homeVars
    <2>2. /\ op'[p].pc = "keyed" /\ op'[p].home = op[p].home /\ op'[p].chan = op[p].chan
          /\ op'[p].alias = op[p].alias /\ \A q \in Procs \ {p} : op'[q] = op[q]
      BY <2>1, MoveAt DEF Pcs
    <2>3. RowOwned /\ EntryOwned /\ LeaveOwned
      BY <1>k, <2>1
    <2>4. MemberAs(op'[p], n)
      BY <2>1, <2>2, <2>3 DEF EntryOwned, Entering, MemberAs
    <2> QED BY <2>1, <2>2, <2>3, <2>4, OwnedFrame
  <1>2. CASE RecordMembership(p)
    <2>1. Entering(p) /\ Finish(p) /\ UNCHANGED <<member, astray>>
          /\ row' = [row EXCEPT ![n][op[p].chan] =
                       [home |-> op[p].home, alias |-> op[p].alias, visibility |-> channel[op[p].home][op[p].chan]]]
      BY <1>2 DEF RecordMembership, Entering, homeVars
    <2>2. op[p].chan \in Ids /\ op'[p].pc = "idle" /\ \A q \in Procs \ {p} : op'[q] = op[q]
      BY <2>1, OpCases, FinishAt DEF Entering
    <2>3. /\ row'[n][op[p].chan].home = op[p].home /\ row'[n][op[p].chan].alias = op[p].alias
          /\ \A m \in Nodes, d \in Ids : m # n \/ d # op[p].chan => row'[m][d] = row[m][d]
      BY <1>n, <2>1, <2>2 DEF TypeOK
    <2>4. RowOwned /\ EntryOwned /\ LeaveOwned
      BY <1>k, <2>1
    <2>5. RowOwned'
      <3> SUFFICES ASSUME NEW m \in Nodes, NEW d \in Ids, row'[m][d] # NoRow, ~Forgetting(m, d)'
                   PROVE  member[row'[m][d].home][d][row'[m][d].alias] = m
        BY <2>1 DEF RowOwned
      <3>1. CASE m = n /\ d = op[p].chan
        BY <2>1, <2>3, <2>4, <3>1 DEF EntryOwned, MemberAs
      <3>2. CASE m # n \/ d # op[p].chan
        <4>1. row'[m][d] = row[m][d] /\ op[p].pc # "left"
          BY <2>1, <2>3, <3>2 DEF Entering
        <4>2. ~Forgetting(m, d)
          BY <2>2, <4>1, StillForgetting
        <4> QED BY <2>4, <4>1, <4>2 DEF RowOwned
      <3> QED BY <3>1, <3>2
    <2>6. EntryOwned' /\ LeaveOwned'
      BY <2>1, <2>2, <2>4 DEF EntryOwned, LeaveOwned, Entering, MemberAs
    <2> QED BY <2>5, <2>6
  <1>3. CASE LeaveAtHome(p)
    <2>1. op[p].pc = "leaving" /\ Move(p, "left") /\ row' = row /\ ~astray
          /\ ~LeaveCrosses(p, {"created", "joined", "leaving"}, op[p].home, op[p].chan)
      BY <1>3 DEF LeaveAtHome
    <2>2. /\ op'[p].pc = "left" /\ op'[p].home = op[p].home /\ op'[p].chan = op[p].chan
          /\ op'[p].alias = op[p].alias /\ \A q \in Procs \ {p} : op'[q] = op[q]
      BY <2>1, MoveAt DEF Pcs
    <2>3. RowOwned /\ EntryOwned /\ LeaveOwned
      BY <1>k, <2>1
    <2>4. op[p].home \in LocalHomes => MemberAs(op[p], n)
      BY <2>1, <2>3 DEF LeaveOwned
    <2>5. RowOwned'
      <3> SUFFICES ASSUME NEW m \in Nodes, NEW d \in Ids, row[m][d] # NoRow, ~Forgetting(m, d)'
                   PROVE  member'[row[m][d].home][d][row[m][d].alias] = m
        BY <2>1 DEF RowOwned
      <3>1. row[m][d].home \in Homes /\ row[m][d].alias \in Aliases
        BY RowCases
      <3>2. ~Forgetting(m, d)
        BY <2>1, <2>2, StillForgetting
      <3>3. member[row[m][d].home][d][row[m][d].alias] = m
        BY <2>3, <3>2 DEF RowOwned
      <3>4. ASSUME row[m][d].home = op[p].home, d = op[p].chan, row[m][d].alias = op[p].alias, op[p].home \in LocalHomes
            PROVE  FALSE
        <4>1. m = n
          BY <2>4, <3>3, <3>4 DEF MemberAs
        <4> QED BY <2>1, <2>2, <3>4, <4>1 DEF Forgetting
      <3> QED BY <1>3, <3>1, <3>3, <3>4, LeaveAt
    <2>6. ASSUME NEW q \in Procs \ {p}, MemberAs(op[q], NodeOf[q]), op[q].pc \in {"created", "joined", "keyed", "leaving"}
          PROVE  MemberAs(op[q], NodeOf[q])'
      <3>1. op[q].home \in Homes /\ op[q].chan \in Ids /\ op[q].alias \in Aliases /\ op'[q] = op[q]
        BY <2>2, <2>6, OpCases
      <3>2. ASSUME op[q].home = op[p].home, op[q].chan = op[p].chan, op[q].alias = op[p].alias, op[p].home \in LocalHomes
            PROVE  FALSE
        <4>1. NodeOf[q] = n
          BY <2>4, <2>6, <3>2 DEF MemberAs
        <4>2. op[q].pc # "keyed"
          BY <3>2 DEF KeyTravels, OpReal, Carrying, Genuine
        <4> QED BY <2>1, <2>6, <3>2, <4>1, <4>2 DEF LeaveCrosses, Beside
      <3>3. member'[op[q].home][op[q].chan][op[q].alias] = member[op[q].home][op[q].chan][op[q].alias]
        BY <1>3, <3>1, <3>2, LeaveAt
      <3> QED BY <2>6, <3>1, <3>3 DEF MemberAs
    <2>7. EntryOwned'
      BY <2>2, <2>3, <2>6 DEF EntryOwned, Entering, MemberAs
    <2>8. LeaveOwned'
      BY <2>2, <2>3, <2>6 DEF LeaveOwned, MemberAs
    <2> QED BY <2>5, <2>7, <2>8
  <1>4. CASE ForgetChannel(p)
    <2>1. op[p].pc = "left" /\ Finish(p) /\ UNCHANGED <<member, astray>>
          /\ row' = [row EXCEPT ![n][op[p].chan] = NoRow]
      BY <1>4 DEF ForgetChannel, homeVars
    <2>2. op[p].chan \in Ids /\ op'[p].pc = "idle" /\ \A q \in Procs \ {p} : op'[q] = op[q]
      BY <2>1, OpCases, FinishAt
    <2>3. /\ row'[n][op[p].chan] = NoRow
          /\ \A m \in Nodes, d \in Ids : m # n \/ d # op[p].chan => row'[m][d] = row[m][d]
      BY <1>n, <2>1, <2>2 DEF TypeOK
    <2>4. RowOwned /\ EntryOwned /\ LeaveOwned
      BY <1>k, <2>1
    <2>5. RowOwned'
      <3> SUFFICES ASSUME NEW m \in Nodes, NEW d \in Ids, row'[m][d] # NoRow, ~Forgetting(m, d)'
                   PROVE  member[row'[m][d].home][d][row'[m][d].alias] = m
        BY <2>1 DEF RowOwned
      <3>1. m # n \/ d # op[p].chan
        BY <2>3
      <3>2. row'[m][d] = row[m][d]
        BY <2>3, <3>1
      <3>3. ~Forgetting(m, d)
        BY <2>2, <3>1, <3>2, StillForgetting
      <3> QED BY <2>4, <3>2, <3>3 DEF RowOwned
    <2>6. EntryOwned' /\ LeaveOwned'
      BY <2>1, <2>2, <2>4 DEF EntryOwned, LeaveOwned, Entering, MemberAs
    <2> QED BY <2>5, <2>6
  <1>5. CASE CutOff(p)
    <2>1. Finish(p) /\ UNCHANGED <<member, row>> /\ ~astray /\ ~(op[p].pc = "left" /\ op[p].home \in LocalHomes)
      BY <1>5 DEF CutOff, homeVars
    <2>2. op'[p].pc = "idle" /\ \A q \in Procs \ {p} : op'[q] = op[q]
      BY <2>1, FinishAt
    <2> QED BY <1>k, <2>1, <2>2, OwnedFrame DEF Entering
  <1>6. ASSUME NEW h \in Homes, NEW a \in Aliases, NEW v \in Visibility, CreateChannel(p, h, a, v)
        PROVE  RowOwned' /\ EntryOwned' /\ LeaveOwned'
    <2>1. PICK c \in Ids :
            /\ MayTakeId(h, c)
            /\ member' = [member EXCEPT ![h][c][a] = n]
            /\ Begin(p, "created", h, c, a, KeyFor(h, v))
      BY <1>6 DEF CreateChannel, AddMember
    <2>2. row' = row /\ ~astray /\ KeyFor(h, v) \in Homes \cup {NoHome}
      BY <1>6 DEF CreateChannel, KeyFor
    <2>3. /\ op[p] = Idle /\ \A q \in Procs \ {p} : op'[q] = op[q]
          /\ op'[p] = [pc |-> "created", home |-> h, chan |-> c, alias |-> a, key |-> KeyFor(h, v)]
      BY <2>1, <2>2, BeginAt DEF Pcs
    <2>4. channel[h][c] = "none"
      BY <2>1 DEF MayTakeId
    <2>5. \A g \in Homes, d \in Ids, b \in Aliases :
              member'[g][d][b] = IF g = h /\ d = c /\ b = a THEN n ELSE member[g][d][b]
      BY <2>1, MemberAt
    <2>6. MemberAs(op[p], n)'
      BY <2>3, <2>5 DEF MemberAs
    <2>7. \A g \in Homes, d \in Ids, b \in Aliases :
              member'[g][d][b] # member[g][d][b] => member[g][d][b] = NoNode
      BY <2>4, <2>5 DEF Vacant
    <2>8. op'[p].pc \in {"created", "joined"}
      BY <2>3
    <2> QED BY <1>k, <2>2, <2>3, <2>6, <2>7, <2>8, OwnedEntry
  <1>7. CASE Enters(p)
    <2>1. PICK h \in Homes, c \in Ids, a \in Aliases, k \in Homes \cup {NoHome} :
            Admit(h, c, n, a) /\ Begin(p, "joined", h, c, a, k) /\ row' = row
      BY <1>7 DEF Enters, Joins
    <2>2. ~astray /\ member'[h][c][a] = n
      BY <1>n, <2>1, AdmitAt
    <2>3. /\ op[p] = Idle /\ \A q \in Procs \ {p} : op'[q] = op[q]
          /\ op'[p] = [pc |-> "joined", home |-> h, chan |-> c, alias |-> a, key |-> k]
      BY <2>1, BeginAt DEF Pcs
    <2>4. \A g \in Homes, d \in Ids, b \in Aliases :
              member'[g][d][b] # member[g][d][b] => member[g][d][b] = NoNode
      BY <1>n, <2>1, AdmitAt
    <2>5. MemberAs(op[p], n)' /\ op'[p].pc \in {"created", "joined"}
      BY <2>2, <2>3 DEF MemberAs
    <2> QED BY <1>k, <2>1, <2>2, <2>3, <2>4, <2>5, OwnedEntry
  <1>8. ASSUME NEW c \in Ids, LeaveChannel(p, c) PROVE RowOwned' /\ EntryOwned' /\ LeaveOwned'
    <2> DEFINE r == row[n][c]
    <2>1. /\ r # NoRow /\ Begin(p, "leaving", r.home, c, r.alias, NoHome) /\ UNCHANGED <<member, row>>
          /\ ~astray /\ ~LeaveCrosses(p, {"left"}, r.home, c)
      BY <1>8 DEF LeaveChannel, homeVars
    <2>2. r.home \in Homes /\ r.alias \in Aliases
      BY <1>n, <2>1, RowCases
    <2>3. /\ op[p] = Idle /\ \A q \in Procs \ {p} : op'[q] = op[q]
          /\ op'[p] = [pc |-> "leaving", home |-> r.home, chan |-> c, alias |-> r.alias, key |-> NoHome]
      BY <2>1, <2>2, BeginAt DEF Pcs
    <2>4. ASSUME r.home \in LocalHomes PROVE MemberAs(op'[p], n)
      <3>1. ~Forgetting(n, c)
        BY <2>1, <2>3, <2>4 DEF LeaveCrosses, Beside, Forgetting, Idle
      <3>2. member[r.home][c][r.alias] = n
        BY <1>k, <1>n, <2>1, <3>1 DEF RowOwned
      <3> QED BY <2>3, <3>2 DEF MemberAs
    <2>5. op[p].pc # "left" /\ op'[p].pc = "leaving" /\ op'[p].home = r.home
      BY <2>3 DEF Idle
    <2> QED BY <1>k, <2>1, <2>3, <2>4, <2>5, OwnedFrame DEF Entering
  <1>9. ASSUME NEW c \in Ids, CreateInvite(p, c) PROVE RowOwned' /\ EntryOwned' /\ LeaveOwned'
    <2> DEFINE r == row[n][c]
               k == KeyFor(r.home, r.visibility)
    <2>1. r # NoRow /\ Begin(p, "minted", r.home, c, r.alias, k) /\ UNCHANGED <<member, row>> /\ ~astray
      BY <1>9 DEF CreateInvite, homeVars
    <2>2. r.home \in Homes /\ r.alias \in Aliases /\ k \in Homes \cup {NoHome}
      BY <1>n, <2>1, RowCases DEF KeyFor
    <2> HIDE DEF r, k
    <2>3. /\ op[p] = Idle /\ \A q \in Procs \ {p} : op'[q] = op[q]
          /\ op'[p] = [pc |-> "minted", home |-> r.home, chan |-> c, alias |-> r.alias, key |-> k]
      BY <2>1, <2>2, BeginAt DEF Pcs
    <2>4. op[p].pc # "left" /\ op'[p].pc = "minted"
      BY <2>3 DEF Idle
    <2> QED BY <1>k, <2>1, <2>3, <2>4, OwnedFrame DEF Entering
  <1>10. ASSUME NEW i \in Tokens, LinkInvite(p, i) PROVE RowOwned' /\ EntryOwned' /\ LeaveOwned'
    <2>1. op[p].pc = "minted" /\ Finish(p) /\ UNCHANGED <<member, row>> /\ ~astray
      BY <1>10 DEF LinkInvite, homeVars
    <2>2. op'[p].pc = "idle" /\ \A q \in Procs \ {p} : op'[q] = op[q]
      BY <2>1, FinishAt
    <2> QED BY <1>k, <2>1, <2>2, OwnedFrame DEF Entering
  <1> QED BY <1>0, <1>1, <1>2, <1>3, <1>4, <1>5, <1>6, <1>7, <1>8, <1>9, <1>10

-----------------------------------------------------------------------------
\* A profile that held two keys of one id stays marked.
LEMMA RekeyedStays == ASSUME TypeOK, InviteReal, Next, rekeyed PROVE rekeyed'
  <1>0. PICK p \in Procs :
           \/ SaveKey(p) \/ RecordMembership(p)
           \/ LeaveAtHome(p) \/ ForgetChannel(p) \/ CutOff(p)
           \/ \E h \in Homes, a \in Aliases, v \in Visibility : CreateChannel(p, h, a, v)
           \/ Enters(p)
           \/ \E c \in Ids : LeaveChannel(p, c)
           \/ \E c \in Ids : CreateInvite(p, c)
           \/ \E i \in Tokens : LinkInvite(p, i)
    BY StepForm
  <1>1. RecordMembership(p) \/ LeaveAtHome(p) \/ ForgetChannel(p) => rekeyed' = rekeyed
    BY DEF RecordMembership, LeaveAtHome, ForgetChannel
  <1>2. SaveKey(p) => rekeyed'
    BY Zenon DEF SaveKey
  <1>3. CutOff(p) => rekeyed'
    BY Zenon DEF CutOff
  <1>4. ASSUME NEW h \in Homes, NEW a \in Aliases, NEW v \in Visibility, CreateChannel(p, h, a, v)
        PROVE  rekeyed' = rekeyed
    BY <1>4 DEF CreateChannel
  <1>5. Enters(p) => rekeyed' = rekeyed
    BY DEF Enters, Joins
  <1>6. ASSUME NEW c \in Ids, LeaveChannel(p, c) PROVE rekeyed' = rekeyed
    BY <1>6 DEF LeaveChannel
  <1>7. ASSUME NEW c \in Ids, CreateInvite(p, c) PROVE rekeyed'
    BY <1>7, Zenon DEF CreateInvite
  <1>8. ASSUME NEW i \in Tokens, LinkInvite(p, i) PROVE rekeyed' = rekeyed
    BY <1>8 DEF LinkInvite
  <1> QED BY <1>0, <1>1, <1>2, <1>3, <1>4, <1>5, <1>6, <1>7, <1>8

\* A channel keeps its visibility, no operation deletes or changes one.
LEMMA ChannelKept ==
    ASSUME TypeOK, InviteReal, Next, NEW g \in Homes, NEW d \in Ids, channel[g][d] # "none"
    PROVE  channel'[g][d] = channel[g][d]
  <1>0. PICK p \in Procs :
           \/ SaveKey(p) \/ RecordMembership(p)
           \/ LeaveAtHome(p) \/ ForgetChannel(p) \/ CutOff(p)
           \/ \E h \in Homes, a \in Aliases, v \in Visibility : CreateChannel(p, h, a, v)
           \/ Enters(p)
           \/ \E c \in Ids : LeaveChannel(p, c)
           \/ \E c \in Ids : CreateInvite(p, c)
           \/ \E i \in Tokens : LinkInvite(p, i)
    BY StepForm
  <1>1. ASSUME NEW h \in Homes, NEW a \in Aliases, NEW v \in Visibility, CreateChannel(p, h, a, v)
        PROVE  channel'[g][d] = channel[g][d]
    <2>1. PICK c \in Ids : MayTakeId(h, c) /\ channel' = [channel EXCEPT ![h][c] = v]
      BY <1>1 DEF CreateChannel
    <2>2. channel[h][c] = "none"
      BY <2>1 DEF MayTakeId
    <2> QED BY <2>1, <2>2 DEF TypeOK
  <1>2. SaveKey(p) \/ RecordMembership(p) \/ LeaveAtHome(p) \/ ForgetChannel(p) \/ CutOff(p) => channel' = channel
    BY DEF SaveKey, RecordMembership, LeaveAtHome, ForgetChannel, CutOff, homeVars
  <1>3. Enters(p) => channel' = channel
    BY DEF Enters, Joins
  <1>4. ASSUME NEW c \in Ids, LeaveChannel(p, c) \/ CreateInvite(p, c) PROVE channel' = channel
    BY <1>4 DEF LeaveChannel, CreateInvite, homeVars
  <1>5. ASSUME NEW i \in Tokens, LinkInvite(p, i) PROVE channel' = channel
    BY <1>5 DEF LinkInvite, homeVars
  <1> QED BY <1>0, <1>1, <1>2, <1>3, <1>4, <1>5

LEMMA GenuineKept ==
    ASSUME TypeOK, InviteReal, Next, NEW o, o.home \in Homes, o.chan \in Ids, Genuine(o)
    PROVE  GenuineNext(o)
  <1>1. channel[o.home][o.chan] # "none"
    BY DEF Genuine
  <1>2. channel'[o.home][o.chan] = channel[o.home][o.chan] /\ (rekeyed => rekeyed')
    BY <1>1, ChannelKept, RekeyedStays
  <1> QED BY <1>2 DEF Genuine, GenuineNext

LEMMA RealStep == ASSUME TypeOK, KeyTravels, KeyHeld, RowKeyed, Next PROVE KeyTravels'
  <1> DEFINE Kept(p) == /\ \A q \in Procs \ {p} : op'[q] = op[q]
  <1>0. RowReal /\ InviteReal /\ OpReal
    BY DEF KeyTravels
  <1>r. ASSUME NEW n \in Nodes, NEW c \in Ids, row'[n][c] = row[n][c], row[n][c] # NoRow
        PROVE  channel'[row'[n][c].home][c] = row'[n][c].visibility
    <2>1. row[n][c].home \in Homes /\ channel[row[n][c].home][c] = row[n][c].visibility
          /\ row[n][c].visibility \in Visibility
      BY <1>0, <1>r, RowCases DEF RowReal
    <2>2. channel[row[n][c].home][c] # "none"
      BY <2>1 DEF Visibility
    <2> QED BY <1>0, <1>r, <2>1, <2>2, ChannelKept
  <1>i. UNCHANGED invite => InviteReal'
    <2> SUFFICES ASSUME UNCHANGED invite, NEW i \in Tokens, invite[i] # NoInvite PROVE GenuineNext(invite[i])
      BY DEF InviteReal, Genuine, GenuineNext
    <2> QED BY <1>0, GenuineKept, InviteCases DEF InviteReal
  <1>w. UNCHANGED row => RowReal'
    BY <1>r DEF RowReal
  <1>g. ASSUME NEW q \in Procs, Carrying(q) PROVE GenuineNext(op[q])
    <2>1. op[q].pc # "idle"
      BY <1>g DEF Carrying
    <2> QED BY <1>0, <1>g, <2>1, OpCases, GenuineKept DEF OpReal
  <1>o. ASSUME NEW p \in Procs, Kept(p),
               op'[p].pc \in {"created", "joined", "keyed", "minted"} => GenuineNext(op'[p]),
               op'[p].pc = "keyed" => op'[p].key # NoHome
        PROVE  OpReal'
    <2> SUFFICES ASSUME NEW q \in Procs
                 PROVE  /\ op'[q].pc \in {"created", "joined", "keyed", "minted"} => GenuineNext(op'[q])
                        /\ op'[q].pc = "keyed" => op'[q].key # NoHome
      BY DEF OpReal, Carrying, Genuine, GenuineNext
    <2>1. CASE q = p
      BY <1>o, <2>1
    <2>2. CASE q # p
      BY <1>0, <1>g, <1>o, <2>2 DEF OpReal, Carrying
    <2> QED BY <2>1, <2>2
  <1> HIDE DEF Kept
  <1>s. PICK p \in Procs :
           \/ SaveKey(p) \/ RecordMembership(p)
           \/ LeaveAtHome(p) \/ ForgetChannel(p) \/ CutOff(p)
           \/ \E h \in Homes, a \in Aliases, v \in Visibility : CreateChannel(p, h, a, v)
           \/ Enters(p)
           \/ \E c \in Ids : LeaveChannel(p, c)
           \/ \E c \in Ids : CreateInvite(p, c)
           \/ \E i \in Tokens : LinkInvite(p, i)
    BY StepForm DEF KeyTravels
  <1>n. NodeOf[p] \in Nodes
    BY OpCases
  <1>1. CASE SaveKey(p)
    <2>1. op[p].pc \in {"created", "joined"} /\ op[p].key # NoHome /\ Move(p, "keyed") /\ UNCHANGED <<row, invite>>
      BY <1>1 DEF SaveKey
    <2>2. /\ op'[p].pc = "keyed" /\ op'[p].home = op[p].home /\ op'[p].chan = op[p].chan
          /\ op'[p].key = op[p].key /\ Kept(p)
      BY <2>1, MoveAt DEF Pcs, Kept
    <2>3. GenuineNext(op[p])
      BY <1>g, <2>1 DEF Carrying
    <2>4. GenuineNext(op'[p])
      BY <2>2, <2>3 DEF GenuineNext
    <2> QED BY <1>i, <1>w, <1>o, <2>1, <2>2, <2>4 DEF KeyTravels
  <1>2. CASE RecordMembership(p)
    <2> DEFINE n == NodeOf[p]
    <2>1. Carrying(p) /\ Finish(p) /\ UNCHANGED <<invite, channel>>
          /\ row' = [row EXCEPT ![n][op[p].chan] =
                       [home |-> op[p].home, alias |-> op[p].alias, visibility |-> channel[op[p].home][op[p].chan]]]
      BY <1>2 DEF RecordMembership, Carrying, homeVars
    <2>2. op[p].chan \in Ids /\ op'[p].pc = "idle" /\ Kept(p)
      BY <2>1, OpCases, FinishAt DEF Carrying, Kept
    <2>3. RowReal'
      <3> SUFFICES ASSUME NEW m \in Nodes, NEW d \in Ids, row'[m][d] # NoRow
                   PROVE  channel'[row'[m][d].home][d] = row'[m][d].visibility
        BY DEF RowReal
      <3>1. CASE m = n /\ d = op[p].chan
        <4>1. row'[m][d] = [home |-> op[p].home, alias |-> op[p].alias, visibility |-> channel[op[p].home][op[p].chan]]
          BY <1>n, <2>1, <2>2, <3>1 DEF TypeOK
        <4> QED BY <2>1, <3>1, <4>1
      <3>2. CASE m # n \/ d # op[p].chan
        <4>1. row'[m][d] = row[m][d]
          BY <1>n, <2>1, <2>2, <3>2 DEF TypeOK
        <4> QED BY <1>r, <4>1
      <3> QED BY <3>1, <3>2
    <2> QED BY <1>i, <1>o, <2>1, <2>2, <2>3 DEF KeyTravels
  <1>3. CASE LeaveAtHome(p)
    <2>1. op[p].pc # "idle" /\ Move(p, "left") /\ UNCHANGED <<row, invite>>
      BY <1>3 DEF LeaveAtHome
    <2>2. op'[p].pc = "left" /\ Kept(p)
      BY <2>1, MoveAt DEF Pcs, Kept
    <2> QED BY <1>i, <1>w, <1>o, <2>1, <2>2 DEF KeyTravels
  <1>4. CASE ForgetChannel(p)
    <2>1. op[p].pc # "idle" /\ Finish(p) /\ UNCHANGED invite /\ row' = [row EXCEPT ![NodeOf[p]][op[p].chan] = NoRow]
      BY <1>4 DEF ForgetChannel
    <2>2. op[p].chan \in Ids /\ op'[p].pc = "idle" /\ Kept(p)
      BY <2>1, OpCases, FinishAt DEF Kept
    <2>3. \A m \in Nodes, d \in Ids : row'[m][d] # NoRow => row'[m][d] = row[m][d]
      BY <1>n, <2>1, <2>2 DEF TypeOK
    <2>4. RowReal'
      BY <1>r, <2>3 DEF RowReal
    <2> QED BY <1>i, <1>o, <2>1, <2>2, <2>4 DEF KeyTravels
  <1>5. CASE CutOff(p)
    <2>1. Finish(p) /\ UNCHANGED <<row, invite>>
      BY <1>5 DEF CutOff
    <2>2. op'[p].pc = "idle" /\ Kept(p)
      BY <2>1, FinishAt DEF Kept
    <2> QED BY <1>i, <1>w, <1>o, <2>1, <2>2 DEF KeyTravels
  <1>6. ASSUME NEW h \in Homes, NEW a \in Aliases, NEW v \in Visibility, CreateChannel(p, h, a, v) PROVE KeyTravels'
    <2>1. PICK c \in Ids : channel' = [channel EXCEPT ![h][c] = v] /\ Begin(p, "created", h, c, a, KeyFor(h, v))
      BY <1>6 DEF CreateChannel
    <2>2. UNCHANGED <<row, invite>> /\ KeyFor(h, v) \in Homes \cup {NoHome}
      BY <1>6 DEF CreateChannel, KeyFor
    <2>3. op'[p] = [pc |-> "created", home |-> h, chan |-> c, alias |-> a, key |-> KeyFor(h, v)] /\ Kept(p)
      BY <2>1, <2>2, BeginAt DEF Pcs, Kept
    <2>4. channel'[h][c] = v /\ v # "none"
      BY <2>1 DEF TypeOK, Visibility
    <2>5. KeyFor(h, v) # NoHome => h \notin LocalHomes
      BY DEF KeyFor, Sealed
    <2>6. GenuineNext(op'[p])
      BY <2>3, <2>4, <2>5 DEF GenuineNext
    <2>7. op'[p].pc = "created"
      BY <2>3
    <2> QED BY <1>i, <1>w, <1>o, <2>2, <2>3, <2>6, <2>7 DEF KeyTravels
  <1>7. CASE Enters(p)
    <2>1. PICK h \in Homes, c \in Ids, a \in Aliases, k \in Homes \cup {NoHome} :
            /\ Begin(p, "joined", h, c, a, k) /\ channel[h][c] # "none"
            /\ k # NoHome => h \notin LocalHomes
            /\ ~rekeyed => k = KeyFor(h, channel[h][c])
            /\ UNCHANGED <<channel, invite, row, rekeyed>>
      BY <1>7 DEF Enters, Joins
    <2>2. op'[p] = [pc |-> "joined", home |-> h, chan |-> c, alias |-> a, key |-> k] /\ Kept(p)
      BY <2>1, BeginAt DEF Pcs, Kept
    <2>3. GenuineNext(op'[p]) /\ op'[p].pc = "joined"
      BY <2>1, <2>2 DEF GenuineNext
    <2> QED BY <1>i, <1>w, <1>o, <2>1, <2>2, <2>3 DEF KeyTravels
  <1>8. ASSUME NEW c \in Ids, LeaveChannel(p, c) PROVE KeyTravels'
    <2> DEFINE r == row[NodeOf[p]][c]
    <2>1. r # NoRow /\ Begin(p, "leaving", r.home, c, r.alias, NoHome) /\ UNCHANGED <<row, invite>>
      BY <1>8 DEF LeaveChannel
    <2>2. r.home \in Homes /\ r.alias \in Aliases
      BY <1>n, <2>1, RowCases
    <2> HIDE DEF r
    <2>3. op'[p] = [pc |-> "leaving", home |-> r.home, chan |-> c, alias |-> r.alias, key |-> NoHome] /\ Kept(p)
      BY <2>1, <2>2, BeginAt DEF Pcs, Kept
    <2>4. op'[p].pc = "leaving"
      BY <2>3
    <2> QED BY <1>i, <1>w, <1>o, <2>1, <2>3, <2>4 DEF KeyTravels
  <1>9. ASSUME NEW c \in Ids, CreateInvite(p, c) PROVE KeyTravels'
    <2> DEFINE r == row[NodeOf[p]][c]
               k == KeyFor(r.home, r.visibility)
    <2>1. r # NoRow /\ Begin(p, "minted", r.home, c, r.alias, k) /\ UNCHANGED <<row, invite, channel>>
      BY <1>9 DEF CreateInvite, homeVars
    <2>2. r.home \in Homes /\ r.alias \in Aliases /\ channel[r.home][c] = r.visibility /\ r.visibility # "none"
      BY <1>0, <1>n, <2>1, RowCases DEF RowReal, Visibility
    <2>3. k \in Homes \cup {NoHome} /\ (k # NoHome => r.home \notin LocalHomes)
          /\ k = KeyFor(r.home, channel[r.home][c])
      BY <2>2 DEF KeyFor, Sealed
    <2> HIDE DEF r, k
    <2>4. op'[p] = [pc |-> "minted", home |-> r.home, chan |-> c, alias |-> r.alias, key |-> k] /\ Kept(p)
      BY <2>1, <2>2, <2>3, BeginAt DEF Pcs, Kept
    <2>5. GenuineNext(op'[p]) /\ op'[p].pc = "minted"
      BY <2>1, <2>2, <2>3, <2>4 DEF GenuineNext
    <2> QED BY <1>i, <1>w, <1>o, <2>1, <2>4, <2>5 DEF KeyTravels
  <1>10. ASSUME NEW i \in Tokens, LinkInvite(p, i) PROVE KeyTravels'
    <2> DEFINE k == IF op[p].key = NoHome THEN NoHome ELSE keyFile[NodeOf[p]][op[p].chan]
    <2>1. op[p].pc = "minted" /\ Finish(p) /\ UNCHANGED <<row, rekeyed>>
          /\ invite' = [invite EXCEPT ![i] = [home |-> op[p].home, chan |-> op[p].chan, key |-> k]]
      BY <1>10 DEF LinkInvite
    <2>2. op'[p].pc = "idle" /\ Kept(p)
      BY <2>1, FinishAt DEF Kept
    <2>3. GenuineNext(op[p])
      BY <1>g, <2>1 DEF Carrying
    <2>4. k # NoHome => op[p].key # NoHome
      OBVIOUS
    <2>5. ~rekeyed => k = op[p].key
      BY <2>1 DEF KeyHeld
    <2> HIDE DEF k
    <2>6. invite'[i] = [home |-> op[p].home, chan |-> op[p].chan, key |-> k]
          /\ \A j \in Tokens \ {i} : invite'[j] = invite[j]
      BY <2>1 DEF TypeOK
    <2>7. GenuineNext(invite'[i])
      BY <2>1, <2>3, <2>4, <2>5, <2>6 DEF GenuineNext
    <2>8. InviteReal'
      <3> SUFFICES ASSUME NEW j \in Tokens, invite'[j] # NoInvite PROVE GenuineNext(invite'[j])
        BY DEF InviteReal, Genuine, GenuineNext
      <3>1. CASE j = i
        BY <2>7, <3>1
      <3>2. CASE j # i
        BY <1>0, <2>6, <3>2, GenuineKept, InviteCases DEF InviteReal
      <3> QED BY <3>1, <3>2
    <2> QED BY <1>w, <1>o, <2>1, <2>2, <2>8 DEF KeyTravels
  <1> QED BY <1>s, <1>1, <1>2, <1>3, <1>4, <1>5, <1>6, <1>7, <1>8, <1>9, <1>10

\* Cite for a step of p that writes no key file and no row, when p held no key or keeps it.
LEMMA HeldFrame ==
    ASSUME KeyHeld, RowKeyed, ~rekeyed, NEW p \in Procs, UNCHANGED <<row, keyFile>>,
           \A q \in Procs \ {p} : op'[q] = op[q], op[p].pc # "keyed", op'[p].pc # "keyed",
           op'[p].pc = "minted" /\ op'[p].key # NoHome => keyFile[NodeOf[p]][op'[p].chan] = op'[p].key
    PROVE  KeyHeld' /\ RowKeyed'
  <1>1. KeyHeld'
    BY DEF KeyHeld
  <1>2. ASSUME NEW n \in Nodes, NEW c \in Ids, row[n][c] # NoRow, Sealed(row[n][c].home, row[n][c].visibility)
        PROVE  \/ keyFile[n][c] = row[n][c].home
               \/ \E q \in Procs : NodeOf[q] = n /\ op'[q].pc = "keyed" /\ op'[q].chan = c
    BY <1>2 DEF RowKeyed
  <1> QED BY <1>1, <1>2 DEF RowKeyed, Sealed

LEMMA KeyStep == ASSUME TypeOK, KeyTravels, KeyHeld, RowKeyed, Next PROVE KeyHeld' /\ RowKeyed'
  <1>0. RowReal /\ InviteReal /\ OpReal
    BY DEF KeyTravels
  <1> SUFFICES ASSUME ~rekeyed' PROVE KeyHeld' /\ RowKeyed'
    BY DEF KeyHeld, RowKeyed
  <1>s. PICK p \in Procs :
           \/ SaveKey(p) \/ RecordMembership(p)
           \/ LeaveAtHome(p) \/ ForgetChannel(p) \/ CutOff(p)
           \/ \E h \in Homes, a \in Aliases, v \in Visibility : CreateChannel(p, h, a, v)
           \/ Enters(p)
           \/ \E c \in Ids : LeaveChannel(p, c)
           \/ \E c \in Ids : CreateInvite(p, c)
           \/ \E i \in Tokens : LinkInvite(p, i)
    BY <1>0, StepForm
  <1> DEFINE n == NodeOf[p]
  <1>n. n \in Nodes
    BY OpCases
  <1>k. ~rekeyed
    BY <1>0, RekeyedStays
  <1>1. CASE SaveKey(p)
    <2>1. /\ op[p].pc \in {"created", "joined"} /\ op[p].key # NoHome /\ Move(p, "keyed") /\ row' = row
          /\ keyFile' = [keyFile EXCEPT ![n][op[p].chan] = op[p].key]
      BY <1>1 DEF SaveKey, WriteKey
    <2>2. ~KeysCross(p, op[p].chan, op[p].key)
      <3>1. rekeyed' = (rekeyed \/ KeysCross(p, op[p].chan, op[p].key))
        BY <1>1, Zenon DEF SaveKey
      <3> QED BY <3>1, Zenon
    <2>3. /\ op'[p].pc = "keyed" /\ op'[p].chan = op[p].chan /\ op'[p].key = op[p].key
          /\ \A q \in Procs \ {p} : op'[q] = op[q]
      BY <2>1, MoveAt DEF Pcs
    <2>4. op[p].chan \in Ids
      BY <2>1, OpCases
    <2>5. /\ keyFile'[n][op[p].chan] = op[p].key
          /\ \A m \in Nodes, d \in Ids : m # n \/ d # op[p].chan => keyFile'[m][d] = keyFile[m][d]
      BY <1>n, <2>1, <2>4 DEF TypeOK
    <2>6. KeyHeld'
      <3> SUFFICES ASSUME NEW q \in Procs, op'[q].pc \in {"keyed", "minted"}, op'[q].key # NoHome
                   PROVE  keyFile'[NodeOf[q]][op'[q].chan] = op'[q].key
        BY DEF KeyHeld
      <3>1. CASE q = p
        BY <2>3, <2>5, <3>1
      <3>2. CASE q # p
        <4>1. op'[q] = op[q] /\ NodeOf[q] \in Nodes /\ op[q].chan \in Ids
          BY <2>3, <3>2, OpCases
        <4>2. CASE NodeOf[q] = n /\ op[q].chan = op[p].chan
          BY <2>2, <2>5, <3>2, <4>1, <4>2 DEF KeysCross, Beside
        <4>3. CASE NodeOf[q] # n \/ op[q].chan # op[p].chan
          BY <1>k, <2>5, <4>1, <4>3 DEF KeyHeld
        <4> QED BY <4>2, <4>3
      <3> QED BY <3>1, <3>2
    <2>7. RowKeyed'
      <3> SUFFICES ASSUME NEW m \in Nodes, NEW d \in Ids, row[m][d] # NoRow,
                          Sealed(row[m][d].home, row[m][d].visibility)
                   PROVE  \/ keyFile'[m][d] = row[m][d].home
                          \/ \E q \in Procs : NodeOf[q] = m /\ op'[q].pc = "keyed" /\ op'[q].chan = d
        BY <2>1 DEF RowKeyed, Sealed
      <3>1. CASE m = n /\ d = op[p].chan
        BY <2>3, <3>1
      <3>2. CASE m # n \/ d # op[p].chan
        <4>1. \/ keyFile[m][d] = row[m][d].home
              \/ \E q \in Procs : NodeOf[q] = m /\ op[q].pc = "keyed" /\ op[q].chan = d
          BY <1>k DEF RowKeyed
        <4> QED BY <2>1, <2>3, <2>5, <3>2, <4>1
      <3> QED BY <3>1, <3>2
    <2> QED BY <2>6, <2>7
  <1>2. CASE RecordMembership(p)
    <2>1. /\ op[p].pc \in {"created", "joined", "keyed"} /\ Finish(p) /\ UNCHANGED <<channel, keyFile>>
          /\ op[p].pc # "keyed" => op[p].key = NoHome
          /\ row' = [row EXCEPT ![n][op[p].chan] =
                       [home |-> op[p].home, alias |-> op[p].alias, visibility |-> channel[op[p].home][op[p].chan]]]
      BY <1>2 DEF RecordMembership, homeVars
    <2>2. op[p].chan \in Ids /\ op[p].home \in Homes /\ op'[p].pc = "idle" /\ \A q \in Procs \ {p} : op'[q] = op[q]
      BY <2>1, OpCases, FinishAt
    <2>3. /\ row'[n][op[p].chan].home = op[p].home
          /\ row'[n][op[p].chan].visibility = channel[op[p].home][op[p].chan]
          /\ \A m \in Nodes, d \in Ids : m # n \/ d # op[p].chan => row'[m][d] = row[m][d]
      BY <1>n, <2>1, <2>2 DEF TypeOK
    <2>4. KeyHeld'
      BY <1>k, <2>1, <2>2 DEF KeyHeld
    <2>5. op[p].key = KeyFor(op[p].home, channel[op[p].home][op[p].chan])
      BY <1>0, <1>k, <2>1 DEF OpReal, Carrying, Genuine
    <2>6. RowKeyed'
      <3> SUFFICES ASSUME NEW m \in Nodes, NEW d \in Ids, row'[m][d] # NoRow,
                          Sealed(row'[m][d].home, row'[m][d].visibility)
                   PROVE  \/ keyFile[m][d] = row'[m][d].home
                          \/ \E q \in Procs : NodeOf[q] = m /\ op'[q].pc = "keyed" /\ op'[q].chan = d
        BY <2>1 DEF RowKeyed, Sealed
      <3>1. CASE m = n /\ d = op[p].chan
        <4>1. op[p].key = op[p].home /\ op[p].key # NoHome
          BY <2>2, <2>3, <2>5, <3>1, MembershipAssumption DEF KeyFor
        <4> QED BY <1>k, <2>1, <2>3, <3>1, <4>1 DEF KeyHeld
      <3>2. CASE m # n \/ d # op[p].chan
        <4>1. row'[m][d] = row[m][d]
          BY <2>3, <3>2
        <4>2. \/ keyFile[m][d] = row[m][d].home
              \/ \E q \in Procs : NodeOf[q] = m /\ op[q].pc = "keyed" /\ op[q].chan = d
          BY <1>k, <4>1 DEF RowKeyed
        <4> QED BY <2>2, <3>2, <4>1, <4>2
      <3> QED BY <3>1, <3>2
    <2> QED BY <2>4, <2>6
  <1>3. CASE LeaveAtHome(p)
    <2>1. op[p].pc = "leaving" /\ Move(p, "left") /\ UNCHANGED <<row, keyFile>>
      BY <1>3 DEF LeaveAtHome
    <2>2. op'[p].pc = "left" /\ \A q \in Procs \ {p} : op'[q] = op[q]
      BY <2>1, MoveAt DEF Pcs
    <2> QED BY <1>k, <2>1, <2>2, HeldFrame
  <1>4. CASE ForgetChannel(p)
    <2>1. op[p].pc = "left" /\ Finish(p) /\ UNCHANGED keyFile /\ row' = [row EXCEPT ![n][op[p].chan] = NoRow]
      BY <1>4 DEF ForgetChannel
    <2>2. op[p].chan \in Ids /\ op'[p].pc = "idle" /\ \A q \in Procs \ {p} : op'[q] = op[q]
      BY <2>1, OpCases, FinishAt
    <2>3. \A m \in Nodes, d \in Ids : row'[m][d] # NoRow => row'[m][d] = row[m][d]
      BY <1>n, <2>1, <2>2 DEF TypeOK
    <2>4. KeyHeld'
      BY <1>k, <2>1, <2>2 DEF KeyHeld
    <2>5. RowKeyed'
      <3> SUFFICES ASSUME NEW m \in Nodes, NEW d \in Ids, row'[m][d] # NoRow,
                          Sealed(row'[m][d].home, row'[m][d].visibility)
                   PROVE  \/ keyFile[m][d] = row'[m][d].home
                          \/ \E q \in Procs : NodeOf[q] = m /\ op'[q].pc = "keyed" /\ op'[q].chan = d
        BY <2>1 DEF RowKeyed, Sealed
      <3>1. row'[m][d] = row[m][d]
        BY <2>3
      <3>2. \/ keyFile[m][d] = row[m][d].home
            \/ \E q \in Procs : NodeOf[q] = m /\ op[q].pc = "keyed" /\ op[q].chan = d
        BY <1>k, <3>1 DEF RowKeyed
      <3> QED BY <2>1, <2>2, <3>1, <3>2
    <2> QED BY <2>4, <2>5
  <1>5. CASE CutOff(p)
    <2>1. Finish(p) /\ UNCHANGED <<row, keyFile>>
      BY <1>5 DEF CutOff
    <2>2. ~KeyStranded(p)
      <3>1. rekeyed' = (rekeyed \/ KeyStranded(p))
        BY <1>5, Zenon DEF CutOff
      <3> QED BY <3>1, Zenon
    <2>3. op'[p].pc = "idle" /\ \A q \in Procs \ {p} : op'[q] = op[q]
      BY <2>1, FinishAt
    <2>4. CASE op[p].pc # "keyed"
      BY <1>k, <2>1, <2>3, <2>4, HeldFrame
    <2>5. CASE op[p].pc = "keyed"
      <3>1. keyFile[n][op[p].chan] = op[p].key
        BY <1>0, <1>k, <2>5 DEF OpReal, KeyHeld
      <3>2. KeyHeld'
        BY <1>k, <2>1, <2>3 DEF KeyHeld
      <3>3. RowKeyed'
        <4> SUFFICES ASSUME NEW m \in Nodes, NEW d \in Ids, row[m][d] # NoRow,
                            Sealed(row[m][d].home, row[m][d].visibility)
                     PROVE  \/ keyFile[m][d] = row[m][d].home
                            \/ \E q \in Procs : NodeOf[q] = m /\ op'[q].pc = "keyed" /\ op'[q].chan = d
          BY <2>1 DEF RowKeyed, Sealed
        <4>1. CASE m = n /\ d = op[p].chan
          BY <2>2, <2>5, <3>1, <4>1 DEF KeyStranded
        <4>2. CASE m # n \/ d # op[p].chan
          <5>1. \/ keyFile[m][d] = row[m][d].home
                \/ \E q \in Procs : NodeOf[q] = m /\ op[q].pc = "keyed" /\ op[q].chan = d
            BY <1>k DEF RowKeyed
          <5> QED BY <2>3, <4>2, <5>1
        <4> QED BY <4>1, <4>2
      <3> QED BY <3>2, <3>3
    <2> QED BY <2>4, <2>5
  <1>6. ASSUME NEW h \in Homes, NEW a \in Aliases, NEW v \in Visibility, CreateChannel(p, h, a, v)
        PROVE  KeyHeld' /\ RowKeyed'
    <2>1. PICK c \in Ids : Begin(p, "created", h, c, a, KeyFor(h, v))
      BY <1>6 DEF CreateChannel
    <2>2. UNCHANGED <<row, keyFile>> /\ KeyFor(h, v) \in Homes \cup {NoHome}
      BY <1>6 DEF CreateChannel, KeyFor
    <2>3. op[p] = Idle /\ op'[p] = [pc |-> "created", home |-> h, chan |-> c, alias |-> a, key |-> KeyFor(h, v)]
          /\ \A q \in Procs \ {p} : op'[q] = op[q]
      BY <2>1, <2>2, BeginAt DEF Pcs
    <2>4. op[p].pc # "keyed" /\ op'[p].pc = "created"
      BY <2>3 DEF Idle
    <2> QED BY <1>k, <2>2, <2>3, <2>4, HeldFrame
  <1>7. CASE Enters(p)
    <2>1. PICK h \in Homes, c \in Ids, a \in Aliases, k \in Homes \cup {NoHome} :
            Begin(p, "joined", h, c, a, k) /\ UNCHANGED <<row, keyFile>>
      BY <1>7 DEF Enters, Joins
    <2>2. op[p] = Idle /\ op'[p] = [pc |-> "joined", home |-> h, chan |-> c, alias |-> a, key |-> k]
          /\ \A q \in Procs \ {p} : op'[q] = op[q]
      BY <2>1, BeginAt DEF Pcs
    <2>3. op[p].pc # "keyed" /\ op'[p].pc = "joined"
      BY <2>2 DEF Idle
    <2> QED BY <1>k, <2>1, <2>2, <2>3, HeldFrame
  <1>8. ASSUME NEW c \in Ids, LeaveChannel(p, c) PROVE KeyHeld' /\ RowKeyed'
    <2> DEFINE r == row[n][c]
    <2>1. r # NoRow /\ Begin(p, "leaving", r.home, c, r.alias, NoHome) /\ UNCHANGED <<row, keyFile>>
      BY <1>8 DEF LeaveChannel
    <2>2. r.home \in Homes /\ r.alias \in Aliases
      BY <1>n, <2>1, RowCases
    <2> HIDE DEF r
    <2>3. op[p] = Idle /\ op'[p] = [pc |-> "leaving", home |-> r.home, chan |-> c, alias |-> r.alias, key |-> NoHome]
          /\ \A q \in Procs \ {p} : op'[q] = op[q]
      BY <2>1, <2>2, BeginAt DEF Pcs
    <2>4. op[p].pc # "keyed" /\ op'[p].pc = "leaving"
      BY <2>3 DEF Idle
    <2> QED BY <1>k, <2>1, <2>3, <2>4, HeldFrame
  <1>9. ASSUME NEW c \in Ids, CreateInvite(p, c) PROVE KeyHeld' /\ RowKeyed'
    <2> DEFINE r == row[n][c]
               k == KeyFor(r.home, r.visibility)
    <2>1. r # NoRow /\ Begin(p, "minted", r.home, c, r.alias, k) /\ UNCHANGED <<row, keyFile>>
      BY <1>9 DEF CreateInvite
    <2>2. ~(k # NoHome /\ KeysCross(p, c, k))
      <3>1. rekeyed' = (rekeyed \/ (k # NoHome /\ KeysCross(p, c, k)))
        BY <1>9, Zenon DEF CreateInvite
      <3> QED BY <3>1, Zenon
    <2>3. r.home \in Homes /\ r.alias \in Aliases /\ k \in Homes \cup {NoHome}
      BY <1>n, <2>1, RowCases DEF KeyFor
    <2>4. op[p] = Idle /\ op'[p] = [pc |-> "minted", home |-> r.home, chan |-> c, alias |-> r.alias, key |-> k]
          /\ \A q \in Procs \ {p} : op'[q] = op[q]
      BY <2>1, <2>3, BeginAt DEF Pcs
    <2>5. op[p].pc # "keyed" /\ op'[p].pc = "minted" /\ op'[p].chan = c /\ op'[p].key = k
      BY <2>4 DEF Idle
    <2>6. ASSUME k # NoHome PROVE keyFile[n][c] = k
      <3>1. k = r.home /\ Sealed(r.home, r.visibility)
        BY <2>6 DEF KeyFor
      <3>2. CASE keyFile[n][c] = r.home
        BY <3>1, <3>2
      <3>3. ASSUME NEW q \in Procs, NodeOf[q] = n, op[q].pc = "keyed", op[q].chan = c PROVE keyFile[n][c] = k
        <4>1. q # p /\ op[q].key \in {k, NoHome}
          BY <2>2, <2>5, <2>6, <3>3 DEF KeysCross, Beside
        <4>2. op[q].key # NoHome
          BY <1>0, <3>3 DEF OpReal
        <4> QED BY <1>k, <3>3, <4>1, <4>2 DEF KeyHeld
      <3> QED BY <1>k, <1>n, <2>1, <3>1, <3>2, <3>3 DEF RowKeyed
    <2> QED BY <1>k, <2>1, <2>4, <2>5, <2>6, HeldFrame
  <1>10. ASSUME NEW i \in Tokens, LinkInvite(p, i) PROVE KeyHeld' /\ RowKeyed'
    <2>1. op[p].pc = "minted" /\ Finish(p) /\ UNCHANGED <<row, keyFile>>
      BY <1>10 DEF LinkInvite
    <2>2. op'[p].pc = "idle" /\ \A q \in Procs \ {p} : op'[q] = op[q]
      BY <2>1, FinishAt
    <2> QED BY <1>k, <2>1, <2>2, HeldFrame
  <1> QED BY <1>s, <1>1, <1>2, <1>3, <1>4, <1>5, <1>6, <1>7, <1>8, <1>9, <1>10

-----------------------------------------------------------------------------
LEMMA InvInit == Init => Inv
  <1> SUFFICES ASSUME Init PROVE Inv
    OBVIOUS
  <1>1. TypeOK
    <2>1. begun \in 0..MaxOps /\ uses \in [Tokens -> 0..MaxUses]
      BY MembershipAssumption DEF Init
    <2>2. astray \in BOOLEAN /\ rekeyed \in BOOLEAN
      BY DEF Init
    <2> QED BY <2>1, <2>2 DEF Init, TypeOK
  <1>2. Vacant /\ Owned
    BY DEF Init, Vacant, Owned, RowOwned, EntryOwned, LeaveOwned, Entering, Idle
  <1>3. KeyTravels /\ KeyHeld /\ RowKeyed
    BY DEF Init, KeyTravels, RowReal, InviteReal, OpReal, Carrying, Idle, KeyHeld, RowKeyed
  <1> QED BY <1>1, <1>2, <1>3 DEF Inv

LEMMA InvStep == Inv /\ [Next]_vars => Inv'
  <1> SUFFICES ASSUME Inv, [Next]_vars PROVE Inv'
    OBVIOUS
  <1>1. CASE Next
    BY <1>1, TypeStep, VacantStep, OwnedStep, RealStep, KeyStep DEF Inv, KeyTravels
  <1>2. CASE UNCHANGED vars
    <2>1. UNCHANGED <<channel, member, uses, invite, row, keyFile, op, begun, astray, rekeyed>>
      BY <1>2 DEF vars, homeVars
    <2>2. TypeOK' /\ Vacant'
      BY <2>1 DEF Inv, TypeOK, Vacant
    <2>3. Owned'
      BY <2>1 DEF Inv, Owned, RowOwned, EntryOwned, LeaveOwned, Entering, MemberAs, Forgetting
    <2>4. KeyTravels' /\ KeyHeld' /\ RowKeyed'
      BY <2>1 DEF Inv, KeyTravels, RowReal, InviteReal, OpReal, Carrying, Genuine, KeyFor, Sealed, KeyHeld, RowKeyed
    <2> QED BY <2>2, <2>3, <2>4 DEF Inv
  <1> QED BY <1>1, <1>2

LEMMA InvAlways == Spec => []Inv
  BY InvInit, InvStep, PTL DEF Spec

\* The state of createChannel, joinChannel, connect, createInvite and leaveChannel stays in
\* its types: in particular an invite is never used more often than it was minted for.
THEOREM TypeCorrect == Spec => []TypeOK
  <1>1. Inv => TypeOK
    BY DEF Inv
  <1> QED BY <1>1, InvAlways, PTL

\* The alias of a mirrored membership is the node's own at the home, for any number of processes
\* of a profile that create, join and leave at once, as long as no join was answered under an
\* alias the node does not have and no leave was cut off or crossed.
THEOREM MirrorKept == Spec => []MirrorAgrees
  <1>1. Inv => MirrorAgrees
    BY DEF Inv, MirrorAgrees, Owned, RowOwned
  <1> QED BY <1>1, InvAlways, PTL

\* A membership at a home ends by a leave that a process of its own node had begun for it.
THEOREM OnlyLeavers == Spec => OnlyLeaverLeaves
  <1> DEFINE P == ~astray' => \A h \in Homes, c \in Ids, a \in Aliases :
                    member[h][c][a] # NoNode /\ member'[h][c][a] # member[h][c][a] =>
                        \E p \in Procs : /\ NodeOf[p] = member[h][c][a]
                                         /\ op[p].pc = "leaving" /\ op'[p].pc = "left"
                                         /\ op[p].home = h /\ op[p].chan = c /\ op[p].alias = a
  <1>1. Inv /\ [Next]_vars => [P]_vars
    <2> SUFFICES ASSUME Inv, Next, ~astray', NEW h \in Homes, NEW c \in Ids, NEW a \in Aliases,
                        member[h][c][a] # NoNode, member'[h][c][a] # member[h][c][a]
                 PROVE  \E p \in Procs : /\ NodeOf[p] = member[h][c][a]
                                         /\ op[p].pc = "leaving" /\ op'[p].pc = "left"
                                         /\ op[p].home = h /\ op[p].chan = c /\ op[p].alias = a
      OBVIOUS
    <2>0. TypeOK /\ Vacant /\ InviteReal /\ Owned
      BY DEF Inv, KeyTravels
    <2>s. PICK p \in Procs :
             \/ SaveKey(p) \/ RecordMembership(p)
             \/ LeaveAtHome(p) \/ ForgetChannel(p) \/ CutOff(p)
             \/ \E g \in Homes, b \in Aliases, v \in Visibility : CreateChannel(p, g, b, v)
             \/ Enters(p)
             \/ \E d \in Ids : LeaveChannel(p, d)
             \/ \E d \in Ids : CreateInvite(p, d)
             \/ \E i \in Tokens : LinkInvite(p, i)
      BY <2>0, StepForm
    <2>1. SaveKey(p) \/ RecordMembership(p) \/ ForgetChannel(p) \/ CutOff(p) => member' = member
      BY DEF SaveKey, RecordMembership, ForgetChannel, CutOff, homeVars
    <2>2. ASSUME NEW d \in Ids, LeaveChannel(p, d) \/ CreateInvite(p, d) PROVE member' = member
      BY <2>2 DEF LeaveChannel, CreateInvite, homeVars
    <2>3. ASSUME NEW i \in Tokens, LinkInvite(p, i) PROVE member' = member
      BY <2>3 DEF LinkInvite, homeVars
    <2>4. ASSUME NEW g \in Homes, NEW b \in Aliases, NEW v \in Visibility, CreateChannel(p, g, b, v)
          PROVE  FALSE
      <3>1. PICK d \in Ids : MayTakeId(g, d) /\ member' = [member EXCEPT ![g][d][b] = NodeOf[p]]
        BY <2>4 DEF CreateChannel, AddMember
      <3>2. channel[g][d] = "none"
        BY <3>1 DEF MayTakeId
      <3>3. member'[h][c][a] = IF h = g /\ c = d /\ a = b THEN NodeOf[p] ELSE member[h][c][a]
        BY <2>0, <3>1, MemberAt
      <3> QED BY <2>0, <3>2, <3>3 DEF Vacant
    <2>5. CASE Enters(p)
      <3>1. PICK g \in Homes, d \in Ids, b \in Aliases : Admit(g, d, NodeOf[p], b)
        BY <2>5 DEF Enters, Joins
      <3> QED BY <2>0, <3>1, AdmitAt, OpCases
    <2>6. CASE LeaveAtHome(p)
      <3>1. op[p].pc = "leaving" /\ Move(p, "left") /\ ~astray
        BY <2>6 DEF LeaveAtHome
      <3>2. op'[p].pc = "left"
        BY <2>0, <3>1, MoveAt DEF Pcs
      <3>3. h = op[p].home /\ c = op[p].chan /\ a = op[p].alias /\ op[p].home \in LocalHomes
        BY <2>0, <2>6, LeaveAt
      <3>4. member[h][c][a] = NodeOf[p]
        BY <2>0, <3>1, <3>3 DEF Owned, LeaveOwned, MemberAs
      <3> QED BY <3>1, <3>2, <3>3, <3>4
    <2> QED BY <2>s, <2>1, <2>2, <2>3, <2>4, <2>5, <2>6
  <1> QED BY <1>1, InvAlways, PTL DEF Spec, OnlyLeaverLeaves

\* Every link to a private channel of a relay and every profile that mirrors one has the key of
\* its founder, for any number of processes that connect and mint at once, as long as no profile
\* held two keys of one id at a time.
THEOREM KeysKept == Spec => []KeysOpen
  <1>1. Inv => KeysOpen
    <2> SUFFICES ASSUME Inv, ~rekeyed PROVE KeysOpen
      BY DEF KeysOpen
    <2>1. \A i \in Tokens : invite[i] # NoInvite /\ Sealed(invite[i].home, channel[invite[i].home][invite[i].chan]) =>
              invite[i].key = invite[i].home
      BY DEF Inv, KeyTravels, InviteReal, Genuine, KeyFor
    <2> QED BY <2>1 DEF Inv, RowKeyed, KeysOpen
  <1> QED BY <1>1, InvAlways, PTL
=============================================================================
