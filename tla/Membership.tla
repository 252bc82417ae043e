----------------------------- MODULE Membership -----------------------------
(***************************************************************************)
(* Channels and their members: the engine's createChannel, joinChannel,    *)
(* createInvite, connect and leaveChannel (engine/engine.ts) against a     *)
(* local home (engine/local-home.ts) or a relay (relay/src/store.ts).      *)
(*                                                                         *)
(* The home decides and the profile's store mirrors: each operation awaits *)
(* the home and then writes the mirror.  A profile is opened by several    *)
(* processes (session, daemon, CLI), each with an engine of its own and    *)
(* nothing that keeps their operations apart: what one has read or was     *)
(* answered may be old when it writes.  Between two steps the process may  *)
(* die, or the answer of a relay may be lost.                              *)
(*                                                                         *)
(* A channel is known by its id.  The first channel of a name takes the    *)
(* name as its id, at every home; a later one of the same home gets an     *)
(* opaque id.  The mirror and the key file are kept by id alone.           *)
(***************************************************************************)
EXTENDS Integers, FiniteSets

CONSTANTS
    Nodes, Procs, Aliases, Homes, Ids, Tokens,
    NodeOf,     \* the profile each process has opened
    LocalHomes, \* the homes that are hub files; the others are relays
    Name,       \* the id equal to the name every channel is created with
    MaxUses,    \* the uses an invite is minted with
    MaxChannels, \* bound on the channels of all homes
    MaxOps,     \* bound on the operations begun
    NoNode, NoHome, NoRow, NoInvite

ASSUME MembershipAssumption ==
    /\ LocalHomes \subseteq Homes /\ Name \in Ids
    /\ NodeOf \in [Procs -> Nodes]
    /\ NoNode \notin Nodes /\ NoHome \notin Homes
    /\ MaxUses \in Nat \ {0} /\ MaxChannels \in Nat /\ MaxOps \in Nat

VARIABLES
    channel, \* homes: the visibility of each channel, "none" when it does not exist
    member,  \* homes: members.node_id per alias
    invite,  \* links handed out: where they lead and the key they carry
    uses,    \* homes: invites.uses
    row,     \* stores: channels, the mirror of a membership
    keyFile, \* profiles: keys/<id>.key, named by the home whose channel it opens
    op,      \* the operation each process has in flight
    begun,   \* operations begun, for the bound
    astray,  \* history: an answer under an alias the home did not take, a leave cut off or crossed
    rekeyed  \* history: two keys of one id in one profile at a time

homeVars == <<channel, member, uses>>
vars == <<homeVars, invite, row, keyFile, op, begun, astray, rekeyed>>

Visibility == {"private", "public"}
Row == [home : Homes, alias : Aliases, visibility : Visibility]
Invite == [home : Homes, chan : Ids, key : Homes \cup {NoHome}]
Idle == [pc |-> "idle"]
\* What an operation holds: the row it read or the answer it got, and the key it needs, if any.
Held == [pc : {"created", "joined", "keyed", "minted", "leaving", "left"},
         home : Homes, chan : Ids, alias : Aliases, key : Homes \cup {NoHome}]

TypeOK ==
    /\ channel \in [Homes -> [Ids -> Visibility \cup {"none"}]]
    /\ member \in [Homes -> [Ids -> [Aliases -> Nodes \cup {NoNode}]]]
    /\ invite \in [Tokens -> Invite \cup {NoInvite}]
    /\ uses \in [Tokens -> 0..MaxUses]
    /\ row \in [Nodes -> [Ids -> Row \cup {NoRow}]]
    /\ keyFile \in [Nodes -> [Ids -> Homes \cup {NoHome}]]
    /\ op \in [Procs -> {Idle} \cup Held]
    /\ begun \in 0..MaxOps
    /\ astray \in BOOLEAN /\ rekeyed \in BOOLEAN

Init ==
    /\ channel = [h \in Homes |-> [c \in Ids |-> "none"]]
    /\ member = [h \in Homes |-> [c \in Ids |-> [a \in Aliases |-> NoNode]]]
    /\ invite = [i \in Tokens |-> NoInvite]
    /\ uses = [i \in Tokens |-> 0]
    /\ row = [n \in Nodes |-> [c \in Ids |-> NoRow]]
    /\ keyFile = [n \in Nodes |-> [c \in Ids |-> NoHome]]
    /\ op = [p \in Procs |-> Idle]
    /\ begun = 0
    /\ astray = FALSE /\ rekeyed = FALSE

-----------------------------------------------------------------------------
\* Only the private channels of a relay are sealed with a key.
Sealed(h, visibility) == h \notin LocalHomes /\ visibility = "private"

\* The key an operation on a channel needs.
KeyFor(h, visibility) == IF Sealed(h, visibility) THEN h ELSE NoHome

Begin(p, pc, h, c, a, key) ==
    /\ op[p] = Idle /\ begun < MaxOps
    /\ op' = [op EXCEPT ![p] = [pc |-> pc, home |-> h, chan |-> c, alias |-> a, key |-> key]]
    /\ begun' = begun + 1
Move(p, pc) == op' = [op EXCEPT ![p].pc = pc] /\ UNCHANGED begun
Finish(p) == op' = [op EXCEPT ![p] = Idle] /\ UNCHANGED begun

\* Another process of the profile is at one of these points, with the channel of that id.
Beside(p, pcs, c) ==
    {q \in Procs \ {p} : NodeOf[q] = NodeOf[p] /\ op[q].pc \in pcs /\ op[q].chan = c}

\* A leave of a hub file's channel crosses an operation of another process on it.
LeaveCrosses(p, pcs, h, c) == h \in LocalHomes /\ \E q \in Beside(p, pcs, c) : op[q].home = h

\* Two processes hold two keys of one id.
KeysCross(p, c, key) == \E q \in Beside(p, {"keyed", "minted"}, c) : op[q].key \notin {key, NoHome}

\* CHANNEL_EXISTS is answered by a second try under a fresh opaque id.
MayTakeId(h, c) ==
    IF channel[h][Name] = "none" THEN c = Name
    ELSE c # Name /\ \A g \in Homes : channel[g][c] = "none"

\* hub_members.insert, and the row of the relay's table.
AddMember(h, c, a, n) == member' = [member EXCEPT ![h][c][a] = n]

\* createChannel at the home: the channel and its first member.
CreateChannel(p, h, a, visibility) ==
    /\ Cardinality({k \in Homes \X Ids : channel[k[1]][k[2]] # "none"}) < MaxChannels
    /\ \E c \in Ids :
        /\ MayTakeId(h, c)
        /\ channel' = [channel EXCEPT ![h][c] = visibility]
        /\ AddMember(h, c, a, NodeOf[p])
        /\ Begin(p, "created", h, c, a, KeyFor(h, visibility))
    /\ UNCHANGED <<uses, invite, row, keyFile, astray, rekeyed>>

\* createInvite: the row is read and the home mints.
CreateInvite(p, c) ==
    /\ row[NodeOf[p]][c] # NoRow
    /\ LET r == row[NodeOf[p]][c]
           key == KeyFor(r.home, r.visibility)
       IN  /\ r.home \in LocalHomes \/ \E a \in Aliases : member[r.home][c][a] = NodeOf[p]
           /\ Begin(p, "minted", r.home, c, r.alias, key)
           /\ rekeyed' = (rekeyed \/ (key # NoHome /\ KeysCross(p, c, key)))
    /\ UNCHANGED <<homeVars, invite, row, keyFile, astray>>

\* The mint was answered: the link is made, that of a sealed channel with the key file as it is now.
LinkInvite(p, i) ==
    LET o == op[p]
    IN  /\ o.pc = "minted" /\ invite[i] = NoInvite
        /\ invite' = [invite EXCEPT ![i] =
               [home |-> o.home, chan |-> o.chan,
                key |-> IF o.key = NoHome THEN NoHome ELSE keyFile[NodeOf[p]][o.chan]]]
        /\ Finish(p)
        /\ UNCHANGED <<homeVars, row, keyFile, astray, rekeyed>>

\* The local home answers a node that is a member with the present state, whatever alias it
\* asks for; the relay does so only for the alias the node has.
StaysMember(h, c, n, a) ==
    IF h \in LocalHomes THEN \E b \in Aliases : member[h][c][b] = n
    ELSE member[h][c][a] = n

\* ALIAS_TAKEN and, at a relay, CONFLICT.
\* Mutant of MayEnter: the alias is not looked up.
MayEnterAny(h, c, n, a) == \A b \in Aliases : member[h][c][b] # n

MayEnter(h, c, n, a) ==
    /\ member[h][c][a] = NoNode
    /\ \A b \in Aliases : member[h][c][b] # n

Admit(h, c, n, a) ==
    \/ /\ StaysMember(h, c, n, a)
       /\ UNCHANGED member
       /\ astray' = (astray \/ member[h][c][a] # n)
    \/ /\ ~StaysMember(h, c, n, a) /\ MayEnter(h, c, n, a)
       /\ AddMember(h, c, a, n)
       /\ UNCHANGED astray

\* The invite row: incrementUses after INVITE_EXHAUSTED was not answered.
Redeem(i) == uses[i] < MaxUses /\ uses' = [uses EXCEPT ![i] = @ + 1]

\* connect with a private link: join at the home.
JoinByInvite(p, i, a) ==
    /\ invite[i] # NoInvite
    /\ LET h == invite[i].home
           c == invite[i].chan
       IN  /\ Admit(h, c, NodeOf[p], a)
           /\ IF StaysMember(h, c, NodeOf[p], a) THEN UNCHANGED uses ELSE Redeem(i)
           /\ Begin(p, "joined", h, c, a, invite[i].key)
    /\ UNCHANGED <<channel, invite, row, keyFile, rekeyed>>

\* joinChannel: at a local home the engine mints an invite of its own and redeems it.
JoinChannel(p, h, c, a) ==
    /\ h \in LocalHomes /\ channel[h][c] # "none"
    /\ Admit(h, c, NodeOf[p], a)
    /\ Begin(p, "joined", h, c, a, NoHome)
    /\ UNCHANGED <<channel, uses, invite, row, keyFile, rekeyed>>

\* joinPublic: connect with the link of a relay's public channel.
JoinPublic(p, h, c, a) ==
    /\ h \notin LocalHomes /\ channel[h][c] = "public"
    /\ Admit(h, c, NodeOf[p], a)
    /\ Begin(p, "joined", h, c, a, NoHome)
    /\ UNCHANGED <<channel, uses, invite, row, keyFile, rekeyed>>

JoinOpen(p, h, c, a) == JoinChannel(p, h, c, a) \/ JoinPublic(p, h, c, a)

\* The mirror, once the home has answered: first the key file, kept by id.
\* Mutant of WriteKey: the file of that id is kept if there is one.
WriteKeyOnce(n, c, key) ==
    keyFile' = IF keyFile[n][c] = NoHome THEN [keyFile EXCEPT ![n][c] = key] ELSE keyFile

WriteKey(n, c, key) == keyFile' = [keyFile EXCEPT ![n][c] = key]

SaveKey(p) ==
    LET o == op[p]
    IN  /\ o.pc \in {"created", "joined"} /\ o.key # NoHome
        /\ WriteKey(NodeOf[p], o.chan, o.key)
        /\ rekeyed' = (rekeyed \/ KeysCross(p, o.chan, o.key))
        /\ Move(p, "keyed")
        /\ UNCHANGED <<homeVars, invite, row, astray>>

\* channels.upsert: the row of that id, whatever stands there.
RecordMembership(p) ==
    LET o == op[p]
    IN  /\ o.pc = "keyed" \/ (o.pc \in {"created", "joined"} /\ o.key = NoHome)
        /\ row' = [row EXCEPT ![NodeOf[p]][o.chan] =
               [home |-> o.home, alias |-> o.alias, visibility |-> channel[o.home][o.chan]]]
        /\ Finish(p)
        /\ UNCHANGED <<homeVars, invite, keyFile, astray, rekeyed>>

\* leaveChannel: requireChannel reads the row.
LeaveChannel(p, c) ==
    /\ row[NodeOf[p]][c] # NoRow
    /\ LET r == row[NodeOf[p]][c]
       IN  /\ Begin(p, "leaving", r.home, c, r.alias, NoHome)
           /\ astray' = (astray \/ LeaveCrosses(p, {"left"}, r.home, c))
    /\ UNCHANGED <<homeVars, invite, row, keyFile, rekeyed>>

\* The local home deletes by the alias of the row that was read, a relay is not asked.
\* Mutant of DeleteMember: every row of the channel under another alias is deleted.
DeleteMemberOthers(h, c, a) ==
    member' = [member EXCEPT ![h][c] = [b \in Aliases |-> IF b = a THEN @[b] ELSE NoNode]]

DeleteMember(h, c, a) == member' = [member EXCEPT ![h][c][a] = NoNode]

LeaveAtHome(p) ==
    LET o == op[p]
    IN  /\ o.pc = "leaving"
        /\ IF o.home \in LocalHomes THEN DeleteMember(o.home, o.chan, o.alias) ELSE UNCHANGED member
        /\ astray' = (astray \/ LeaveCrosses(p, {"created", "joined", "leaving"}, o.home, o.chan))
        /\ Move(p, "left")
        /\ UNCHANGED <<channel, uses, invite, row, keyFile, rekeyed>>

\* store.channels.delete by id, the key file stays.
ForgetChannel(p) ==
    /\ op[p].pc = "left"
    /\ row' = [row EXCEPT ![NodeOf[p]][op[p].chan] = NoRow]
    /\ Finish(p)
    /\ UNCHANGED <<homeVars, invite, keyFile, astray, rekeyed>>

\* A row of a sealed channel is left with the key file of another.
KeyStranded(p) ==
    LET r == row[NodeOf[p]][op[p].chan]
    IN  op[p].pc = "keyed" /\ r # NoRow /\ Sealed(r.home, r.visibility) /\ r.home # op[p].key

\* The process dies between two steps, or the answer is lost.
CutOff(p) ==
    /\ op[p] # Idle
    /\ astray' = (astray \/ (op[p].pc = "left" /\ op[p].home \in LocalHomes))
    /\ rekeyed' = (rekeyed \/ KeyStranded(p))
    /\ Finish(p)
    /\ UNCHANGED <<homeVars, invite, row, keyFile>>

Next ==
    \E p \in Procs :
        \/ SaveKey(p) \/ RecordMembership(p)
        \/ LeaveAtHome(p) \/ ForgetChannel(p) \/ CutOff(p)
        \/ \E h \in Homes, a \in Aliases, v \in Visibility : CreateChannel(p, h, a, v)
        \/ \E h \in Homes, c \in Ids, a \in Aliases : JoinOpen(p, h, c, a)
        \/ \E i \in Tokens, a \in Aliases : JoinByInvite(p, i, a)
        \/ \E c \in Ids : LeaveChannel(p, c) \/ CreateInvite(p, c)
        \/ \E i \in Tokens : LinkInvite(p, i)

Spec == Init /\ [][Next]_vars
-----------------------------------------------------------------------------
(***************************************************************************)
(* Properties.                                                             *)
(***************************************************************************)

\* A process of the profile has left at the hub file and is about to forget the row.
Forgetting(n, c) ==
    \E p \in Procs : /\ NodeOf[p] = n /\ op[p].pc = "left" /\ op[p].chan = c
                     /\ op[p].home \in LocalHomes
                     /\ op[p].home = row[n][c].home /\ op[p].alias = row[n][c].alias

\* As long as nothing went astray, a mirrored membership is one the home knows: the alias a
\* profile sends under is its own at the home of that row, whatever its processes do at once.
MirrorAgrees ==
    ~astray => \A n \in Nodes, c \in Ids :
        row[n][c] # NoRow /\ ~Forgetting(n, c) => member[row[n][c].home][c][row[n][c].alias] = n

\* As long as nothing went astray, a membership ends by a leave that one of its own node's
\* processes had begun for it, and by no other node's.
OnlyLeaverLeaves ==
    [][~astray' => \A h \in Homes, c \in Ids, a \in Aliases :
        member[h][c][a] # NoNode /\ member'[h][c][a] # member[h][c][a] =>
            \E p \in Procs : /\ NodeOf[p] = member[h][c][a]
                             /\ op[p].pc = "leaving" /\ op'[p].pc = "left"
                             /\ op[p].home = h /\ op[p].chan = c /\ op[p].alias = a]_vars

\* As long as no profile held two keys of one id at a time, every link to a sealed channel and
\* every profile that mirrors one, unless it is just saving a key of that id, has the key its
\* founder made, whichever chain of invites it came by and whatever other channel of that id
\* the profile was in before.
KeysOpen ==
    ~rekeyed =>
        /\ \A n \in Nodes, c \in Ids :
            row[n][c] # NoRow /\ Sealed(row[n][c].home, row[n][c].visibility) =>
                \/ keyFile[n][c] = row[n][c].home
                \/ \E p \in Procs : NodeOf[p] = n /\ op[p].pc = "keyed" /\ op[p].chan = c
        /\ \A i \in Tokens : invite[i] # NoInvite /\ Sealed(invite[i].home, channel[invite[i].home][invite[i].chan]) =>
            invite[i].key = invite[i].home
=============================================================================
