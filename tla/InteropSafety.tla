--------------------------- MODULE InteropSafety ---------------------------
(***************************************************************************)
(* Proofs about Extensions and Interop.  The argument: the gate accepts a  *)
(* version exactly when it lies between the floor and the version of an    *)
(* advertised support (GateMeaning), the registry finds a consumer for     *)
(* every such version bar a difference in the build (RegistryTakes), and   *)
(* what a card advertises does not change while its session lives.  Under  *)
(* an alias that nobody gave up every row on record, wherever it is kept,  *)
(* is of the node that has the alias (RowsSound).                          *)
(***************************************************************************)
EXTENDS Interop, TLAPS

\* The order on versions: total and transitive.
LEMMA Order ==
    ASSUME NEW a \in Version, NEW b \in Version, NEW d \in Version
    PROVE  /\ AtMost(a, b) \/ AtMost(b, a)
           /\ AtMost(a, b) /\ AtMost(b, d) => AtMost(a, d)
           /\ AtMost(a, b) /\ AtMost(b, a) /\ a # b => OnlyBuild(a, b)
           /\ AtMost(a, a)
BY DEF AtMost, Version, OnlyBuild

\* What a pair has to meet to agree on a version.
Meets(s, selector) ==
    /\ s.uri = selector.uri /\ s.version.major = selector.version.major
    /\ AtMost(s.floor, selector.version) /\ AtMost(selector.version, s.version)

\* Against one exact version negotiation yields that version or nothing.
LEMMA ExactCandidates ==
    ASSUME NEW selector \in Selector, NEW adv \in SUBSET Support,
           NEW p \in Candidates({Exactly(selector)}, adv)
    PROVE  /\ Meeting(p) = selector.version
           /\ \E s \in adv : Meets(s, selector)
<1>1. PICK s \in adv : p = <<Exactly(selector), s>>
    BY DEF Candidates
<1>2. /\ selector.uri = s.uri /\ selector.version.major = s.version.major
      /\ Meeting(p) = Older(selector.version, s.version)
      /\ AtMost(selector.version, Meeting(p)) /\ AtMost(s.floor, Meeting(p))
    BY <1>1 DEF Candidates, Exactly, Meeting
<1>3. /\ selector.version \in Version /\ s.version \in Version /\ s.floor \in Version
    BY DEF Selector, Support
<1>4. AtMost(selector.version, s.version)
    BY <1>2, <1>3, Order DEF Older
<1>5. Meeting(p) = selector.version
    BY <1>2, <1>4 DEF Older
<1> QED
    BY <1>2, <1>4, <1>5 DEF Meets

\* requireApplicationSupport lets an event through exactly when its version lies
\* between the floor and the version of an advertised support of its URI.
THEOREM GateMeaning ==
    ASSUME NEW selector \in Selector, NEW adv \in SUBSET Support
    PROVE  Supports(adv, selector) <=> \E s \in adv : Meets(s, selector)
<1>1. ASSUME Supports(adv, selector) PROVE \E s \in adv : Meets(s, selector)
    BY <1>1, ExactCandidates DEF Supports, Agreed, Negotiated
<1>2. ASSUME NEW s \in adv, Meets(s, selector) PROVE Supports(adv, selector)
    <2> DEFINE p == <<Exactly(selector), s>>
               all == Candidates({Exactly(selector)}, adv)
    <2>1. /\ selector.version \in Version /\ s.version \in Version
        BY DEF Selector, Support
    <2>2. p[1] = Exactly(selector) /\ p[2] = s /\ Meeting(p) = selector.version
        BY <1>2 DEF Meets, Meeting, Older, Exactly
    <2>3. p \in all
        BY <1>2, <2>1, <2>2, Order DEF Meets, Candidates, Exactly
    <2> HIDE DEF p
    <2>4. \A q \in all : Meeting(q) = selector.version
        BY ExactCandidates
    <2>5. p \in Negotiated({Exactly(selector)}, adv)
        BY <2>1, <2>2, <2>3, <2>4, Order DEF Negotiated
    <2>6. \A q \in Negotiated({Exactly(selector)}, adv) : Meeting(q) = selector.version
        BY <2>4 DEF Negotiated
    <2> QED
        BY <1>2, <2>2, <2>5, <2>6 DEF Supports, Agreed, Meets
<1> QED
    BY <1>1, <1>2

\* The registry's side: a support that meets the version is found to agree on it, unless
\* the version of some support of the consumer and the asked one differ in their build alone.
LEMMA RegistryTakes ==
    ASSUME NEW selector \in Selector, NEW supports \in SUBSET Support, NEW s \in supports,
           Meets(s, selector),
           \A x \in supports : x.uri = selector.uri => ~OnlyBuild(x.version, selector.version)
    PROVE  Agreed(supports, {Exactly(selector)}, selector.version)
<1> DEFINE asked == {Exactly(selector)}
           all == Candidates(supports, asked)
           p == <<s, Exactly(selector)>>
<1>1. /\ selector.version \in Version /\ s.version \in Version
    BY DEF Selector, Support
<1>2. Older(s.version, selector.version) = selector.version
    BY <1>1, Order DEF Older, Meets
<1>3. p[1] = s /\ p[2] = Exactly(selector) /\ Meeting(p) = selector.version
    BY <1>2 DEF Meeting, Exactly
<1>4. p \in all
    BY <1>1, <1>3, Order DEF Candidates, Exactly, Meets
<1>5. ASSUME NEW q \in all
      PROVE  AtMost(Meeting(q), selector.version)
                /\ (AtMost(selector.version, Meeting(q)) => Meeting(q) = selector.version)
    <2>1. PICK x \in supports : q = <<x, Exactly(selector)>>
        BY DEF Candidates
    <2>2. x.version \in Version /\ x.uri = selector.uri /\ Meeting(q) = Older(x.version, selector.version)
        BY <2>1 DEF Support, Candidates, Exactly, Meeting
    <2>3. ~OnlyBuild(x.version, selector.version)
        BY <2>2
    <2> QED
        BY <1>1, <2>2, <2>3, Order DEF Older
<1> HIDE DEF p
<1>6. p \in Negotiated(supports, asked)
    BY <1>3, <1>4, <1>5 DEF Negotiated
<1>7. \A q \in Negotiated(supports, asked) : Meeting(q) = selector.version
    BY <1>3, <1>4, <1>5 DEF Negotiated
<1> QED
    BY <1>3, <1>6, <1>7 DEF Agreed
-----------------------------------------------------------------------------
\* The inductive invariant.  A row is of the node that has the alias, and a session's card in it
\* is a card of that node's sessions, for an alias that nobody gave up.
Sure(c, a) == <<c, a>> \notin loose
RowFits(c, a, r) == r # Nobody => Has(r.node, c, a) /\ (r.card \in Sessions => NodeOf[r.card] = r.node)
RowsFit(c, rows) == \A a \in Aliases : Sure(c, a) => RowFits(c, a, rows[a])

\* What a call took from the own row, or from the home, is still so.
AliasFits(n, c, a) == Sure(c, a) => Has(n, c, a)
CallFits(p, k) ==
    /\ k.step \in {"join", "card", "row"} => AliasFits(NodeOf[p], k.channel, k.alias)
    /\ k.step \in {"card", "row"} => k.card = IF p \in Sessions THEN p ELSE ByHand
    /\ k.step = "join" => RowsFit(k.channel, k.rows)
    /\ k.step = "list" => RowsFit(k.intent.channel, k.rows)

RowsSound ==
    /\ \A c \in Channels : RowsFit(c, member[c])
    /\ \A n \in Nodes, c \in Channels : RowsFit(c, mirror[n][c])
    /\ \A n \in Nodes, c \in Channels : own[n][c] # NoAlias => AliasFits(n, c, own[n][c])
    /\ \A p \in Procs : CallFits(p, call[p])

\* A session that polls a channel, or is about to, stands by its card.
Stands(s, c) == <<s, c>> \notin overtaken => \E a \in Aliases : member[c][a] = [node |-> NodeOf[s], card |-> s]
ActiveStand ==
    /\ \A s \in Sessions : \A c \in active[s] : Stands(s, c)
    /\ \A s \in Sessions : call[s].step = "row" => Stands(s, call[s].channel)

\* An event in hand or sent passed the gate on every card it was vouched by.
Passed(e) == \A d \in e.vouched : Supports(Advertised(d), e.selector)
AllPassed ==
    /\ \A s \in Sessions : call[s].step = "send" => Passed(call[s].event)
    /\ \A k \in 1 .. Len(log) : Passed(log[k])

\* The tool picked one row and names its alias, which is that node's.
Named(e) == e.tool /\ e.to # Everyone =>
    e.to \in Aliases /\ \E m \in Nodes : e.picked = {m} /\ AliasFits(m, e.channel, e.to)
AllNamed ==
    /\ \A s \in Sessions : call[s].step = "send" => Named(call[s].event)
    /\ \A s \in Sessions : call[s].step = "list" => ~Unchecked(call[s].intent)
    /\ \A k \in 1 .. Len(log) : Named(log[k])

\* Who has it in its inbox goes by that alias.
Reached == \A n \in Nodes : \A k \in inbox[n] :
    LET e == log[k] IN e.tool /\ e.to # Everyone => AliasFits(n, e.channel, e.to)

Inv == TypeOK /\ RowsSound /\ ActiveStand /\ AllPassed /\ AllNamed /\ Reached /\ VouchedIsTaken

-----------------------------------------------------------------------------
LEMMA Literals ==
    /\ NoCard \notin Sessions /\ ByHand \notin Sessions /\ NoCard # ByHand
    /\ NoNode \notin Nodes /\ NoAlias \notin Aliases /\ Everyone \notin Aliases /\ Nobody \notin Row
<1>1. NoNode \notin Nodes
    BY InteropAssumption
<1> QED
    BY <1>1, InteropAssumption DEF NoCard, ByHand, Nobody, Row

\* The step a call is at says what it carries.
LEMMA CallShape ==
    ASSUME NEW k \in Call
    PROVE  /\ k.step \in {"join", "leave", "forget", "card", "row"} => k.channel \in Channels /\ k.alias \in Aliases
           /\ k.step = "join" => k.rows \in Rows
           /\ k.step \in {"card", "row"} => k.card \in Sessions \cup {ByHand}
           /\ k.step = "list" => k.rows \in Rows /\ k.intent \in Intents
           /\ k.step = "send" => k.event \in Event
BY DEF Call, Idle

LEMMA IntentShape ==
    ASSUME NEW i \in Intents
    PROVE  i.channel \in Channels /\ i.selector \in Selector /\ i.tool \in BOOLEAN
BY InteropAssumption

LEMMA RowShape ==
    ASSUME NEW rows \in Rows, NEW a \in Aliases
    PROVE  /\ rows[a] # Nobody => rows[a] \in Row /\ rows[a].node \in Nodes /\ rows[a].card \in Cards
           /\ rows[a] = Nobody => rows[a].node = NoNode
BY DEF Rows, Row, Nobody

LEMMA UpsertedShape ==
    ASSUME NEW old \in Rows, NEW rows \in Rows
    PROVE  Upserted(old, rows) \in Rows
BY DEF Rows, Upserted

LEMMA MatesShape == \A n : Mates(n) \subseteq Sessions
BY DEF Mates

\* At most one row is first, and it is one of those asked for.
LEMMA PickedOne ==
    ASSUME NEW rows \in Rows, NEW i \in Intents
    PROVE  /\ Picked(rows, i) \subseteq {a \in Aliases : rows[a] # Nobody}
           /\ i.handle # Everyone => \A a, b \in Picked(rows, i) : a = b
<1>1. ASSUME NEW as \in SUBSET Aliases PROVE First(as) \subseteq as /\ \A a, b \in First(as) : a = b
    <2>1. ASSUME NEW a \in First(as), NEW b \in First(as) PROVE a = b
        <3>1. a \in Aliases /\ b \in Aliases /\ Rank[a] <= Rank[b] /\ Rank[b] <= Rank[a]
            BY DEF First
        <3>2. Rank[a] \in Nat /\ Rank[b] \in Nat
            BY <3>1, InteropAssumption
        <3>3. Rank[a] = Rank[b]
            BY <3>1, <3>2
        <3> QED
            BY <3>1, <3>3, InteropAssumption
    <2> QED
        BY <2>1 DEF First
<1>2. {a \in Aliases : Bears(a, rows[a], i.handle)} \subseteq {a \in Aliases : rows[a] # Nobody}
    BY DEF Bears
<1> QED
    BY <1>1, <1>2 DEF Picked

\* What the tool or an effect sends once the gate let it through.
LEMMA AddresseeShape ==
    ASSUME NEW i \in Intents, NEW to \in SUBSET Aliases, to # {}
    PROVE  /\ Addressee(i, to) \in {j.handle : j \in Intents} \cup Aliases
           /\ i.tool => Addressee(i, to) \in to
<1>1. CASE i.tool
    BY <1>1 DEF Addressee
<1>2. CASE ~i.tool
    BY <1>2 DEF Addressee
<1> QED
    BY <1>1, <1>2

LEMMA SentShape ==
    ASSUME TypeOK, NEW e \in Event, Sent(e), Len(log) < MaxMessages
    PROVE  /\ log' \in Seq(Event) /\ Len(log') = Len(log) + 1 /\ Len(log') <= MaxMessages
           /\ \A k \in 1 .. Len(log) : log'[k] = log[k]
           /\ log'[Len(log')] = e
<1>1. log \in Seq(Event) /\ MaxMessages \in Nat /\ log' = log \o <<e>>
    BY InteropAssumption DEF TypeOK, Sent
<1>2. log' \in Seq(Event) /\ Len(log') = Len(log) + 1
    BY <1>1
<1>3. log'[Len(log')] = e /\ \A k \in 1 .. Len(log) : log'[k] = log[k]
    BY <1>1, <1>2
<1>4. Len(log') <= MaxMessages
    BY <1>1, <1>2
<1> QED
    BY <1>2, <1>3, <1>4

-----------------------------------------------------------------------------
LEMMA InitInv == Init => Inv
<1> SUFFICES ASSUME Init PROVE Inv
    OBVIOUS
<1> USE Literals
<1>0. /\ \A p \in Procs : call[p].step = "idle"
      /\ \A c \in Channels, a \in Aliases : Founder[c][a] \in Nodes \cup {NoNode}
      /\ \A c \in Channels, a \in Aliases : member[c][a] = [node |-> Founder[c][a], card |-> NoCard]
    BY InteropAssumption DEF Init, Idle
<1>1. member \in [Channels -> Rows]
    <2>1. \A c \in Channels, a \in Aliases : member[c][a] \in Row \cup {Nobody}
        <3>1. \A f \in Nodes : [node |-> f, card |-> NoCard] \in Row
            BY DEF Row, Cards
        <3> QED
            BY <1>0, <3>1 DEF Nobody
    <2>2. \A c \in Channels : member[c] \in Rows
        BY <2>1 DEF Init, Rows
    <2> QED
        BY <2>2 DEF Init
<1>2. mirror \in [Nodes -> [Channels -> Rows]]
    <2>1. \A n \in Nodes, c \in Channels, a \in Aliases : mirror[n][c][a] \in {member[c][a], Nobody}
        BY DEF Init
    <2>2. \A c \in Channels, a \in Aliases : member[c][a] \in Row \cup {Nobody}
        BY <1>1 DEF Rows
    <2>3. \A n \in Nodes, c \in Channels : mirror[n][c] \in Rows
        BY <2>1, <2>2 DEF Init, Rows
    <2> QED
        BY <2>3 DEF Init
<1>3. TypeOK
    <2>1. call \in [Procs -> Call]
        BY DEF Init, Call
    <2>2. log \in Seq(Event) /\ Len(log) <= MaxMessages /\ faults \in 0 .. MaxFaults /\ begun \in 0 .. MaxOps
        <3>1. MaxMessages \in Nat /\ MaxFaults \in Nat /\ MaxOps \in Nat
            BY InteropAssumption
        <3>2. log = << >> /\ faults = 0 /\ begun = 0
            BY DEF Init
        <3> QED
            BY <3>1, <3>2
    <2>3. active \in [Sessions -> SUBSET Channels] /\ inbox \in [Nodes -> SUBSET (1 .. Len(log))]
        BY DEF Init
    <2> QED
        BY <1>1, <1>2, <2>1, <2>2, <2>3 DEF Init, TypeOK
<1>4. RowsSound
    <2>1. \A c \in Channels, a \in Aliases : RowFits(c, a, member[c][a])
        <3>1. \A c \in Channels, a \in Aliases :
                member[c][a].node = Founder[c][a] /\ member[c][a].card = NoCard
            <4> TAKE c \in Channels, a \in Aliases
            <4>1. member[c][a] = [node |-> Founder[c][a], card |-> NoCard]
                BY <1>0
            <4> QED
                BY <4>1
        <3> QED
            BY <3>1 DEF RowFits, Has
    <2>2. \A n \in Nodes, c \in Channels, a \in Aliases : RowFits(c, a, mirror[n][c][a])
        <3>1. \A n \in Nodes, c \in Channels, a \in Aliases : mirror[n][c][a] \in {member[c][a], Nobody}
            BY DEF Init
        <3> QED
            BY <2>1, <3>1 DEF RowFits
    <2>3. \A n \in Nodes, c \in Channels : own[n][c] # NoAlias => Has(n, c, own[n][c])
        BY DEF Init
    <2>4. \A p \in Procs : CallFits(p, call[p])
        BY <1>0 DEF CallFits
    <2> QED
        BY <2>1, <2>2, <2>3, <2>4 DEF RowsSound, RowsFit, AliasFits
<1>5. ActiveStand
    <2>1. \A s \in Sessions : s \in Procs
        BY DEF Procs
    <2> QED
        BY <1>0, <2>1 DEF Init, ActiveStand
<1>6. AllPassed /\ AllNamed
    <2>1. 1 .. Len(log) = {} /\ \A s \in Sessions : s \in Procs
        BY DEF Init, Procs
    <2> QED
        BY <1>0, <2>1 DEF AllPassed, AllNamed
<1>7. Reached /\ VouchedIsTaken
    BY DEF Init, Reached, VouchedIsTaken
<1> QED
    BY <1>3, <1>4, <1>5, <1>6, <1>7 DEF Inv

-----------------------------------------------------------------------------
LEMMA Bounds == MaxMessages \in Nat /\ MaxOps \in Nat /\ MaxFaults \in Nat /\ NodeOf \in [Procs -> Nodes]
BY InteropAssumption

LEMMA CountersStep ==
    ASSUME TypeOK
    PROVE  /\ Begun => begun' \in 0 .. MaxOps
           /\ \A c : Fault(c) => faults' \in 0 .. MaxFaults
BY Bounds DEF TypeOK, Begun, Fault

\* A row that was there has another card.
LEMMA CardShape ==
    ASSUME TypeOK, NEW c \in Channels, NEW a \in Aliases, NEW d \in Sessions \cup {ByHand},
           member[c][a] # Nobody, CardTaken(c, a, d)
    PROVE  /\ member' \in [Channels -> Rows] /\ overtaken' \subseteq Sessions \X Channels
           /\ member'[c][a] = [node |-> member[c][a].node, card |-> d]
           /\ \A e \in Channels, b \in Aliases : e # c \/ b # a => member'[e][b] = member[e][b]
<1> USE Literals
<1>1. member[c][a] \in Row
    BY RowShape DEF TypeOK
<1>2. [member[c][a] EXCEPT !.card = d] \in Row
    BY <1>1 DEF Row, Cards
<1>3. member' = [member EXCEPT ![c][a] = [member[c][a] EXCEPT !.card = d]]
    BY DEF CardTaken, TypeOK, Rows
<1>4. [member[c][a] EXCEPT !.card = d] = [node |-> member[c][a].node, card |-> d]
    BY <1>1 DEF Row
<1>5. overtaken' \subseteq Sessions \X Channels
    BY MatesShape DEF TypeOK, CardTaken
<1>6. member \in [Channels -> Rows]
    BY DEF TypeOK
<1> QED
    <2> DEFINE r == [node |-> member[c][a].node, card |-> d]
    <2>1. r \in Row /\ member' = [member EXCEPT ![c][a] = r]
        BY <1>2, <1>3, <1>4
    <2> HIDE DEF r
    <2>2. /\ member' \in [Channels -> Rows] /\ member'[c][a] = r
          /\ \A e \in Channels, b \in Aliases : e # c \/ b # a => member'[e][b] = member[e][b]
        BY <1>6, <2>1 DEF Rows
    <2> QED
        BY <1>5, <2>2 DEF r

\* The home after a join, a leave and a card.
LEMMA JoinMember ==
    ASSUME TypeOK, NEW p \in Procs, NEW c \in Channels, NEW a \in Aliases, Join(p, c, a)
    PROVE  /\ member' \in [Channels -> Rows]
           /\ \/ member' = member /\ (Has(NodeOf[p], c, a) \/ <<c, a>> \in loose')
              \/ /\ member[c][a] = Nobody /\ member'[c][a] = [node |-> NodeOf[p], card |-> NoCard]
                 /\ \A d \in Channels, b \in Aliases : d # c \/ b # a => member'[d][b] = member[d][b]
<1>1. [node |-> NodeOf[p], card |-> NoCard] \in Row /\ member \in [Channels -> Rows]
    BY Bounds DEF TypeOK, Row, Cards
<1>2. CASE member' = member /\ loose' = IF Has(NodeOf[p], c, a) THEN loose ELSE loose \cup {<<c, a>>}
    BY <1>1, <1>2
<1>3. CASE Enters(NodeOf[p], c, a) /\ member' = [member EXCEPT ![c][a] = [node |-> NodeOf[p], card |-> NoCard]]
    <2>1. member[c][a] = Nobody
        BY <1>3 DEF Enters
    <2> QED
        <3> DEFINE r == [node |-> NodeOf[p], card |-> NoCard]
        <3>1. r \in Row /\ member' = [member EXCEPT ![c][a] = r]
            BY <1>1, <1>3
        <3> HIDE DEF r
        <3>2. /\ member' \in [Channels -> Rows] /\ member'[c][a] = r
              /\ \A d \in Channels, b \in Aliases : d # c \/ b # a => member'[d][b] = member[d][b]
            BY <1>1, <3>1 DEF Rows
        <3> QED
            BY <2>1, <3>2 DEF r
<1> QED
    BY <1>2, <1>3 DEF Join

LEMMA LeaveMember ==
    ASSUME TypeOK, NEW p \in Procs, Leaves(p)
    PROVE  \E c \in Channels, a \in Aliases :
            /\ call[p].channel = c /\ call[p].alias = a
            /\ \/ UNCHANGED <<member, loose, overtaken>>
               \/ /\ Vacated(c, a) /\ member' \in [Channels -> Rows]
                  /\ member'[c][a] = Nobody
                  /\ \A d \in Channels, b \in Aliases : d # c \/ b # a => member'[d][b] = member[d][b]
<1>1. call[p].channel \in Channels /\ call[p].alias \in Aliases /\ member \in [Channels -> Rows]
    BY CallShape DEF TypeOK, Leaves
<1>2. CASE Vacated(call[p].channel, call[p].alias)
    <2>1. member' = [member EXCEPT ![call[p].channel][call[p].alias] = Nobody]
        BY <1>2 DEF Vacated
    <2> QED
        <3>1. /\ member' \in [Channels -> Rows] /\ member'[call[p].channel][call[p].alias] = Nobody
              /\ \A d \in Channels, b \in Aliases :
                    d # call[p].channel \/ b # call[p].alias => member'[d][b] = member[d][b]
            BY <1>1, <2>1 DEF Rows
        <3> QED
            BY <1>1, <1>2, <3>1
<1>3. CASE UNCHANGED <<member, loose, overtaken>>
    BY <1>1, <1>3
<1> QED
    BY <1>2, <1>3 DEF Leaves

\* Whoever is updated has a row.
LEMMA UpdatedRow ==
    ASSUME TypeOK, NEW p \in Procs, NEW c \in Channels, NEW a \in Aliases, NEW b \in Aliases, Updates(NodeOf[p], c, a, b)
    PROVE  member[c][b] # Nobody
<1>1. NodeOf[p] \in Nodes /\ NodeOf[p] # NoNode
    BY Bounds, Literals
<1>2. CASE c \in hub
    BY <1>2 DEF Updates
<1>3. CASE c \notin hub
    BY <1>1, <1>3 DEF Updates, Has, Nobody
<1> QED
    BY <1>2, <1>3

LEMMA CardMember ==
    ASSUME TypeOK, NEW p \in Procs, CardAnswered(p)
    PROVE  \/ UNCHANGED <<member, overtaken>> /\ call' = [call EXCEPT ![p] = Idle]
           \/ \E c \in Channels, a, b \in Aliases, d \in Sessions \cup {ByHand} :
                /\ call[p].channel = c /\ call[p].alias = a /\ call[p].card = d
                /\ Updates(NodeOf[p], c, a, b) /\ CardTaken(c, b, d) /\ member[c][b] # Nobody
                /\ member' \in [Channels -> Rows] /\ overtaken' \subseteq Sessions \X Channels
                /\ member'[c][b] = [node |-> member[c][b].node, card |-> d]
                /\ \A e \in Channels, x \in Aliases : e # c \/ x # b => member'[e][x] = member[e][x]
<1>1. call[p].channel \in Channels /\ call[p].alias \in Aliases /\ call[p].card \in Sessions \cup {ByHand}
    BY CallShape DEF TypeOK, CardAnswered
<1>2. ASSUME NEW b \in Aliases, Updates(NodeOf[p], call[p].channel, call[p].alias, b),
             CardTaken(call[p].channel, b, call[p].card)
      PROVE  /\ member' \in [Channels -> Rows] /\ overtaken' \subseteq Sessions \X Channels
             /\ member[call[p].channel][b] # Nobody
             /\ member'[call[p].channel][b] = [node |-> member[call[p].channel][b].node, card |-> call[p].card]
             /\ \A e \in Channels, x \in Aliases : e # call[p].channel \/ x # b => member'[e][x] = member[e][x]
    BY <1>1, <1>2, UpdatedRow, CardShape
<1> QED
    BY <1>1, <1>2 DEF CardAnswered, Await

\* Every action keeps the types.
LEMMA TypeStep == TypeOK /\ [Next]_vars => TypeOK'
<1> SUFFICES ASSUME TypeOK, [Next]_vars PROVE TypeOK'
    OBVIOUS
<1>0. /\ NodeOf \in [Procs -> Nodes] /\ Idle \in Call
      /\ \A p \in Procs : call[p] \in Call
    BY Bounds DEF TypeOK, Call
<1>1. ASSUME NEW p \in Procs, Exit(p) PROVE TypeOK'
    BY <1>0, <1>1 DEF TypeOK, Exit, records, events
<1>2. ASSUME NEW p \in Procs, Joined(p) PROVE TypeOK'
    <2>1. call[p].channel \in Channels /\ call[p].alias \in Aliases /\ call[p].rows \in Rows
        BY <1>0, <1>2, CallShape DEF Joined
    <2>2. Upserted(mirror[NodeOf[p]][call[p].channel], call[p].rows) \in Rows
        BY <1>0, <2>1, UpsertedShape DEF TypeOK
    <2>3. mirror' \in [Nodes -> [Channels -> Rows]]
        BY <1>2, <2>2 DEF TypeOK, Joined
    <2>4. own' \in [Nodes -> [Channels -> Aliases \cup {NoAlias}]]
        BY <1>2, <2>1 DEF TypeOK, Joined
    <2> QED
        BY <1>0, <1>2, <2>3, <2>4 DEF TypeOK, Joined, Await, events
<1>3. ASSUME NEW p \in Procs, Leaves(p) PROVE TypeOK'
    <2>1. call[p].channel \in Channels /\ call[p].alias \in Aliases /\ call[p].step = "leave"
        BY <1>0, <1>3, CallShape DEF Leaves
    <2>2. call' \in [Procs -> Call]
        <3>1. [call[p] EXCEPT !.step = "forget"] \in Call
            BY <1>0, <2>1 DEF Call, Idle
        <3> QED
            BY <1>3, <3>1 DEF TypeOK, Leaves, Await
    <2>3. /\ member' \in [Channels -> Rows]
          /\ overtaken' \subseteq Sessions \X Channels /\ loose' \subseteq Channels \X Aliases
        <3>1. CASE UNCHANGED <<member, loose, overtaken>>
            BY <3>1 DEF TypeOK
        <3>2. CASE member' \in [Channels -> Rows] /\ Vacated(call[p].channel, call[p].alias)
            BY <2>1, <3>2, MatesShape DEF TypeOK, Vacated
        <3> QED
            BY <1>3, <3>1, <3>2, LeaveMember
    <2> QED
        BY <1>3, <2>2, <2>3 DEF TypeOK, Leaves, events
<1>4. ASSUME NEW p \in Procs, Left(p) PROVE TypeOK'
    <2>1. own' \in [Nodes -> [Channels -> Aliases \cup {NoAlias}]]
        BY <1>4 DEF TypeOK, Left
    <2> QED
        BY <1>0, <1>4, <2>1 DEF TypeOK, Left, Await, events
<1>5. ASSUME NEW p \in Procs, CardAnswered(p) PROVE TypeOK'
    <2> DEFINE c == call[p].channel
    <2>1. /\ c \in Channels /\ call[p].alias \in Aliases /\ call[p].card \in Sessions \cup {ByHand}
          /\ call[p].step = "card"
        BY <1>0, <1>5, CallShape DEF CardAnswered
    <2>2. [call[p] EXCEPT !.step = "row"] \in Call
        BY <1>0, <2>1 DEF Call, Idle
    <2>3. call' \in [Procs -> Call] /\ faults' \in 0 .. MaxFaults
        <3>1. call' = [call EXCEPT ![p] = Idle] \/ call' = [call EXCEPT ![p] = [call[p] EXCEPT !.step = "row"]]
            BY <1>5 DEF CardAnswered, Await
        <3>2. faults' = faults \/ Fault(c)
            BY <1>5 DEF CardAnswered
        <3> QED
            BY <1>0, <2>2, <3>1, <3>2, CountersStep DEF TypeOK
    <2>4. member' \in [Channels -> Rows] /\ overtaken' \subseteq Sessions \X Channels
        BY <1>5, CardMember DEF TypeOK
    <2> QED
        BY <1>5, <2>3, <2>4 DEF TypeOK, CardAnswered, events
<1>6. ASSUME NEW p \in Procs, CardRefused(p) PROVE TypeOK'
    BY <1>0, <1>6, CountersStep DEF TypeOK, CardRefused, Await, records, events
<1>7. ASSUME NEW p \in Procs, Activate(p) PROVE TypeOK'
    <2>1. call[p].channel \in Channels /\ call[p].alias \in Aliases /\ call[p].card \in Cards
        BY <1>0, <1>7, CallShape DEF Activate, Cards
    <2>2. [node |-> NodeOf[p], card |-> call[p].card] \in Row
        BY <1>0, <2>1 DEF Row
    <2>3. mirror' \in [Nodes -> [Channels -> Rows]]
        BY <1>7, <2>1, <2>2 DEF TypeOK, Activate, Rows
    <2>4. active' \in [Sessions -> SUBSET Channels]
        BY <1>7, <2>1 DEF TypeOK, Activate
    <2> QED
        BY <1>0, <1>7, <2>3, <2>4 DEF TypeOK, Activate, Await, events
<1>8. ASSUME NEW p \in Procs, NEW c \in Channels, NEW a \in Aliases, Join(p, c, a) PROVE TypeOK'
    <2>1. member' \in [Channels -> Rows]
        BY <1>8, JoinMember
    <2>2. [step |-> "join", channel |-> c, alias |-> a, rows |-> member'[c]] \in Call
        <3>1. member'[c] \in Rows
            BY <2>1
        <3> QED
            BY <3>1 DEF Call
    <2>3. call' \in [Procs -> Call] /\ loose' \subseteq Channels \X Aliases
        BY <1>8, <2>2 DEF TypeOK, Join, Await
    <2> QED
        BY <1>8, <2>1, <2>3, CountersStep DEF TypeOK, Join, events
<1>9. ASSUME NEW p \in Procs, NEW c \in Channels, Leave(p, c) \/ PublishByHand(p, c) PROVE TypeOK'
    <2>1. own[NodeOf[p]][c] \in Aliases
        BY <1>0, <1>9 DEF TypeOK, Leave, PublishByHand, Known
    <2>2. PICK k \in Call : call' = [call EXCEPT ![p] = k]
        <3>1. /\ [step |-> "leave", channel |-> c, alias |-> own[NodeOf[p]][c]] \in Call
              /\ [step |-> "card", channel |-> c, alias |-> own[NodeOf[p]][c], card |-> ByHand] \in Call
            BY <2>1 DEF Call
        <3> QED
            BY <1>9, <3>1 DEF Leave, PublishByHand, Await
    <2>3. call' \in [Procs -> Call]
        BY <2>2 DEF TypeOK
    <2> QED
        BY <1>9, <2>3, CountersStep DEF TypeOK, Leave, PublishByHand, records, events
<1>10. ASSUME NEW s \in Sessions, NEW c \in Channels, PublishCard(s, c) PROVE TypeOK'
    <2>1. s \in Procs /\ own[NodeOf[s]][c] \in Aliases
        BY <1>0, <1>10 DEF TypeOK, PublishCard, Known, Procs
    <2>2. [step |-> "card", channel |-> c, alias |-> own[NodeOf[s]][c], card |-> s] \in Call
        BY <2>1 DEF Call
    <2>3. call' \in [Procs -> Call]
        BY <1>10, <2>2 DEF TypeOK, PublishCard, Await
    <2> QED
        BY <1>10, <2>3 DEF TypeOK, PublishCard, Expected, records, events
<1>11. ASSUME NEW s \in Sessions, Gate(s) PROVE TypeOK'
    <2> DEFINE i == call[s].intent
               n == NodeOf[s]
               c == i.channel
               rows == Upserted(mirror[n][c], call[s].rows)
               to == Picked(rows, i)
               e == [from |-> own[n][c], sender |-> n, channel |-> c, to |-> Addressee(i, to),
                     selector |-> i.selector, tool |-> i.tool,
                     vouched |-> {rows[a].card : a \in to}, picked |-> {rows[a].node : a \in to}]
    <2>1. s \in Procs /\ i \in Intents /\ call[s].rows \in Rows /\ n \in Nodes
        BY <1>0, <1>11, CallShape DEF Gate, Procs
    <2>2. c \in Channels /\ i.selector \in Selector /\ i.tool \in BOOLEAN
        BY <2>1, IntentShape
    <2>3. rows \in Rows
        BY <2>1, <2>2, UpsertedShape DEF TypeOK
    <2>4. to \subseteq Aliases /\ {rows[a].card : a \in to} \subseteq Cards /\ {rows[a].node : a \in to} \subseteq Nodes
        <3>1. to \subseteq {a \in Aliases : rows[a] # Nobody}
            BY <2>1, <2>3, PickedOne
        <3> QED
            BY <2>3, <3>1, RowShape
    <2>5. to # {} => Addressee(i, to) \in {j.handle : j \in Intents} \cup Aliases
        BY <2>1, <2>4, AddresseeShape
    <2>6. to # {} /\ Known(n, c) => e \in Event
        <3>1. Known(n, c) => own[n][c] \in Aliases
            BY <2>1, <2>2 DEF TypeOK, Known
        <3>2. i.selector \in {j.selector : j \in Intents}
            BY <2>1
        <3> QED
            BY <2>1, <2>2, <2>4, <2>5, <3>1, <3>2 DEF Event
    <2>7. call'[s] \in Call
        <3>1. call'[s] = Idle \/ (to # {} /\ Known(n, c) /\ call'[s] = [step |-> "send", event |-> e])
            BY <1>11, <2>1 DEF Gate, TypeOK, Await
        <3> HIDE DEF e, to
        <3> QED
            BY <1>0, <2>6, <3>1 DEF Call
    <2>8. call' \in [Procs -> Call]
        BY <1>11, <2>7 DEF Gate, TypeOK, Await
    <2>9. mirror' \in [Nodes -> [Channels -> Rows]]
        <3>1. mirror' = [mirror EXCEPT ![n][c] = rows]
            BY <1>11 DEF Gate
        <3> HIDE DEF rows, c, n
        <3> QED
            BY <2>1, <2>2, <2>3, <3>1 DEF TypeOK
    <2> QED
        BY <1>11, <2>8, <2>9 DEF TypeOK, Gate, events
<1>12. ASSUME NEW s \in Sessions, Send(s) PROVE TypeOK'
    <2> DEFINE e == call[s].event
               f == [e EXCEPT !.from = own[e.sender][e.channel]]
    <2>1. s \in Procs /\ e \in Event /\ Len(log) \in Nat
        BY <1>0, <1>12, CallShape DEF TypeOK, Send, Procs
    <2>2. log' \in Seq(Event) /\ Len(log') <= MaxMessages /\ Len(log) <= Len(log')
        <3>1. CASE Known(e.sender, e.channel)
            <4>1. own[e.sender][e.channel] \in Aliases
                BY <2>1, <3>1 DEF TypeOK, Event, Known
            <4>2. f \in Event
                BY <2>1, <4>1 DEF Event
            <4>3. Sent(f) /\ Len(log) < MaxMessages
                BY <1>12, <3>1 DEF Send
            <4> HIDE DEF f
            <4> QED
                BY <2>1, <4>2, <4>3, SentShape
        <3>2. CASE ~Known(e.sender, e.channel)
            BY <1>12, <2>1, <3>2 DEF TypeOK, Send
        <3> QED
            BY <3>1, <3>2
    <2>3. \A t \in taken' : t.event \in 1 .. Len(log') /\ t.by \in Sessions
        BY <1>12, <2>1, <2>2 DEF TypeOK, Send
    <2>4. call' \in [Procs -> Call]
        BY <1>0, <1>12, <2>1 DEF TypeOK, Send, Await
    <2>5. inbox' \in [Nodes -> SUBSET (1 .. Len(log'))]
        <3>1. 1 .. Len(log) \subseteq 1 .. Len(log')
            BY <2>1, <2>2
        <3> QED
            BY <1>12, <3>1 DEF TypeOK, Send
    <2> QED
        BY <1>12, <2>2, <2>3, <2>4, <2>5 DEF TypeOK, Send, records
<1>13. ASSUME NEW s \in Sessions, NEW i \in Intents, List(s, i) PROVE TypeOK'
    <2>1. PICK rows \in {member[i.channel], [a \in Aliases |-> Nobody]} :
            call' = [call EXCEPT ![s] = [step |-> "list", rows |-> rows, intent |-> i]]
        BY <1>13 DEF List, Await
    <2>2. rows \in Rows
        BY <2>1, IntentShape DEF TypeOK, Rows
    <2>3. call' \in [Procs -> Call]
        BY <2>1, <2>2 DEF TypeOK, Call
    <2>4. faults' \in 0 .. MaxFaults
        <3>1. faults' = faults \/ Fault(i.channel)
            BY <1>13 DEF List
        <3> QED
            BY <3>1, CountersStep DEF TypeOK
    <2> QED
        BY <1>13, <2>3, <2>4 DEF TypeOK, List, records, events
<1>14. ASSUME NEW s \in Sessions, NEW i \in Intents, Announce(s, i) PROVE TypeOK'
    <2> DEFINE e == [from |-> own[NodeOf[s]][i.channel], sender |-> NodeOf[s], channel |-> i.channel,
                     to |-> Everyone, selector |-> i.selector, tool |-> TRUE, vouched |-> {}, picked |-> {}]
    <2>1. e \in Event /\ Sent(e) /\ Len(log) < MaxMessages
        <3>1. Sent(e) /\ Len(log) < MaxMessages
            BY <1>14 DEF Announce
        <3>2. s \in Procs /\ NodeOf[s] \in Nodes /\ i.channel \in Channels
            BY <1>0, IntentShape DEF Procs
        <3>3. own[NodeOf[s]][i.channel] \in Aliases
            BY <1>14, <3>2 DEF TypeOK, Announce, Known
        <3> QED
            BY <3>1, <3>2, <3>3 DEF Event
    <2>2. Len(log) \in Nat /\ log' \in Seq(Event) /\ Len(log') <= MaxMessages /\ Len(log) <= Len(log')
        <3>1. Len(log) \in Nat
            BY DEF TypeOK
        <3> HIDE DEF e
        <3> QED
            BY <2>1, <3>1, SentShape
    <2>3. \A t \in taken' : t.event \in 1 .. Len(log') /\ t.by \in Sessions
        BY <1>14, <2>2 DEF TypeOK, Announce
    <2>4. inbox' \in [Nodes -> SUBSET (1 .. Len(log'))]
        <3>1. 1 .. Len(log) \subseteq 1 .. Len(log')
            BY <2>2
        <3> QED
            BY <1>14, <3>1 DEF TypeOK, Announce
    <2> QED
        BY <1>14, <2>2, <2>3, <2>4 DEF TypeOK, Announce, records
<1>15. ASSUME NEW n \in Nodes, NEW k \in 1 .. Len(log), Receive(n, k) PROVE TypeOK'
    BY <1>15 DEF TypeOK, Receive, records
<1>16. ASSUME NEW s \in Sessions, NEW k \in 1 .. Len(log), Process(s, k) PROVE TypeOK'
    <2>1. \A t \in taken' : t.event \in 1 .. Len(log) /\ t.by \in Sessions
        BY <1>16 DEF TypeOK, Process
    <2> QED
        BY <1>16, <2>1 DEF TypeOK, Process, records
<1>17. ASSUME UNCHANGED vars PROVE TypeOK'
    BY <1>17 DEF TypeOK, vars, records, events
<1> QED
    BY <1>1, <1>2, <1>3, <1>4, <1>5, <1>6, <1>7, <1>8, <1>9, <1>10, <1>11, <1>12, <1>13, <1>14, <1>15, <1>16, <1>17 DEF Next

\* An alias that nobody gave up is still that of the node that had it.
LEMMA HasStays ==
    ASSUME TypeOK, [Next]_vars, NEW c \in Channels, NEW a \in Aliases, Sure(c, a)'
    PROVE  Sure(c, a) /\ \A n \in Nodes : Has(n, c, a) => Has(n, c, a)'
<1> USE Literals
<1>1. ASSUME NEW p \in Procs, NEW d \in Channels, NEW b \in Aliases, Join(p, d, b)
      PROVE  Sure(c, a) /\ \A n \in Nodes : Has(n, c, a) => Has(n, c, a)'
    <2>1. loose \subseteq loose'
        BY <1>1 DEF Join
    <2>2. member'[c][a] = member[c][a] \/ member[c][a] = Nobody
        BY <1>1, JoinMember
    <2>3. \A n \in Nodes : Has(n, c, a) => member'[c][a].node = n
        BY <2>2 DEF Has, Nobody
    <2> QED
        BY <2>1, <2>3 DEF Sure, Has
<1>2. ASSUME NEW p \in Procs, Leaves(p)
      PROVE  Sure(c, a) /\ \A n \in Nodes : Has(n, c, a) => Has(n, c, a)'
    <2>1. loose \subseteq loose'
        BY <1>2 DEF Leaves, Vacated
    <2>2. member'[c][a] = member[c][a]
        BY <1>2, LeaveMember DEF Sure, Vacated
    <2> QED
        BY <2>1, <2>2 DEF Sure, Has
<1>3. ASSUME NEW p \in Procs, CardAnswered(p)
      PROVE  Sure(c, a) /\ \A n \in Nodes : Has(n, c, a) => Has(n, c, a)'
    <2>1. loose' = loose
        BY <1>3 DEF CardAnswered
    <2>2. member'[c][a].node = member[c][a].node
        <3>1. CASE member' = member
            BY <3>1
        <3>2. CASE member' # member
            <4>1. PICK d \in Channels, b \in Aliases, x \in Sessions \cup {ByHand} :
                    /\ member'[d][b] = [node |-> member[d][b].node, card |-> x]
                    /\ \A e \in Channels, y \in Aliases : e # d \/ y # b => member'[e][y] = member[e][y]
                BY <1>3, <3>2, CardMember
            <4>2. member'[d][b].node = member[d][b].node
                BY <4>1
            <4> QED
                BY <4>1, <4>2
        <3> QED
            BY <3>1, <3>2
    <2> QED
        BY <2>1, <2>2 DEF Sure, Has
<1>4. CASE UNCHANGED <<member, loose>>
    BY <1>4 DEF Sure, Has
<1>5. \/ UNCHANGED <<member, loose>>
      \/ \E p \in Procs : Leaves(p) \/ CardAnswered(p)
      \/ \E p \in Procs, d \in Channels, b \in Aliases : Join(p, d, b)
    BY DEF Next, vars, records, events, Exit, Joined, Left, CardRefused, Activate, Leave, PublishByHand, PublishCard,
           Gate, Send, List, Announce, Receive, Process
<1> QED
    BY <1>1, <1>2, <1>3, <1>4, <1>5

\* So a row that fits goes on to fit.
LEMMA FitsStay ==
    ASSUME TypeOK, [Next]_vars, NEW c \in Channels, NEW a \in Aliases, Sure(c, a)'
    PROVE  /\ \A n \in Nodes : AliasFits(n, c, a) => Has(n, c, a)'
           /\ \A r \in Row \cup {Nobody} : RowFits(c, a, r) => RowFits(c, a, r)'
BY HasStays DEF AliasFits, RowFits, Row

\* The home: a card is written by a session of the node whose row it is.
LEMMA MemberStep ==
    ASSUME TypeOK, RowsSound, [Next]_vars, NEW c \in Channels
    PROVE  RowsFit(c, member[c])'
<1> SUFFICES ASSUME NEW a \in Aliases, Sure(c, a)' PROVE RowFits(c, a, member[c][a])'
    BY DEF RowsFit
<1> USE Literals
<1>0. /\ Sure(c, a) /\ RowFits(c, a, member[c][a]) /\ \A r \in Row \cup {Nobody} : RowFits(c, a, r) => RowFits(c, a, r)'
      /\ member[c] \in Rows /\ member'[c] \in Rows
    BY HasStays, FitsStay, TypeStep DEF RowsSound, RowsFit, TypeOK
<1>1. CASE member'[c][a] = member[c][a]
    BY <1>0, <1>1 DEF RowFits, Has
<1>2. ASSUME NEW p \in Procs, NEW d \in Channels, NEW b \in Aliases, Join(p, d, b), member'[c][a] # member[c][a]
      PROVE  RowFits(c, a, member[c][a])'
    <2>1. member'[c][a] = [node |-> NodeOf[p], card |-> NoCard]
        <3>1. /\ member'[d][b] = [node |-> NodeOf[p], card |-> NoCard]
              /\ \A e \in Channels, x \in Aliases : e # d \/ x # b => member'[e][x] = member[e][x]
            BY <1>2, JoinMember
        <3>2. c = d /\ a = b
            BY <1>2, <3>1
        <3> QED
            BY <3>1, <3>2
    <2> QED
        BY <2>1 DEF RowFits, Has
<1>3. ASSUME NEW p \in Procs, Leaves(p), member'[c][a] # member[c][a]
      PROVE  RowFits(c, a, member[c][a])'
    BY <1>3, LeaveMember DEF RowFits
<1>4. ASSUME NEW p \in Procs, CardAnswered(p), member'[c][a] # member[c][a]
      PROVE  RowFits(c, a, member[c][a])'
    <2> DEFINE k == call[p]
    <2>1. k \in Call /\ k.step = "card" /\ CallFits(p, k)
        BY <1>4 DEF TypeOK, CardAnswered, RowsSound
    <2>2. /\ k.channel = c /\ Updates(NodeOf[p], c, k.alias, a) /\ k.card \in Sessions \cup {ByHand}
          /\ member'[c][a] = [node |-> member[c][a].node, card |-> k.card]
        <3>1. PICK d \in Channels, z, b \in Aliases, x \in Sessions \cup {ByHand} :
                /\ k.channel = d /\ k.alias = z /\ k.card = x /\ Updates(NodeOf[p], d, z, b)
                /\ member'[d][b] = [node |-> member[d][b].node, card |-> x]
                /\ \A e \in Channels, y \in Aliases : e # d \/ y # b => member'[e][y] = member[e][y]
            <4>1. member' # member
                BY <1>4
            <4> HIDE DEF k
            <4> QED
                BY <1>4, <4>1, CardMember DEF k
        <3>2. c = d /\ a = b
            BY <1>4, <3>1
        <3> QED
            BY <3>1, <3>2
    <2>3. Has(NodeOf[p], c, a)
        BY <1>0, <2>1, <2>2 DEF Updates, CallFits, AliasFits
    <2>4. k.card \in Sessions => k.card = p
        BY <2>1 DEF CallFits
    <2> QED
        BY <2>2, <2>3, <2>4 DEF RowFits, Has
<1>5. \/ member'[c][a] = member[c][a]
      \/ \E p \in Procs : Leaves(p) \/ CardAnswered(p)
      \/ \E p \in Procs, d \in Channels, b \in Aliases : Join(p, d, b)
    BY DEF Next, vars, records, events, Exit, Joined, Left, CardRefused, Activate, Leave, PublishByHand, PublishCard,
           Gate, Send, List, Announce, Receive, Process
<1> QED
    BY <1>1, <1>2, <1>3, <1>4, <1>5

\* The rows that are on record come from the home, or are the node's own.
LEMMA MirrorStep ==
    ASSUME TypeOK, RowsSound, [Next]_vars, NEW n \in Nodes, NEW c \in Channels
    PROVE  RowsFit(c, mirror[n][c])'
<1> SUFFICES ASSUME NEW a \in Aliases, Sure(c, a)' PROVE RowFits(c, a, mirror[n][c][a])'
    BY DEF RowsFit
<1> USE Literals
<1> DEFINE r == mirror'[n][c][a]
<1>0. /\ Sure(c, a) /\ mirror[n][c] \in Rows /\ RowFits(c, a, mirror[n][c][a])
      /\ \A x \in Row \cup {Nobody} : RowFits(c, a, x) => RowFits(c, a, x)'
    BY HasStays, FitsStay DEF RowsSound, RowsFit, TypeOK
<1>1. r \in Row \cup {Nobody}
    BY TypeStep DEF TypeOK, Rows
<1>2. SUFFICES RowFits(c, a, r)
    BY <1>0, <1>1, <1>2 DEF RowFits, Has
<1>3. CASE r = mirror[n][c][a]
    BY <1>0, <1>3
<1>4. ASSUME NEW p \in Procs, Joined(p), r # mirror[n][c][a] PROVE RowFits(c, a, r)
    <2>1. call[p] \in Call /\ CallFits(p, call[p]) /\ call[p].step = "join" /\ call[p].channel \in Channels
        BY <1>4, CallShape DEF TypeOK, RowsSound, Joined
    <2>2. c = call[p].channel /\ r = call[p].rows[a]
        BY <1>4, <2>1 DEF TypeOK, Joined, Upserted
    <2> QED
        BY <1>0, <2>1, <2>2 DEF CallFits, RowsFit
<1>5. ASSUME NEW p \in Procs, Activate(p), r # mirror[n][c][a] PROVE RowFits(c, a, r)
    <2>1. /\ call[p] \in Call /\ CallFits(p, call[p]) /\ call[p].step = "row"
          /\ call[p].channel \in Channels /\ call[p].alias \in Aliases /\ call[p].card \in Sessions \cup {ByHand}
        BY <1>5, CallShape DEF TypeOK, RowsSound, Activate
    <2>2. c = call[p].channel /\ a = call[p].alias /\ r = [node |-> NodeOf[p], card |-> call[p].card]
        BY <1>5, <2>1 DEF TypeOK, Rows, Activate
    <2>3. Has(NodeOf[p], c, a) /\ (call[p].card \in Sessions => call[p].card = p)
        BY <1>0, <2>1, <2>2 DEF CallFits, AliasFits
    <2> QED
        BY <2>2, <2>3 DEF RowFits
<1>6. ASSUME NEW s \in Sessions, Gate(s), r # mirror[n][c][a] PROVE RowFits(c, a, r)
    <2>1. /\ s \in Procs /\ call[s] \in Call /\ CallFits(s, call[s]) /\ call[s].step = "list"
          /\ call[s].intent \in Intents
        BY <1>6, CallShape DEF TypeOK, RowsSound, Gate, Procs
    <2>2. call[s].intent.channel \in Channels
        BY <2>1, IntentShape
    <2>3. c = call[s].intent.channel /\ r = call[s].rows[a]
        BY <1>6, <2>1, <2>2 DEF TypeOK, Gate, Upserted
    <2> QED
        BY <1>0, <2>1, <2>3 DEF CallFits, RowsFit
<1>7. \/ r = mirror[n][c][a]
      \/ \E p \in Procs : Joined(p) \/ Activate(p)
      \/ \E s \in Sessions : Gate(s)
    BY DEF Next, vars, records, events, Exit, Join, Leaves, Left, CardAnswered, CardRefused, Leave, PublishByHand, PublishCard,
           Send, List, Announce, Receive, Process
<1> QED
    BY <1>3, <1>4, <1>5, <1>6, <1>7

\* The own row is written by a join the home has answered.
LEMMA OwnStep ==
    ASSUME TypeOK, RowsSound, [Next]_vars, NEW n \in Nodes, NEW c \in Channels, own'[n][c] # NoAlias
    PROVE  AliasFits(n, c, own[n][c])'
<1> SUFFICES ASSUME NEW a \in Aliases, own'[n][c] = a, Sure(c, a)' PROVE Has(n, c, a)'
    BY TypeStep DEF TypeOK, AliasFits
<1>1. AliasFits(n, c, a) => Has(n, c, a)'
    BY FitsStay
<1>2. ASSUME own'[n][c] = own[n][c] PROVE AliasFits(n, c, a)
    BY <1>2 DEF RowsSound
<1>3. ASSUME NEW p \in Procs, Joined(p), own'[n][c] # own[n][c] PROVE AliasFits(n, c, a)
    <2>1. call[p] \in Call /\ CallFits(p, call[p]) /\ call[p].step = "join" /\ call[p].channel \in Channels
        BY <1>3, CallShape DEF TypeOK, RowsSound, Joined
    <2>2. n = NodeOf[p] /\ c = call[p].channel /\ a = call[p].alias
        BY <1>3, <2>1 DEF TypeOK, Joined
    <2> QED
        BY <2>1, <2>2 DEF CallFits
<1>4. ASSUME NEW p \in Procs, Left(p) PROVE own'[n][c] = own[n][c]
    BY <1>4 DEF TypeOK, Left
<1>5. own'[n][c] = own[n][c] \/ \E p \in Procs : Joined(p) \/ Left(p)
    BY DEF Next, vars, records, events, Exit, Join, Leaves, CardAnswered, CardRefused, Activate, Leave, PublishByHand, PublishCard,
           Gate, Send, List, Announce, Receive, Process
<1> QED
    BY <1>1, <1>2, <1>3, <1>4, <1>5

\* Where what a process waits for comes from.
LEMMA CallChange ==
    ASSUME TypeOK, [Next]_vars, NEW p \in Procs
    PROVE  \/ call'[p] = call[p]
           \/ call'[p].step \in {"idle", "leave", "forget"}
           \/ \E c \in Channels, a \in Aliases : Join(p, c, a)
           \/ \E c \in Channels : PublishByHand(p, c) \/ (p \in Sessions /\ PublishCard(p, c))
           \/ CardAnswered(p)
           \/ p \in Sessions /\ (Gate(p) \/ \E i \in Intents : List(p, i))
<1> DEFINE Goal ==
        \/ call'[p] = call[p]
        \/ call'[p].step \in {"idle", "leave", "forget"}
        \/ \E c \in Channels, a \in Aliases : Join(p, c, a)
        \/ \E c \in Channels : PublishByHand(p, c) \/ (p \in Sessions /\ PublishCard(p, c))
        \/ CardAnswered(p)
        \/ p \in Sessions /\ (Gate(p) \/ \E i \in Intents : List(p, i))
<1>0. call \in [Procs -> Call] /\ Idle.step = "idle"
    BY DEF TypeOK, Idle
<1>1. ASSUME NEW q \in Procs, Exit(q) \/ Joined(q) \/ Left(q) \/ CardRefused(q) \/ Activate(q) PROVE Goal
    <2>1. call' = [call EXCEPT ![q] = Idle]
        BY <1>1 DEF Exit, Joined, Left, CardRefused, Activate, Await
    <2> QED
        BY <1>0, <2>1
<1>2. ASSUME NEW q \in Procs, Leaves(q) PROVE Goal
    <2>1. call' = [call EXCEPT ![q] = [call[q] EXCEPT !.step = "forget"]] /\ call[q].step = "leave" /\ call[q] \in Call
        BY <1>0, <1>2 DEF Leaves, Await
    <2>2. [call[q] EXCEPT !.step = "forget"].step = "forget"
        BY <2>1 DEF Call, Idle
    <2> QED
        BY <1>0, <2>1, <2>2
<1>3. ASSUME NEW q \in Procs, CardAnswered(q) PROVE Goal
    <2>1. q = p \/ call'[p] = call[p]
        BY <1>0, <1>3 DEF CardAnswered, Await
    <2> QED
        BY <1>3, <2>1
<1>4. ASSUME NEW q \in Procs, NEW c \in Channels, NEW a \in Aliases, Join(q, c, a) PROVE Goal
    <2>1. q = p \/ call'[p] = call[p]
        BY <1>0, <1>4 DEF Join, Await
    <2> QED
        BY <1>4, <2>1
<1>5. ASSUME NEW q \in Procs, NEW c \in Channels, Leave(q, c) PROVE Goal
    BY <1>0, <1>5 DEF Leave, Await
<1>6. ASSUME NEW q \in Procs, NEW c \in Channels, PublishByHand(q, c) PROVE Goal
    <2>1. q = p \/ call'[p] = call[p]
        BY <1>0, <1>6 DEF PublishByHand, Await
    <2> QED
        BY <1>6, <2>1
<1>7. ASSUME NEW s \in Sessions, NEW c \in Channels, PublishCard(s, c) PROVE Goal
    <2>1. s = p \/ call'[p] = call[p]
        BY <1>0, <1>7 DEF PublishCard, Await
    <2> QED
        BY <1>7, <2>1
<1>8. ASSUME NEW s \in Sessions, Gate(s) PROVE Goal
    <2>1. s = p \/ call'[p] = call[p]
        BY <1>0, <1>8 DEF Gate, Await
    <2> QED
        BY <1>8, <2>1
<1>9. ASSUME NEW s \in Sessions, Send(s) PROVE Goal
    BY <1>0, <1>9 DEF Send, Await
<1>10. ASSUME NEW s \in Sessions, NEW i \in Intents, List(s, i) PROVE Goal
    <2>1. s = p \/ call'[p] = call[p]
        BY <1>0, <1>10 DEF List, Await
    <2> QED
        BY <1>10, <2>1
<1>11. ASSUME call' = call PROVE Goal
    BY <1>11
<1>12. UNCHANGED vars => call' = call
    BY DEF vars
<1>13. ASSUME NEW s \in Sessions, NEW i \in Intents, Announce(s, i) PROVE call' = call
    BY <1>13 DEF Announce
<1>14. ASSUME NEW n \in Nodes, NEW k \in 1 .. Len(log), Receive(n, k) PROVE call' = call
    BY <1>14 DEF Receive
<1>15. ASSUME NEW s \in Sessions, NEW k \in 1 .. Len(log), Process(s, k) PROVE call' = call
    BY <1>15 DEF Process
<1> HIDE DEF Goal
<1>16. Goal
    BY <1>1, <1>2, <1>3, <1>4, <1>5, <1>6, <1>7, <1>8, <1>9, <1>10, <1>11, <1>12, <1>13, <1>14, <1>15 DEF Next
<1> QED
    BY <1>16 DEF Goal

\* What the gate leaves behind.
LEMMA GateCall ==
    ASSUME TypeOK, NEW s \in Sessions, Gate(s)
    PROVE  call'[s].step \in {"idle", "send"}
<1>1. PICK e : call'[s] = Idle \/ call'[s] = [step |-> "send", event |-> e]
    BY DEF TypeOK, Gate, Await, Procs
<1> QED
    BY <1>1 DEF Idle

LEMMA CallStep ==
    ASSUME TypeOK, RowsSound, [Next]_vars, NEW p \in Procs
    PROVE  CallFits(p, call[p])'
<1> DEFINE k == call'[p]
<1>0. k \in Call /\ call[p] \in Call
    BY TypeStep DEF TypeOK
<1>1. CASE k.step \in {"idle", "leave", "forget", "send"}
    BY <1>1 DEF CallFits
<1>2. CASE k = call[p]
    <2>1. CallFits(p, call[p])
        BY DEF RowsSound
    <2>2. ASSUME k.step \in {"join", "card", "row"} PROVE AliasFits(NodeOf[p], call[p].channel, call[p].alias)'
        <3>1. k.channel \in Channels /\ k.alias \in Aliases /\ NodeOf[p] \in Nodes
            BY <1>0, <2>2, CallShape, Bounds
        <3>2. PICK c \in Channels, a \in Aliases : c = k.channel /\ a = k.alias
            BY <3>1
        <3>3. AliasFits(NodeOf[p], c, a)
            BY <1>2, <2>1, <2>2, <3>2 DEF CallFits
        <3>4. Sure(c, a)' => Has(NodeOf[p], c, a)'
            BY <3>1, <3>3, FitsStay
        <3> QED
            BY <3>2, <3>4 DEF AliasFits, Sure, Has
    <2>3. ASSUME NEW c \in Channels, NEW rows \in Rows, RowsFit(c, rows) PROVE RowsFit(c, rows)'
        <3> SUFFICES ASSUME NEW a \in Aliases, Sure(c, a)' PROVE RowFits(c, a, rows[a])'
            BY DEF RowsFit
        <3>1. rows[a] \in Row \cup {Nobody} /\ RowFits(c, a, rows[a])
            BY <2>3, HasStays DEF Rows, RowsFit
        <3> QED
            BY <3>1, FitsStay
    <2>4. ASSUME k.step = "join" PROVE RowsFit(call[p].channel, call[p].rows)'
        <3>1. PICK c \in Channels, rows \in Rows : c = k.channel /\ rows = k.rows
            BY <1>0, <2>4, CallShape
        <3>2. RowsFit(c, rows)'
            BY <1>2, <2>1, <2>3, <2>4, <3>1 DEF CallFits
        <3> QED
            BY <3>1, <3>2 DEF RowsFit, Sure, RowFits, Has
    <2>5. ASSUME k.step = "list" PROVE RowsFit(call[p].intent.channel, call[p].rows)'
        <3>1. PICK c \in Channels, rows \in Rows : c = k.intent.channel /\ rows = k.rows
            BY <1>0, <2>5, CallShape, IntentShape
        <3>2. RowsFit(c, rows)'
            BY <1>2, <2>1, <2>3, <2>5, <3>1 DEF CallFits
        <3> QED
            BY <3>1, <3>2 DEF RowsFit, Sure, RowFits, Has
    <2>6. k.step \in {"card", "row"} => k.card = IF p \in Sessions THEN p ELSE ByHand
        BY <1>2, <2>1 DEF CallFits
    <2> QED
        BY <2>2, <2>4, <2>5, <2>6 DEF CallFits
<1>3. ASSUME NEW c \in Channels, NEW a \in Aliases, Join(p, c, a) PROVE CallFits(p, call[p])'
    <2>1. call'[p] = [step |-> "join", channel |-> c, alias |-> a, rows |-> member'[c]]
        BY <1>3 DEF TypeOK, Join, Await
    <2>2. RowsFit(c, member[c])'
        BY MemberStep
    <2>3. Sure(c, a)' => Has(NodeOf[p], c, a)'
        <3>1. \/ member' = member /\ (Has(NodeOf[p], c, a) \/ <<c, a>> \in loose')
              \/ member'[c][a] = [node |-> NodeOf[p], card |-> NoCard]
            BY <1>3, JoinMember
        <3>2. CASE member'[c][a] = [node |-> NodeOf[p], card |-> NoCard]
            BY <3>2 DEF Has
        <3> QED
            BY <3>1, <3>2 DEF Sure, Has
    <2> QED
        BY <2>1, <2>2, <2>3 DEF CallFits, AliasFits, RowsFit, RowFits, Sure, Has
<1>4. ASSUME NEW c \in Channels, PublishByHand(p, c) \/ (p \in Sessions /\ PublishCard(p, c))
      PROVE  CallFits(p, call[p])'
    <2>1. NodeOf[p] \in Nodes /\ own[NodeOf[p]][c] \in Aliases /\ AliasFits(NodeOf[p], c, own[NodeOf[p]][c])
        BY <1>4, Bounds DEF TypeOK, RowsSound, PublishByHand, PublishCard, Known
    <2>2. UNCHANGED <<member, loose>>
        BY <1>4 DEF PublishByHand, PublishCard, records
    <2>3. /\ call'[p].step = "card" /\ call'[p].channel = c /\ call'[p].alias = own[NodeOf[p]][c]
          /\ call'[p].card = IF p \in Sessions THEN p ELSE ByHand
        BY <1>4, InteropAssumption DEF TypeOK, PublishByHand, PublishCard, Await
    <2> QED
        BY <2>1, <2>2, <2>3 DEF CallFits, AliasFits, Sure, Has
<1>5. ASSUME CardAnswered(p) PROVE CallFits(p, call[p])'
    <2>1. call[p].step = "card" /\ CallFits(p, call[p]) /\ loose' = loose
        BY <1>5 DEF CardAnswered, RowsSound
    <2>2. k = Idle \/ k = [call[p] EXCEPT !.step = "row"]
        BY <1>5 DEF TypeOK, CardAnswered, Await
    <2>3. CASE k = Idle
        BY <2>3 DEF CallFits, Idle
    <2>4. CASE k = [call[p] EXCEPT !.step = "row"]
        <3>1. k.step = "row" /\ k.channel = call[p].channel /\ k.alias = call[p].alias /\ k.card = call[p].card
            BY <1>0, <2>1, <2>4 DEF Call, Idle
        <3>2. PICK c \in Channels, a \in Aliases : c = k.channel /\ a = k.alias
            BY <1>0, <3>1, CallShape
        <3>3. Sure(c, a)' => Has(NodeOf[p], c, a)'
            BY <2>1, <3>1, <3>2, FitsStay, Bounds DEF CallFits
        <3>4. k.card = IF p \in Sessions THEN p ELSE ByHand
            BY <2>1, <3>1 DEF CallFits
        <3> QED
            BY <3>1, <3>2, <3>3, <3>4 DEF CallFits, AliasFits, Sure, Has
    <2> QED
        BY <2>2, <2>3, <2>4
<1>6. ASSUME NEW i \in Intents, p \in Sessions, List(p, i) PROVE CallFits(p, call[p])'
    <2>1. PICK rows \in {member[i.channel], [a \in Aliases |-> Nobody]} :
            call'[p] = [step |-> "list", rows |-> rows, intent |-> i]
        BY <1>6 DEF TypeOK, List, Await
    <2>2. i.channel \in Channels /\ UNCHANGED <<member, loose>>
        BY <1>6, IntentShape DEF List, records
    <2>3. RowsFit(i.channel, rows)
        BY <2>1, <2>2 DEF RowsSound, RowsFit, RowFits
    <2> QED
        BY <2>1, <2>2, <2>3 DEF CallFits, RowsFit, RowFits, Sure, Has
<1>7. ASSUME p \in Sessions, Gate(p) PROVE k.step \in {"idle", "send"}
    BY <1>7, GateCall
<1> QED
    BY <1>1, <1>2, <1>3, <1>4, <1>5, <1>6, <1>7, CallChange

LEMMA RowsStep == TypeOK /\ RowsSound /\ [Next]_vars => RowsSound'
BY MemberStep, MirrorStep, OwnStep, CallStep DEF RowsSound

\* A session that polls a channel stands by its card until that is overtaken.
LEMMA ActiveStep == TypeOK /\ RowsSound /\ ActiveStand /\ [Next]_vars => ActiveStand'
<1> SUFFICES ASSUME TypeOK, RowsSound, ActiveStand, [Next]_vars PROVE ActiveStand'
    OBVIOUS
<1> USE Literals
<1>0. /\ NodeOf \in [Procs -> Nodes] /\ Sessions \subseteq Procs /\ call \in [Procs -> Call] /\ Idle.step = "idle"
      /\ member \in [Channels -> Rows] /\ active \in [Sessions -> SUBSET Channels]
      /\ \A s \in Sessions : call[s].step = "row" => call[s].channel \in Channels
    BY Bounds, CallShape DEF TypeOK, Procs, Idle
\* It goes on to stand ...
<1>1. ASSUME NEW s \in Sessions, NEW c \in Channels, Stands(s, c) PROVE Stands(s, c)'
    <2> SUFFICES ASSUME <<s, c>> \notin overtaken'
                 PROVE  \E a \in Aliases : member'[c][a] = [node |-> NodeOf[s], card |-> s]
        BY DEF Stands
    <2> DEFINE mine == [node |-> NodeOf[s], card |-> s]
    <2>0. mine.node = NodeOf[s] /\ mine.card = s /\ mine # Nobody /\ NodeOf[s] \in Nodes
        BY <1>0 DEF Nobody
    <2>1. ASSUME NEW p \in Procs, NEW d \in Channels, NEW b \in Aliases, Join(p, d, b)
          PROVE  \E a \in Aliases : member'[c][a] = mine
        <3>1. PICK a \in Aliases : member[c][a] = mine
            BY <1>1, <2>1 DEF Join, Stands
        <3>2. member'[c][a] = member[c][a]
            <4>1. member'[c][a] = member[c][a] \/ member[c][a] = Nobody
                BY <2>1, JoinMember
            <4> QED
                BY <2>0, <3>1, <4>1
        <3> QED
            BY <3>1, <3>2
    <2>2. ASSUME NEW p \in Procs, Leaves(p)
          PROVE  \E a \in Aliases : member'[c][a] = mine
        <3>1. PICK d \in Channels, b \in Aliases :
                \/ UNCHANGED <<member, overtaken>>
                \/ /\ Vacated(d, b)
                   /\ \A e \in Channels, x \in Aliases : e # d \/ x # b => member'[e][x] = member[e][x]
            BY <2>2, LeaveMember
        <3>2. overtaken \subseteq overtaken'
            BY <3>1 DEF Vacated
        <3>3. PICK a \in Aliases : member[c][a] = mine
            BY <1>1, <3>2 DEF Stands
        <3>4. CASE c = d /\ a = b /\ Vacated(d, b)
            <4>1. s \in Mates(member[d][b].node)
                BY <2>0, <3>3, <3>4 DEF Mates
            <4> QED
                BY <3>4, <4>1 DEF Vacated
        <3> QED
            BY <3>1, <3>3, <3>4
    <2>3. ASSUME NEW p \in Procs, CardAnswered(p)
          PROVE  \E a \in Aliases : member'[c][a] = mine
        <3>1. CASE UNCHANGED <<member, overtaken>>
            BY <1>1, <3>1 DEF Stands
        <3>2. CASE ~UNCHANGED <<member, overtaken>>
            <4>1. PICK d \in Channels, b \in Aliases, x \in Sessions \cup {ByHand} :
                    /\ CardTaken(d, b, x)
                    /\ member'[d][b] = [node |-> member[d][b].node, card |-> x]
                    /\ \A e \in Channels, y \in Aliases : e # d \/ y # b => member'[e][y] = member[e][y]
                BY <2>3, <3>2, CardMember
            <4>2. CASE c = d /\ s = x /\ s \in Mates(member[d][b].node)
                <5>1. NodeOf[s] = member[d][b].node
                    BY <4>2 DEF Mates
                <5> QED
                    BY <4>1, <4>2, <5>1
            <4>3. CASE ~(c = d /\ s = x /\ s \in Mates(member[d][b].node))
                <5>1. <<s, c>> \notin overtaken /\ ~(c = d /\ s \in Mates(member[d][b].node))
                    BY <4>1, <4>3 DEF CardTaken
                <5>2. PICK a \in Aliases : member[c][a] = mine
                    BY <1>1, <5>1 DEF Stands
                <5>3. c # d \/ a # b
                    BY <2>0, <5>1, <5>2 DEF Mates
                <5> QED
                    BY <4>1, <5>2, <5>3
            <4> QED
                BY <4>2, <4>3
        <3> QED
            BY <3>1, <3>2
    <2>4. CASE UNCHANGED <<member, overtaken>>
        BY <1>1, <2>4 DEF Stands
    <2>5. \/ UNCHANGED <<member, overtaken>>
          \/ \E p \in Procs : Leaves(p) \/ CardAnswered(p)
          \/ \E p \in Procs, d \in Channels, b \in Aliases : Join(p, d, b)
        BY DEF Next, vars, records, events, Exit, Joined, Left, CardRefused, Activate, Leave, PublishByHand, PublishCard,
               Gate, Send, List, Announce, Receive, Process
    <2> QED
        BY <2>1, <2>2, <2>3, <2>4, <2>5
\* ... and the channel is activated by one that stands.
<1>2. ASSUME NEW s \in Sessions, NEW c \in active'[s] PROVE c \in Channels /\ Stands(s, c)
    <2>1. CASE c \in active[s]
        BY <1>0, <2>1 DEF ActiveStand
    <2>2. ASSUME NEW p \in Procs, Activate(p), c \notin active[s] PROVE c \in Channels /\ Stands(s, c)
        <3>1. p = s /\ c = call[s].channel /\ call[s].step = "row"
            BY <1>0, <1>2, <2>2 DEF Activate
        <3> QED
            BY <1>0, <3>1 DEF ActiveStand
    <2>3. ASSUME NEW p \in Procs, Exit(p) PROVE c \in active[s]
        BY <1>0, <1>2, <2>3 DEF Exit
    <2>4. active' = active \/ \E p \in Procs : Activate(p) \/ Exit(p)
        BY DEF Next, vars, records, events, Joined, Leaves, Left, CardAnswered, CardRefused, Join, Leave, PublishByHand, PublishCard,
               Expected, Gate, Send, List, Announce, Receive, Process
    <2> QED
        BY <1>2, <2>1, <2>2, <2>3, <2>4
\* Its own card was taken when it is about to.
<1>3. ASSUME NEW s \in Sessions, call'[s].step = "row" PROVE Stands(s, call[s].channel)'
    <2>1. CASE call'[s] = call[s]
        <3>1. PICK c \in Channels : c = call[s].channel
            BY <1>0, <1>3, <2>1
        <3>2. Stands(s, c)'
            BY <1>1, <1>3, <2>1, <3>1 DEF ActiveStand
        <3> QED
            BY <2>1, <3>1, <3>2 DEF Stands
    <2>2. CASE CardAnswered(s)
        <3>1. call'[s] # Idle /\ s \in Procs
            BY <1>0, <1>3
        <3>2. ~(UNCHANGED <<member, overtaken>> /\ call' = [call EXCEPT ![s] = Idle])
            BY <1>0, <3>1
        <3>3. PICK c \in Channels, a, b \in Aliases, d \in Sessions \cup {ByHand} :
                /\ call[s].channel = c /\ call[s].alias = a /\ call[s].card = d
                /\ Updates(NodeOf[s], c, a, b) /\ CardTaken(c, b, d)
                /\ member'[c][b] = [node |-> member[c][b].node, card |-> d]
            BY <2>2, <3>1, <3>2, CardMember
        <3>4. d = s /\ call[s].step = "card" /\ call[s] \in Call
            BY <1>0, <2>2, <3>3 DEF RowsSound, CallFits, CardAnswered
        <3>5. call'[s] = [call[s] EXCEPT !.step = "row"]
            BY <1>0, <2>2, <3>1 DEF CardAnswered, Await
        <3>6. call'[s].channel = c
            BY <3>3, <3>4, <3>5 DEF Call, Idle
        <3>7. CASE s \in Mates(member[c][b].node)
            <4>1. member'[c][b] = [node |-> NodeOf[s], card |-> s]
                BY <3>3, <3>4, <3>7 DEF Mates
            <4> QED
                BY <3>6, <4>1 DEF Stands
        <3>8. CASE s \notin Mates(member[c][b].node)
            <4>1. <<s, c>> \in overtaken'
                BY <3>3, <3>4, <3>8 DEF CardTaken
            <4> QED
                BY <3>6, <4>1 DEF Stands
        <3> QED
            BY <3>7, <3>8
    <2>3. ASSUME NEW c \in Channels, NEW a \in Aliases, Join(s, c, a) PROVE FALSE
        BY <1>0, <1>3, <2>3 DEF Join, Await
    <2>4. ASSUME NEW c \in Channels, PublishByHand(s, c) \/ PublishCard(s, c) PROVE FALSE
        BY <1>0, <1>3, <2>4 DEF PublishByHand, PublishCard, Await
    <2>5. ASSUME NEW i \in Intents, List(s, i) PROVE FALSE
        BY <1>0, <1>3, <2>5 DEF List, Await
    <2>6. ASSUME Gate(s) PROVE FALSE
        BY <1>3, <2>6, GateCall
    <2> QED
        BY <1>0, <1>3, <2>1, <2>2, <2>3, <2>4, <2>5, <2>6, CallChange
<1> QED
    BY <1>1, <1>2, <1>3 DEF ActiveStand

\* What is in hand passed the gate, and names the one row it was tested on.
LEMMA GateSends ==
    ASSUME TypeOK, RowsSound, AllNamed, NEW s \in Sessions, Gate(s), call'[s].step = "send"
    PROVE  Passed(call'[s].event) /\ Named(call'[s].event)
<1> DEFINE i == call[s].intent
           n == NodeOf[s]
           c == i.channel
           rows == Upserted(mirror[n][c], call[s].rows)
           to == Picked(rows, i)
           e == [from |-> own[n][c], sender |-> n, channel |-> c, to |-> Addressee(i, to),
                 selector |-> i.selector, tool |-> i.tool,
                 vouched |-> {rows[a].card : a \in to}, picked |-> {rows[a].node : a \in to}]
<1>1. /\ s \in Procs /\ call[s].step = "list" /\ i \in Intents /\ call[s].rows \in Rows /\ n \in Nodes /\ c \in Channels
    BY Bounds, CallShape, IntentShape DEF TypeOK, Gate, Procs
<1>2. rows \in Rows
    BY <1>1, UpsertedShape DEF TypeOK
<1>3. /\ call'[s].event = e /\ to # {} /\ \A a \in to : Supports(Advertised(rows[a].card), i.selector)
    BY <1>1 DEF Gate, Idle, TypeOK, Await
<1>4. Passed(e)
    BY <1>3 DEF Passed
<1>5. ASSUME i.tool, i.handle # Everyone
      PROVE  to = {Addressee(i, to)} /\ Addressee(i, to) \in Aliases /\ rows[Addressee(i, to)] # Nobody
    <2>1. to \subseteq {a \in Aliases : rows[a] # Nobody} /\ \A a, b \in to : a = b
        BY <1>1, <1>2, <1>5, PickedOne
    <2>2. Addressee(i, to) \in to
        BY <1>1, <1>3, <1>5, <2>1, AddresseeShape
    <2> QED
        BY <2>1, <2>2
<1>6. ASSUME NEW a \in Aliases, rows[a] # Nobody PROVE rows[a].node \in Nodes /\ AliasFits(rows[a].node, c, a)
    <2>1. rows[a].node \in Nodes
        BY <1>2, <1>6, RowShape
    <2>2. rows[a] = mirror[n][c][a] \/ rows[a] = call[s].rows[a]
        BY <1>6 DEF Upserted
    <2>3. RowsFit(c, mirror[n][c]) /\ RowsFit(c, call[s].rows)
        BY <1>1 DEF RowsSound, CallFits
    <2> HIDE DEF rows, c
    <2> QED
        BY <1>6, <2>1, <2>2, <2>3 DEF RowsFit, RowFits, AliasFits
<1>7. Named(e)
    <2>1. e.tool => i.tool /\ i.handle # Everyone
        BY <1>1 DEF AllNamed, Unchecked
    <2> DEFINE a == Addressee(i, to)
    <2>2. /\ e.to = a /\ e.channel = c /\ e.picked = {rows[x].node : x \in to}
        OBVIOUS
    <2> HIDE DEF e, rows, c, to, i, a
    <2>3. ASSUME e.tool PROVE a \in Aliases /\ e.picked = {rows[a].node} /\ rows[a].node \in Nodes /\ AliasFits(rows[a].node, c, a)
        <3>1. to = {a} /\ a \in Aliases /\ rows[a] # Nobody
            BY <1>5, <2>1, <2>3 DEF a
        <3> QED
            BY <1>6, <2>2, <3>1
    <2> QED
        BY <2>2, <2>3 DEF Named
<1> QED
    BY <1>3, <1>4, <1>7

\* The log grows at its end, by the event in hand or by one nobody vouched for.
LEMMA LogGrows ==
    ASSUME TypeOK, [Next]_vars
    PROVE  \/ log' = log
           \/ \E e, f \in Event :
                /\ \/ \E s \in Sessions : call[s].step = "send" /\ f = call[s].event
                   \/ f.vouched = {} /\ f.to = Everyone
                /\ e.vouched = f.vouched /\ e.selector = f.selector /\ e.channel = f.channel
                /\ e.to = f.to /\ e.tool = f.tool /\ e.picked = f.picked
                /\ Len(log') = Len(log) + 1 /\ \A k \in 1 .. Len(log) : log'[k] = log[k]
                /\ log'[Len(log')] = e /\ inbox' = inbox /\ taken' = taken
<1>1. ASSUME NEW s \in Sessions, Send(s), log' # log
      PROVE  \E e, f \in Event :
                /\ call[s].step = "send" /\ f = call[s].event /\ inbox' = inbox /\ taken' = taken
                /\ e.vouched = f.vouched /\ e.selector = f.selector /\ e.channel = f.channel
                /\ e.to = f.to /\ e.tool = f.tool /\ e.picked = f.picked
                /\ Len(log') = Len(log) + 1 /\ \A k \in 1 .. Len(log) : log'[k] = log[k]
                /\ log'[Len(log')] = e
    <2> DEFINE f == call[s].event
               e == [f EXCEPT !.from = own[f.sender][f.channel]]
    <2>1. s \in Procs /\ f \in Event /\ Known(f.sender, f.channel) /\ Sent(e) /\ Len(log) < MaxMessages
        BY <1>1, CallShape DEF TypeOK, Send, Procs
    <2>2. own[f.sender][f.channel] \in Aliases
        BY <2>1 DEF TypeOK, Event, Known
    <2>3. /\ e \in Event /\ e.vouched = f.vouched /\ e.selector = f.selector /\ e.channel = f.channel
          /\ e.to = f.to /\ e.tool = f.tool /\ e.picked = f.picked
        BY <2>1, <2>2 DEF Event
    <2>4. call[s].step = "send" /\ inbox' = inbox /\ taken' = taken
        BY <1>1 DEF Send
    <2> HIDE DEF e
    <2>5. Len(log') = Len(log) + 1 /\ (\A k \in 1 .. Len(log) : log'[k] = log[k]) /\ log'[Len(log')] = e
        BY <2>1, <2>3, SentShape
    <2> QED
        BY <2>1, <2>3, <2>4, <2>5
<1>2. ASSUME NEW s \in Sessions, NEW i \in Intents, Announce(s, i)
      PROVE  \E e \in Event :
                /\ e.vouched = {} /\ e.to = Everyone /\ inbox' = inbox /\ taken' = taken
                /\ Len(log') = Len(log) + 1 /\ \A k \in 1 .. Len(log) : log'[k] = log[k]
                /\ log'[Len(log')] = e
    <2> DEFINE e == [from |-> own[NodeOf[s]][i.channel], sender |-> NodeOf[s], channel |-> i.channel,
                     to |-> Everyone, selector |-> i.selector, tool |-> TRUE, vouched |-> {}, picked |-> {}]
    <2>1. Sent(e) /\ Len(log) < MaxMessages
        BY <1>2 DEF Announce
    <2>2. s \in Procs /\ NodeOf[s] \in Nodes /\ i.channel \in Channels
        BY Bounds, IntentShape DEF Procs
    <2>3. own[NodeOf[s]][i.channel] \in Aliases
        BY <1>2, <2>2 DEF TypeOK, Announce, Known
    <2>4. e \in Event
        BY <2>2, <2>3 DEF Event
    <2>5. e.vouched = {} /\ e.to = Everyone
        OBVIOUS
    <2> HIDE DEF e
    <2> QED
        BY <1>2, <2>1, <2>4, <2>5, SentShape DEF Announce
<1>3. \/ log' = log
      \/ \E s \in Sessions : Send(s)
      \/ \E s \in Sessions, i \in Intents : Announce(s, i)
    BY DEF Next, vars, events, Exit, Joined, Leaves, Left, CardAnswered, CardRefused, Activate, Join, Leave, PublishByHand,
           PublishCard, Gate, List, Receive, Process
<1>4. CASE \E s \in Sessions : Send(s)
    BY <1>1, <1>4
<1>5. CASE \E s \in Sessions, i \in Intents : Announce(s, i)
    <2>1. PICK e \in Event :
                /\ e.vouched = {} /\ e.to = Everyone /\ inbox' = inbox /\ taken' = taken
                /\ Len(log') = Len(log) + 1 /\ \A k \in 1 .. Len(log) : log'[k] = log[k]
                /\ log'[Len(log')] = e
        BY <1>2, <1>5
    <2> QED
        BY <2>1
<1> QED
    BY <1>3, <1>4, <1>5

\* Only the gate puts an event in hand, and only listPeers begins a listing.
LEMMA InHand ==
    ASSUME TypeOK, [Next]_vars, NEW s \in Sessions
    PROVE  /\ call'[s].step = "send" => call'[s] = call[s] \/ Gate(s)
           /\ call'[s].step = "list" => call'[s] = call[s] \/ \E i \in Intents : List(s, i)
<1>0. s \in Procs /\ call \in [Procs -> Call] /\ Idle.step = "idle"
    BY DEF TypeOK, Procs, Idle
<1>1. ASSUME NEW c \in Channels, NEW a \in Aliases, Join(s, c, a) PROVE call'[s].step = "join"
    BY <1>0, <1>1 DEF Join, Await
<1>2. ASSUME NEW c \in Channels, PublishByHand(s, c) \/ PublishCard(s, c) PROVE call'[s].step = "card"
    BY <1>0, <1>2 DEF PublishByHand, PublishCard, Await
<1>3. ASSUME CardAnswered(s) PROVE call'[s].step \in {"idle", "row"}
    <2>1. call[s].step = "card" /\ call[s] \in Call
        BY <1>0, <1>3 DEF CardAnswered
    <2>2. [call[s] EXCEPT !.step = "row"].step = "row"
        BY <2>1 DEF Call, Idle
    <2> QED
        BY <1>0, <1>3, <2>2 DEF CardAnswered, Await
<1>4. ASSUME NEW i \in Intents, List(s, i) PROVE call'[s].step = "list"
    BY <1>0, <1>4 DEF List, Await
<1> QED
    BY <1>0, <1>1, <1>2, <1>3, <1>4, CallChange, GateCall

\* The gate is passed once and for all: what a session advertises does not change.
LEMMA PassedStep ==
    ASSUME TypeOK, RowsSound, AllNamed, AllPassed, [Next]_vars
    PROVE  AllPassed'
<1>1. ASSUME NEW s \in Sessions, call'[s].step = "send" PROVE Passed(call'[s].event)
    BY <1>1, InHand, GateSends DEF AllPassed
<1>2. ASSUME NEW k \in 1 .. Len(log') PROVE Passed(log'[k])
    <2>1. CASE log' = log
        BY <2>1 DEF AllPassed
    <2>2. CASE log' # log
        <3>1. PICK e, f \in Event :
                /\ \/ \E s \in Sessions : call[s].step = "send" /\ f = call[s].event
                   \/ f.vouched = {} /\ f.to = Everyone
                /\ e.vouched = f.vouched /\ e.selector = f.selector
                /\ Len(log') = Len(log) + 1 /\ \A j \in 1 .. Len(log) : log'[j] = log[j]
                /\ log'[Len(log')] = e
            BY <2>2, LogGrows
        <3>2. Passed(f)
            BY <3>1 DEF AllPassed, Passed
        <3>3. Passed(e)
            BY <3>1, <3>2 DEF Passed
        <3>4. Len(log) \in Nat
            BY DEF TypeOK
        <3>5. k = Len(log') \/ k \in 1 .. Len(log)
            BY <3>1, <3>4
        <3> QED
            BY <3>1, <3>3, <3>5 DEF AllPassed
    <2> QED
        BY <2>1, <2>2
<1> QED
    BY <1>1, <1>2 DEF AllPassed, Passed, Advertised, CardOf

\* The alias the tool names stays that of the node it picked.
LEMMA NamedStep ==
    ASSUME TypeOK, RowsSound, AllNamed, [Next]_vars
    PROVE  AllNamed'
<1>1. ASSUME NEW e, e \in Event, Named(e) PROVE Named(e)'
    <2> SUFFICES ASSUME e.tool, e.to # Everyone
                 PROVE  e.to \in Aliases /\ \E m \in Nodes : e.picked = {m} /\ AliasFits(m, e.channel, e.to)'
        BY DEF Named
    <2>1. PICK m \in Nodes : e.to \in Aliases /\ e.picked = {m} /\ AliasFits(m, e.channel, e.to)
        BY <1>1 DEF Named
    <2>2. e.channel \in Channels
        BY <1>1 DEF Event
    <2>3. Sure(e.channel, e.to)' => Has(m, e.channel, e.to)'
        BY <2>1, <2>2, FitsStay
    <2> QED
        BY <2>1, <2>3 DEF AliasFits
<1>2. ASSUME NEW s \in Sessions, call'[s].step = "send" PROVE Named(call[s].event)'
    <2>1. Named(call'[s].event) /\ call'[s].event \in Event
        <3>1. call'[s] \in Call
            BY TypeStep DEF TypeOK, Procs
        <3> QED
            BY <1>2, <3>1, CallShape, InHand, GateSends DEF AllNamed
    <2>2. PICK e \in Event : e = call'[s].event
        BY <2>1
    <2>3. Named(e)'
        BY <1>1, <2>1, <2>2
    <2> QED
        BY <2>2, <2>3 DEF Named, AliasFits, Sure, Has
<1>3. ASSUME NEW s \in Sessions, call'[s].step = "list" PROVE ~Unchecked(call'[s].intent)
    <2>1. ASSUME NEW i \in Intents, List(s, i) PROVE ~Unchecked(call'[s].intent)
        BY <2>1 DEF TypeOK, List, Await, Procs
    <2> QED
        BY <1>3, <2>1, InHand DEF AllNamed
<1>4. ASSUME NEW k \in 1 .. Len(log') PROVE Named(log[k])'
    <2>1. Len(log) \in Nat /\ log \in Seq(Event)
        BY DEF TypeOK
    <2>2. Named(log'[k]) /\ log'[k] \in Event
        <3>1. CASE log' = log
            BY <2>1, <3>1 DEF AllNamed
        <3>2. CASE log' # log
            <4>1. PICK e, f \in Event :
                    /\ \/ \E s \in Sessions : call[s].step = "send" /\ f = call[s].event
                       \/ f.vouched = {} /\ f.to = Everyone
                    /\ e.channel = f.channel /\ e.to = f.to /\ e.tool = f.tool /\ e.picked = f.picked
                    /\ Len(log') = Len(log) + 1 /\ \A j \in 1 .. Len(log) : log'[j] = log[j]
                    /\ log'[Len(log')] = e
                BY <3>2, LogGrows
            <4>2. Named(f)
                BY <4>1 DEF AllNamed, Named
            <4>3. Named(e)
                BY <4>1, <4>2 DEF Named
            <4>4. k = Len(log') \/ k \in 1 .. Len(log)
                BY <2>1, <4>1
            <4> QED
                BY <2>1, <4>1, <4>3, <4>4 DEF AllNamed
        <3> QED
            BY <3>1, <3>2
    <2>3. PICK e \in Event : e = log'[k]
        BY <2>2
    <2>4. Named(e)'
        BY <1>1, <2>2, <2>3
    <2> QED
        BY <2>3, <2>4 DEF Named, AliasFits, Sure, Has
<1> QED
    BY <1>2, <1>3, <1>4 DEF AllNamed, Unchecked

\* Whoever takes an event in goes by the alias it names.
LEMMA ReachedStep ==
    ASSUME TypeOK, RowsSound, Reached, [Next]_vars
    PROVE  Reached'
<1> SUFFICES ASSUME NEW n \in Nodes, NEW k \in inbox'[n], log'[k].tool, log'[k].to # Everyone
             PROVE  AliasFits(n, log[k].channel, log[k].to)'
    BY DEF Reached
<1> USE Literals
<1>0. log \in Seq(Event) /\ Len(log) \in Nat /\ inbox \in [Nodes -> SUBSET (1 .. Len(log))]
    BY DEF TypeOK
<1>1. ASSUME NEW e \in Event, log'[k] = e, e.to \in Aliases, AliasFits(n, e.channel, e.to)
      PROVE  AliasFits(n, log[k].channel, log[k].to)'
    <2>1. PICK c \in Channels, a \in Aliases : c = e.channel /\ a = e.to
        BY <1>1 DEF Event
    <2>2. Sure(c, a)' => Has(n, c, a)'
        BY <1>1, <2>1, FitsStay
    <2> QED
        BY <1>1, <2>1, <2>2 DEF AliasFits, Sure, Has
<1>2. CASE k \in inbox[n]
    <2>1. log'[k] = log[k] /\ log[k] \in Event
        BY <1>0, <1>2, LogGrows
    <2>2. AliasFits(n, log[k].channel, log[k].to)
        BY <1>2, <2>1 DEF Reached
    <2>3. CASE log[k].to \in Aliases
        BY <1>1, <2>1, <2>2, <2>3
    <2>4. CASE log[k].to \notin Aliases
        <3>1. <<log[k].channel, log[k].to>> \in loose
            BY <2>2, <2>4 DEF AliasFits, Sure, Has
        <3> QED
            BY <2>4, <3>1 DEF TypeOK
    <2> QED
        BY <2>3, <2>4
<1>3. ASSUME NEW m \in Nodes, NEW j \in 1 .. Len(log), Receive(m, j), k \notin inbox[n]
      PROVE  AliasFits(n, log[k].channel, log[k].to)'
    <2>1. n = m /\ k = j /\ log' = log /\ log[k] \in Event
        BY <1>0, <1>3 DEF Receive
    <2>2. own[n][log[k].channel] = log[k].to /\ log[k].channel \in Channels /\ log[k].to # NoAlias
        BY <1>3, <2>1 DEF Receive, Known, Event
    <2>3. log[k].to \in Aliases /\ AliasFits(n, log[k].channel, log[k].to)
        BY <2>2 DEF TypeOK, RowsSound
    <2> QED
        BY <1>1, <2>1, <2>3
<1>4. inbox' = inbox \/ \E m \in Nodes, j \in 1 .. Len(log) : Receive(m, j)
    BY DEF Next, vars, events, Exit, Joined, Leaves, Left, CardAnswered, CardRefused, Activate, Join, Leave, PublishByHand,
           PublishCard, Gate, Send, List, Announce, Process
<1> QED
    BY <1>2, <1>3, <1>4

LEMMA RegistryShape ==
    ASSUME NEW s \in Sessions, NEW r \in Registry[s]
    PROVE  r.supports \in SUBSET Support /\ r.consumer \notin {Unsupported, Ignored}
<1>1. Registry[s] \subseteq Registration(Channels)
    BY InteropAssumption
<1>2. r \in Registration(Channels)
    BY <1>1
<1>3. r.supports \in SUBSET Support /\ r.consumer \in Consumers
    BY <1>2 DEF Registration
<1> QED
    BY <1>3, InteropAssumption DEF Unsupported, Ignored

\* An event that passed the gate on a session's card is one that some consumer of the session
\* offers to take; when none does, each that offers it is bound elsewhere or mistaken in the build.
LEMMA TakersFound ==
    ASSUME NEW s \in Sessions, NEW selector \in Selector, NEW c \in Channels,
           Supports(Advertised(s), selector), Resolved(Registry[s], selector, c) = {}
    PROVE  LET offering == {r \in Registry[s] : Offers(r, selector)} IN
           offering # {} /\ \A r \in offering : ~BoundTo(r, c) \/ Mistaken(r, selector)
<1>1. /\ Advertised(s) = SupportedExtensions(Registry[s])
      /\ \A r \in Registry[s] : r.supports \in SUBSET Support
    BY RegistryShape, Literals DEF Advertised, CardOf
<1>2. SupportedExtensions(Registry[s]) \in SUBSET Support
    BY <1>1 DEF SupportedExtensions
<1>3. PICK x \in SupportedExtensions(Registry[s]) : Meets(x, selector)
    BY <1>1, <1>2, GateMeaning
<1>4. \E r \in Registry[s] : Offers(r, selector)
    BY <1>3 DEF SupportedExtensions, Offers, Meets
<1>5. Takers(Registry[s], selector, c) = {}
    BY DEF Resolved
<1>6. ASSUME NEW r \in Registry[s], Offers(r, selector), BoundTo(r, c) PROVE Mistaken(r, selector)
    <2>1. PICK y \in r.supports :
            y.uri = selector.uri /\ AtMost(y.floor, selector.version) /\ AtMost(selector.version, y.version)
        BY <1>6 DEF Offers
    <2>2. WellFormed(y) /\ y \in Support
        BY <1>1, InteropAssumption DEF SupportedExtensions
    <2>3. Meets(y, selector)
        BY <2>1, <2>2 DEF Meets, WellFormed, AtMost, Support, Selector, Version
    <2>4. ~Agreed(r.supports, {Exactly(selector)}, selector.version)
        BY <1>5, <1>6 DEF Takers
    <2> QED
        BY <1>1, <2>3, <2>4, RegistryTakes DEF Mistaken
<1> QED
    BY <1>4, <1>6

LEMMA TakenStep ==
    ASSUME TypeOK, AllPassed, VouchedIsTaken, [Next]_vars
    PROVE  VouchedIsTaken'
<1> DEFINE Fair(t, e) ==
        t.by \in e.vouched /\ t.consumer = Unsupported =>
            LET offering == {r \in Registry[t.by] : Offers(r, e.selector)} IN
            /\ offering # {}
            /\ \A r \in offering : ~BoundTo(r, e.channel) \/ Mistaken(r, e.selector)
<1>1. ASSUME NEW s \in Sessions, NEW k \in 1 .. Len(log), Process(s, k) PROVE VouchedIsTaken'
    <2>1. log[k] \in Event /\ log' = log
        BY <1>1 DEF TypeOK, Process
    <2>2. log[k].selector \in Selector /\ log[k].channel \in Channels
        BY <2>1, InteropAssumption DEF Event
    <2>3. ASSUME NEW t \in taken', t \notin taken PROVE t.event = k /\ Fair(t, log[k])
        <3> DEFINE takers == Resolved(Registry[s], log[k].selector, log[k].channel)
        <3>1. CASE takers = {} /\ t = [event |-> k, by |-> s, consumer |-> Unsupported]
            <4>1. s \in log[k].vouched => Supports(Advertised(s), log[k].selector)
                BY DEF AllPassed, Passed
            <4> QED
                BY <2>2, <3>1, <4>1, TakersFound
        <3>2. CASE t = [event |-> k, by |-> s, consumer |-> Ignored]
            BY <3>2 DEF Ignored, Unsupported
        <3>3. ASSUME NEW r \in takers, t = [event |-> k, by |-> s, consumer |-> r.consumer]
              PROVE  t.event = k /\ t.consumer # Unsupported
            BY <3>3, RegistryShape DEF Resolved, Takers
        <3>4. \/ takers = {} /\ t = [event |-> k, by |-> s, consumer |-> Unsupported]
              \/ t = [event |-> k, by |-> s, consumer |-> Ignored]
              \/ \E r \in takers : t = [event |-> k, by |-> s, consumer |-> r.consumer]
            BY <1>1, <2>3 DEF Process
        <3> HIDE DEF takers
        <3> QED
            BY <3>1, <3>2, <3>3, <3>4
    <2>4. \A t \in taken : Fair(t, log[t.event])
        BY DEF VouchedIsTaken
    <2> HIDE DEF Fair
    <2>5. \A t \in taken' : Fair(t, log'[t.event])
        BY <2>1, <2>3, <2>4
    <2> QED
        BY <2>5 DEF VouchedIsTaken, Fair
<1>2. CASE taken' = taken
    <2>1. \A t \in taken : log'[t.event] = log[t.event]
        BY LogGrows DEF TypeOK
    <2> QED
        BY <1>2, <2>1 DEF VouchedIsTaken
<1>3. taken' = taken \/ \E s \in Sessions, k \in 1 .. Len(log) : Process(s, k)
    BY DEF Next, vars, events, Exit, Joined, Leaves, Left, CardAnswered, CardRefused, Activate, Join, Leave, PublishByHand,
           PublishCard, Gate, Send, List, Announce, Receive
<1> QED
    BY <1>1, <1>2, <1>3

-----------------------------------------------------------------------------
LEMMA Invariance == Spec => []Inv
<1>1. Inv /\ [Next]_vars => Inv'
    BY TypeStep, RowsStep, ActiveStep, PassedStep, NamedStep, ReachedStep, TakenStep DEF Inv
<1> QED
    BY InitInv, <1>1, PTL DEF Spec

\* Every variable keeps its type, whoever joins, leaves and publishes, and in what order.
THEOREM TypeCorrect == Spec => []TypeOK
BY Invariance, PTL DEF Inv

\* For any registries, versions and sessions: an event let through on the card of
\* a session is taken by one of its consumers, bar the two cases the gate overlooks.
THEOREM VouchedTaken == Spec => []VouchedIsTaken
BY Invariance, PTL DEF Inv

\* A session that polls a channel has its card at the home unless the row is not what it
\* published, and under an alias nobody gave up a mirror shows a card under its own node only.
THEOREM CardsStanding == Spec => []CardsStand
<1>1. ASSUME Inv, NEW n \in Nodes, NEW c \in Channels, NEW a \in Aliases, <<c, a>> \notin loose,
             mirror[n][c][a].card \in Sessions
      PROVE  NodeOf[mirror[n][c][a].card] = mirror[n][c][a].node
    <2>1. mirror[n][c][a] # Nobody
        BY <1>1, Literals DEF Nobody
    <2> QED
        BY <1>1, <2>1 DEF Inv, RowsSound, RowsFit, RowFits, Sure
<1>2. Inv => CardsStand
    BY <1>1 DEF Inv, ActiveStand, Stands, CardsStand
<1> QED
    BY Invariance, <1>2, PTL

\* What the publish tool sends reaches the node whose row was read and nobody else, as long
\* as nobody gives up the alias it names.
THEOREM CheckedAddressed == Spec => []CheckedIsAddressed
<1>1. ASSUME Inv, NEW k \in 1 .. Len(log), log[k].tool, log[k].to # Everyone, <<log[k].channel, log[k].to>> \notin loose
      PROVE  /\ \A n \in log[k].picked : Has(n, log[k].channel, log[k].to)
             /\ \A n \in Nodes : k \in inbox[n] => n \in log[k].picked
    <2>1. PICK m \in Nodes : log[k].picked = {m} /\ Has(m, log[k].channel, log[k].to)
        BY <1>1 DEF Inv, AllNamed, Named, AliasFits, Sure
    <2>2. \A n \in Nodes : k \in inbox[n] => Has(n, log[k].channel, log[k].to)
        BY <1>1 DEF Inv, Reached, AliasFits, Sure
    <2> QED
        BY <2>1, <2>2 DEF Has
<1>2. Inv => CheckedIsAddressed
    BY <1>1 DEF CheckedIsAddressed
<1> QED
    BY Invariance, <1>2, PTL
=============================================================================
