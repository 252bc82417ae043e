------------------------------ MODULE Interop ------------------------------
(***************************************************************************)
(* Which application events a peer can be sent: the AgentCards of a        *)
(* channel.  A session activates a channel by publishing a card that       *)
(* advertises its consumers (publishRuntimeCard, activateChannel in        *)
(* agent-comm/src/mcp/channel.ts); every other node mirrors the cards when *)
(* it lists the members (listPeers in engine.ts), and the publish tool and *)
(* the publish effects of applications test the mirrored card before they  *)
(* send.  An event no consumer resolves is acknowledged and forgotten.     *)
(*                                                                         *)
(* A profile is opened by several processes: sessions, and servers of the  *)
(* tools (mcp/server.ts) that also leave a channel and publish cards made  *)
(* by hand.  Where an operation awaits the home the other processes go on. *)
(* A card is written as the session that published it, whose registry is   *)
(* filled before it starts and does not change.                            *)
(*                                                                         *)
(* A hub file drops the row of a member that leaves and finds a row by its *)
(* alias; a relay keeps it and finds it by the node.                       *)
(***************************************************************************)
EXTENDS Extensions

CONSTANTS
    Nodes,
    Sessions,    \* MCP sessions and daemons, each started once
    Servers,     \* MCP servers of the tools
    NodeOf,      \* the profile of a process
    Registry,    \* Registry[s]: the consumers registered in session s
    HandCard,    \* what the cards made by hand say
    Channels,
    Aliases,
    Founder,     \* Founder[c][a]: who has that alias to begin with
    Intents,     \* what is published: by whom, by the tool or by an effect, to whom, and what
    IdOf,        \* node ids
    NameOf,      \* the name a node's runtime cards bear: its profile
    Rank,        \* the order of the aliases
    MaxMessages, \* bound: events published
    MaxOps,      \* bound: joins, leaves and cards made by hand that are begun
    MaxFaults    \* bound: calls of a relay that fail or whose answer is lost

Procs == Sessions \cup Servers
NoNode == "nobody"
NoAlias == "no alias"
NoCard == "no card"
ByHand == "by hand"
Everyone == "*"
Unsupported == "unsupported"
Ignored == "ignored"

ASSUME InteropAssumption ==
    /\ NodeOf \in [Procs -> Nodes] /\ Registry \in [Sessions -> SUBSET Registration(Channels)]
    /\ Founder \in [Channels -> [Aliases -> Nodes \cup {NoNode}]]
    /\ \A c \in Channels : \A a, b \in Aliases : Founder[c][a] = Founder[c][b] /\ Founder[c][a] # NoNode => a = b
    /\ Rank \in [Aliases -> Nat] /\ \A a, b \in Aliases : Rank[a] = Rank[b] => a = b
    /\ HandCard.extensions \subseteq Support
    /\ \A i \in Intents : i.node \in Nodes /\ i.channel \in Channels /\ i.selector \in Selector /\ i.tool \in BOOLEAN
    /\ MaxMessages \in Nat /\ MaxOps \in Nat /\ MaxFaults \in Nat
    /\ \A s \in Sessions : \A e \in SupportedExtensions(Registry[s]) : WellFormed(e)
    /\ {NoCard, ByHand} \cap Sessions = {} /\ Sessions \cap Servers = {}
    /\ NoNode \notin Nodes /\ {NoAlias, Everyone} \cap Aliases = {}
    /\ {Unsupported, Ignored} \cap Consumers = {}

\* createAgentCommAgentCard: what of a card is read again, by name and by URI.
CardOf(d) == IF d = ByHand THEN HandCard
             ELSE [name |-> NameOf[NodeOf[d]], extensions |-> SupportedExtensions(Registry[d])]

VARIABLES
    hub,       \* the channels at a hub file, the others are at a relay
    up,        \* processes that have not ended (one that has done nothing may as well not have begun)
    active,    \* activeChannels of each session
    member,    \* at the home: who has an alias, and the card there
    own,       \* store.channels: the alias each node has in a channel it knows to be in
    mirror,    \* store.peers: the rows each node has on record
    call,      \* what each process is waiting for
    log,       \* the events published
    inbox,     \* store.inbox of each node
    taken,     \* what became of the events: who processed them, with which consumer
    begun,     \* joins, leaves and cards made by hand
    faults,    \* calls of the home that failed
    overtaken, \* history: <<s, c>> when a row is not what s published: see CardTaken, Vacated
    loose      \* history: <<c, a>> when a was given up, or recorded by a node that has another alias

records == <<member, own, mirror>>
events == <<log, inbox, taken>>
vars == <<hub, up, active, records, call, events, begun, faults, overtaken, loose>>

Idle == [step |-> "idle"]
Cards == Sessions \cup {NoCard, ByHand}
Row == [node : Nodes, card : Cards]
Nobody == [node |-> NoNode, card |-> NoCard]
Rows == [Aliases -> Row \cup {Nobody}]
Event == [from : Aliases, sender : Nodes, channel : Channels, to : {i.handle : i \in Intents} \cup Aliases \cup {Everyone},
          selector : {i.selector : i \in Intents}, vouched : SUBSET Cards, picked : SUBSET Nodes, tool : BOOLEAN]
Call == {Idle} \cup [step : {"join"}, channel : Channels, alias : Aliases, rows : Rows]
            \cup [step : {"leave", "forget"}, channel : Channels, alias : Aliases]
            \cup [step : {"card", "row"}, channel : Channels, alias : Aliases, card : Sessions \cup {ByHand}]
            \cup [step : {"list"}, rows : Rows, intent : Intents] \cup [step : {"send"}, event : Event]

TypeOK ==
    /\ hub \subseteq Channels /\ up \subseteq Procs /\ active \in [Sessions -> SUBSET Channels]
    /\ member \in [Channels -> Rows] /\ own \in [Nodes -> [Channels -> Aliases \cup {NoAlias}]]
    /\ mirror \in [Nodes -> [Channels -> Rows]]
    /\ call \in [Procs -> Call]
    /\ log \in Seq(Event) /\ Len(log) <= MaxMessages
    /\ inbox \in [Nodes -> SUBSET (1 .. Len(log))]
    /\ \A t \in taken : t.event \in 1 .. Len(log) /\ t.by \in Sessions
    /\ begun \in 0 .. MaxOps /\ faults \in 0 .. MaxFaults
    /\ overtaken \subseteq Sessions \X Channels /\ loose \subseteq Channels \X Aliases

Has(n, c, a) == a \in Aliases /\ member[c][a].node = n
IsMember(n, c) == \E a \in Aliases : Has(n, c, a)

\* A founder has its own row on record (createChannel, connect).
Init ==
    /\ hub \in SUBSET Channels
    /\ up = Procs /\ active = [s \in Sessions |-> {}]
    /\ member = [c \in Channels |-> [a \in Aliases |-> [node |-> Founder[c][a], card |-> NoCard]]]
    /\ own \in [Nodes -> [Channels -> Aliases \cup {NoAlias}]]
    /\ \A n \in Nodes, c \in Channels :
        IF IsMember(n, c) THEN Has(n, c, own[n][c]) ELSE own[n][c] = NoAlias
    /\ mirror = [n \in Nodes |-> [c \in Channels |-> [a \in Aliases |-> IF Has(n, c, a) THEN member[c][a] ELSE Nobody]]]
    /\ call = [p \in Procs |-> Idle]
    /\ log = << >> /\ inbox = [n \in Nodes |-> {}] /\ taken = {}
    /\ begun = 0 /\ faults = 0 /\ overtaken = {} /\ loose = {}

-----------------------------------------------------------------------------
\* The process ends, killed or not, whatever it was waiting for.
Exit(p) ==
    /\ p \in up /\ up' = up \ {p}
    /\ active' = IF p \in Sessions THEN [active EXCEPT ![p] = {}] ELSE active
    /\ call' = [call EXCEPT ![p] = Idle]
    /\ UNCHANGED <<hub, records, events, begun, faults, overtaken, loose>>

Free(p) == p \in up /\ call[p] = Idle
Await(p, k) == call' = [call EXCEPT ![p] = k]
Begun == begun < MaxOps /\ begun' = begun + 1
Fault(c) == c \notin hub /\ faults < MaxFaults /\ faults' = faults + 1

\* requireChannel.
Known(n, c) == own[n][c] # NoAlias

\* A home keeps one row for a node.  A hub file answers a member whatever alias it asks for.
Stays(n, c, a) == IF c \in hub THEN IsMember(n, c) ELSE Has(n, c, a)
Enters(n, c, a) == ~IsMember(n, c) /\ member[c][a] = Nobody

\* connect and joinChannel: the home answers with the members.
Join(p, c, a) ==
    /\ Free(p) /\ Begun
    /\ \/ /\ Stays(NodeOf[p], c, a)
          /\ loose' = IF Has(NodeOf[p], c, a) THEN loose ELSE loose \cup {<<c, a>>}
          /\ UNCHANGED member
       \/ /\ Enters(NodeOf[p], c, a)
          /\ member' = [member EXCEPT ![c][a] = [node |-> NodeOf[p], card |-> NoCard]]
          /\ UNCHANGED loose
    /\ Await(p, [step |-> "join", channel |-> c, alias |-> a, rows |-> member'[c]])
    /\ UNCHANGED <<hub, up, active, own, mirror, events, faults, overtaken>>

\* Every row that was given is upserted and none deleted.
Upserted(old, rows) == [a \in Aliases |-> IF rows[a] = Nobody THEN old[a] ELSE rows[a]]

Joined(p) ==
    LET n == NodeOf[p]  k == call[p] IN
    /\ k.step = "join"
    /\ own' = [own EXCEPT ![n][k.channel] = k.alias]
    /\ mirror' = [mirror EXCEPT ![n][k.channel] = Upserted(@, k.rows)]
    /\ Await(p, Idle)
    /\ UNCHANGED <<hub, up, active, member, events, begun, faults, overtaken, loose>>

\* leaveChannel: the own row is read, the home drops the row of its alias, the own row is dropped.
Leave(p, c) ==
    /\ p \in Servers /\ Free(p) /\ Begun /\ Known(NodeOf[p], c)
    /\ Await(p, [step |-> "leave", channel |-> c, alias |-> own[NodeOf[p]][c]])
    /\ UNCHANGED <<hub, up, active, records, events, faults, overtaken, loose>>

Mates(n) == {s \in Sessions : NodeOf[s] = n}

\* Whoever had the alias has no card there.
Vacated(c, a) ==
    /\ member' = [member EXCEPT ![c][a] = Nobody]
    /\ overtaken' = overtaken \cup (Mates(member[c][a].node) \X {c})
    /\ loose' = loose \cup {<<c, a>>}

Leaves(p) ==
    LET k == call[p] IN
    /\ k.step = "leave"
    /\ IF k.channel \in hub THEN Vacated(k.channel, k.alias) ELSE UNCHANGED <<member, overtaken, loose>>
    /\ Await(p, [k EXCEPT !.step = "forget"])
    /\ UNCHANGED <<hub, up, active, own, mirror, events, begun, faults>>

Left(p) ==
    /\ call[p].step = "forget"
    /\ own' = [own EXCEPT ![NodeOf[p]][call[p].channel] = NoAlias]
    /\ Await(p, Idle)
    /\ UNCHANGED <<hub, up, active, member, mirror, events, begun, faults, overtaken, loose>>

-----------------------------------------------------------------------------
\* What a session counts on before its card is published.
\* Mutant of Expected: the channel is active at once.
ExpectedAtOnce(s, c) == active' = [active EXCEPT ![s] = @ \cup {c}]
Expected(s, c) == active' = active

\* publishCard: the own row is read.
PublishCard(s, c) ==
    /\ Free(s) /\ Known(NodeOf[s], c)
    /\ Expected(s, c)
    /\ Await(s, [step |-> "card", channel |-> c, alias |-> own[NodeOf[s]][c], card |-> s])
    /\ UNCHANGED <<hub, up, records, events, begun, faults, overtaken, loose>>

\* The tool publish_card takes any card; of several channels one after the other.
PublishByHand(p, c) ==
    /\ p \in Servers /\ Free(p) /\ Begun /\ Known(NodeOf[p], c)
    /\ Await(p, [step |-> "card", channel |-> c, alias |-> own[NodeOf[p]][c], card |-> ByHand])
    /\ UNCHANGED <<hub, up, active, records, events, faults, overtaken, loose>>

\* updateCard at the home: the row of the alias, or of the node.
Updates(n, c, a, b) == IF c \in hub THEN b = a /\ member[c][b] # Nobody ELSE Has(n, c, b)

\* The row has another card now: of its node's sessions only the one that published it is shown.
CardTaken(c, a, d) ==
    LET n == member[c][a].node
        shown == {s \in Mates(n) : s = d}
    IN  /\ member' = [member EXCEPT ![c][a].card = d]
        /\ overtaken' = (overtaken \cup ((Mates(n) \cup ({d} \cap Sessions)) \X {c})) \ (shown \X {c})

\* The answer may be lost, and a home that has no such row answers NOT_MEMBER.
CardAnswered(p) ==
    LET k == call[p]  c == k.channel IN
    /\ k.step = "card"
    /\ \/ \E b \in Aliases :
            /\ Updates(NodeOf[p], c, k.alias, b)
            /\ CardTaken(c, b, k.card)
            /\ \/ Await(p, [k EXCEPT !.step = "row"]) /\ UNCHANGED faults
               \/ Await(p, Idle) /\ Fault(c)
       \/ /\ \A b \in Aliases : ~Updates(NodeOf[p], c, k.alias, b)
          /\ Await(p, Idle) /\ UNCHANGED <<member, overtaken, faults>>
    /\ UNCHANGED <<hub, up, active, own, mirror, events, begun, loose>>

\* HOME_UNREACHABLE: publishRuntimeCard throws, the channel stays as it was.
CardRefused(p) ==
    /\ call[p].step = "card" /\ Fault(call[p].channel)
    /\ Await(p, Idle)
    /\ UNCHANGED <<hub, up, active, records, events, begun, overtaken, loose>>

\* The rest of publishCard, and of activateChannel: the own row, then activeChannels.add.
Activate(p) ==
    LET n == NodeOf[p]  k == call[p] IN
    /\ k.step = "row"
    /\ mirror' = [mirror EXCEPT ![n][k.channel][k.alias] = [node |-> n, card |-> k.card]]
    /\ active' = IF p \in Sessions THEN [active EXCEPT ![p] = @ \cup {k.channel}] ELSE active
    /\ Await(p, Idle)
    /\ UNCHANGED <<hub, up, member, own, events, begun, faults, overtaken, loose>>

-----------------------------------------------------------------------------
\* What is known of a card's consumers: readApplicationExtensionAdvertisements.
Advertised(d) == IF d = NoCard THEN {} ELSE CardOf(d).extensions

\* The publish tool, on an active channel, and executePendingEffects for an event
\* of the channel a session of the node has processed.
Handled(t) == t.consumer \notin {Unsupported, Ignored}
MayPublish(s, i) ==
    /\ i.node = NodeOf[s]
    /\ IF i.tool
       THEN i.channel \in active[s]
       ELSE \E t \in taken : NodeOf[t.by] = NodeOf[s] /\ Handled(t) /\ log[t.event].channel = i.channel

\* Only the tool sends to everyone without a look at the cards.
Unchecked(i) == i.tool /\ i.handle = Everyone

\* listPeers before the gate: the rows the home answered with, or none when it is unreachable.
List(s, i) ==
    LET c == i.channel IN
    /\ Free(s) /\ Known(NodeOf[s], c)
    /\ MayPublish(s, i) /\ ~Unchecked(i) /\ Len(log) < MaxMessages
    /\ \/ Await(s, [step |-> "list", rows |-> member[c], intent |-> i]) /\ UNCHANGED faults
       \/ Await(s, [step |-> "list", rows |-> [a \in Aliases |-> Nobody], intent |-> i]) /\ Fault(c)
    /\ UNCHANGED <<hub, up, active, records, events, begun, overtaken, loose>>

\* resolveRecipient: the first row, by alias, that bears the handle as its alias, node
\* id or card name.
Bears(a, r, h) ==
    /\ r # Nobody
    /\ h \in {a, IdOf[r.node]} \/ (r.card # NoCard /\ h = CardOf(r.card).name)
First(as) == {a \in as : \A b \in as : Rank[a] <= Rank[b]}

\* An effect to everyone is tested against every row of the mirror.
Picked(rows, i) ==
    IF i.handle = Everyone THEN {a \in Aliases : rows[a] # Nobody}
    ELSE First({a \in Aliases : Bears(a, rows[a], i.handle)})

\* Whom the event names: the tool takes the alias of the row, an effect its own words.
\* Mutant of Addressee: the tool too sends to what it was asked for.
AddresseeAsked(i, to) == i.handle
Addressee(i, to) == IF i.tool THEN CHOOSE a \in to : TRUE ELSE i.handle

\* The gate: the rows are stored, then requireChannel again, and requireApplicationSupport
\* reads the stored cards.
Gate(s) ==
    LET i    == call[s].intent
        n    == NodeOf[s]
        c    == i.channel
        rows == Upserted(mirror[n][c], call[s].rows)
        to   == Picked(rows, i)
        pass == Known(n, c) /\ to # {} /\ \A a \in to : Supports(Advertised(rows[a].card), i.selector)
    IN  /\ call[s].step = "list"
        /\ mirror' = [mirror EXCEPT ![n][c] = rows]
        /\ Await(s, IF pass
                    THEN [step |-> "send",
                          event |-> [from |-> own[n][c], sender |-> n, channel |-> c, to |-> Addressee(i, to),
                                     selector |-> i.selector, tool |-> i.tool,
                                     vouched |-> {rows[a].card : a \in to}, picked |-> {rows[a].node : a \in to}]]
                    ELSE Idle)
        /\ UNCHANGED <<hub, up, active, member, own, events, begun, faults, overtaken, loose>>

\* engine.send, under the alias the sender has by then.
Sent(e) == log' = log \o <<e>>

Send(s) ==
    LET e == call[s].event IN
    /\ call[s].step = "send" /\ Len(log) < MaxMessages
    /\ IF Known(e.sender, e.channel) THEN Sent([e EXCEPT !.from = own[e.sender][e.channel]]) ELSE UNCHANGED log
    /\ Await(s, Idle)
    /\ UNCHANGED <<hub, up, active, records, inbox, taken, begun, faults, overtaken, loose>>

\* The publish tool to '*': sent with no card read.
Announce(s, i) ==
    LET n == NodeOf[s]  c == i.channel IN
    /\ Free(s) /\ Known(n, c)
    /\ MayPublish(s, i) /\ Unchecked(i) /\ Len(log) < MaxMessages
    /\ Sent([from |-> own[n][c], sender |-> n, channel |-> c, to |-> Everyone, selector |-> i.selector,
             tool |-> TRUE, vouched |-> {}, picked |-> {}])
    /\ UNCHANGED <<hub, up, active, records, call, inbox, taken, begun, faults, overtaken, loose>>

-----------------------------------------------------------------------------
\* syncOnce: a node keeps what is addressed to the alias it goes by and is not its own.  The
\* cursor, and what is held or lost, are the business of LocalDelivery and RelayHome.
Receive(n, k) ==
    LET e == log[k] IN
    /\ k \notin inbox[n] /\ Known(n, e.channel) /\ \E p \in up : NodeOf[p] = n
    /\ e.sender # n /\ e.from # own[n][e.channel] /\ e.to \in {own[n][e.channel], Everyone}
    /\ inbox' = [inbox EXCEPT ![n] = @ \cup {k}]
    /\ UNCHANGED <<hub, up, active, records, call, log, taken, begun, faults, overtaken, loose>>

\* ApplicationRuntime.process in a session that polls the channel, once per profile; a round
\* that has begun goes on after a leave.  The state of a conversation ends with one of its
\* events: later ones are acknowledged and no consumer sees them.
Ended(n, e) ==
    \E t \in taken : /\ NodeOf[t.by] = n /\ Handled(t)
                     /\ log[t.event].channel = e.channel /\ log[t.event].selector.uri = e.selector.uri

Process(s, k) ==
    LET e == log[k]
        n == NodeOf[s]
        takers == Resolved(Registry[s], e.selector, e.channel)
        With(consumer) == taken' = taken \cup {[event |-> k, by |-> s, consumer |-> consumer]}
    IN  /\ s \in up /\ e.channel \in active[s] /\ k \in inbox[n]
        /\ \A t \in taken : t.event = k => NodeOf[t.by] # n
        /\ \/ takers = {} /\ With(Unsupported)
           \/ takers # {} /\ Ended(n, e) /\ With(Ignored)
           \/ \E r \in takers : With(r.consumer)
        /\ UNCHANGED <<hub, up, active, records, call, log, inbox, begun, faults, overtaken, loose>>

Next ==
    \/ \E p \in Procs : Exit(p) \/ Joined(p) \/ Leaves(p) \/ Left(p) \/ CardAnswered(p) \/ CardRefused(p) \/ Activate(p)
    \/ \E p \in Procs, c \in Channels, a \in Aliases : Join(p, c, a)
    \/ \E p \in Procs, c \in Channels : Leave(p, c) \/ PublishByHand(p, c)
    \/ \E s \in Sessions, c \in Channels : PublishCard(s, c)
    \/ \E s \in Sessions : Gate(s) \/ Send(s)
    \/ \E s \in Sessions, i \in Intents : List(s, i) \/ Announce(s, i)
    \/ \E n \in Nodes, k \in 1 .. Len(log) : Receive(n, k)
    \/ \E s \in Sessions, k \in 1 .. Len(log) : Process(s, k)

Spec == Init /\ [][Next]_vars

-----------------------------------------------------------------------------
\* Two versions that only their build tells apart, and a consumer that would take the version
\* but for the build of one it supports.
OnlyBuild(v, w) == v # w /\ v.major = w.major /\ v.rank = w.rank
Offers(r, selector) ==
    \E x \in r.supports : x.uri = selector.uri /\ AtMost(x.floor, selector.version) /\ AtMost(selector.version, x.version)
Mistaken(r, selector) == \E x \in r.supports : x.uri = selector.uri /\ OnlyBuild(x.version, selector.version)

\* An event that passed the gate on the card of a session is not lost there: when
\* that session processes it, a consumer resolves it, which takes it unless its
\* conversation has ended.  Two cases the gate does let through: every consumer
\* that offers the version is bound to other channels only (supportedExtensions
\* ignores the binding), or supports it in another build.
VouchedIsTaken ==
    \A t \in taken :
        LET e == log[t.event] IN
        t.by \in e.vouched /\ t.consumer = Unsupported =>
            LET offering == {r \in Registry[t.by] : Offers(r, e.selector)} IN
            /\ offering # {}
            /\ \A r \in offering : ~BoundTo(r, e.channel) \/ Mistaken(r, e.selector)

\* What is shown of a peer can be trusted as far as this: a session that polls a channel
\* has its card at the home unless another card was put in its place, the row was given up
\* or the alias was somebody else's by then; and under an alias that nobody gave up
\* a mirror never shows the card of one node's session in the row of another.
CardsStand ==
    /\ \A s \in Sessions : \A c \in active[s] :
        <<s, c>> \notin overtaken => \E a \in Aliases : member[c][a] = [node |-> NodeOf[s], card |-> s]
    /\ \A n \in Nodes, c \in Channels, a \in Aliases :
        LET r == mirror[n][c][a] IN <<c, a>> \notin loose /\ r.card \in Sessions => NodeOf[r.card] = r.node

\* The publish tool sends to the peer whose card it read: the alias is that node's, and no
\* other node receives the event, under whatever handle the peer was asked for.  An alias
\* that some member gave up by then may be another node's.
CheckedIsAddressed ==
    \A k \in 1 .. Len(log) : LET e == log[k] IN
        e.tool /\ e.to # Everyone /\ <<e.channel, e.to>> \notin loose =>
            /\ \A n \in e.picked : Has(n, e.channel, e.to)
            /\ \A n \in Nodes : k \in inbox[n] => n \in e.picked
=============================================================================
