------------------------------ MODULE RelayHome ------------------------------
(***************************************************************************)
(* A channel kept by a relay and the engines that use it over HTTP.  A     *)
(* request passes the relay's authentication (relay/src/auth.ts), its      *)
(* handler (relay/src/app.ts) and the store (relay/src/store.ts); the      *)
(* relay is one process whose store is synchronous, so each request is one *)
(* step.  The answer may be lost on the way: the caller (sync/             *)
(* relay-driver.ts, engine/engine.ts) then sees HOME_UNREACHABLE and does  *)
(* not know what the relay did.                                            *)
(*                                                                         *)
(* Unlike the local home the relay counts its seqs in head_seq, deletes    *)
(* old rows, limits a member nobody has answered yet, never removes a      *)
(* member, and has no remote human gate: what it holds stays held.         *)
(***************************************************************************)
EXTENDS Integers, FiniteSets

CONSTANTS
    Messages, Nodes, Aliases,
    Founder,          \* the node that creates the channel
    FounderAlias,
    Modes,            \* the modes a channel may be created with
    Visibilities,     \* and its visibilities
    Sender,           \* Sender[m]: the node that posts m
    Target,           \* Target[m]: an alias, or Everyone
    ViaGateway,       \* messages a plain A2A client of the node posts to the gateway
    Everyone, NoAlias,
    Invites, MaxUses, \* invite tokens, and the uses each is minted with
    MaxBeforeReply,   \* ICEBREAK_DEFAULTS.maxBeforeReply
    PullLimit,        \* DEFAULT_SYNC_LIMIT
    MaxSeq,           \* bound on head_seq
    MaxFaults         \* bound on lost answers, crashes and departures

ASSUME RelayAssumption ==
    /\ Founder \in Nodes /\ FounderAlias \in Aliases
    /\ Modes \subseteq {"auto", "intercept", "paused"}
    /\ Visibilities \subseteq {"private", "public"}
    /\ Sender \in [Messages -> Nodes]
    /\ Target \in [Messages -> Aliases \cup {Everyone}]
    /\ ViaGateway \subseteq Messages
    /\ NoAlias \notin Aliases /\ Everyone \notin Aliases
    /\ MaxUses \in Nat \ {0} /\ MaxBeforeReply \in Nat \ {0}
    /\ PullLimit \in Nat \ {0} /\ MaxSeq \in Nat /\ MaxFaults \in Nat

VARIABLES
    mode,       \* channels.mode, "none" before the channel exists
    visibility, \* channels.visibility
    alias,      \* members.alias per node, NoAlias for a stranger
    joinSeq,    \* members.join_seq
    minted, uses, \* invites: rows and their uses
    rows,       \* messages
    head,       \* channels.head_seq
    acked,      \* cursors.acked_seq, -1 for a member that never acknowledged
    expired,    \* history: a cleanup found rows up to here older than RETENTION_HARD_TTL_MS
    joined,     \* engines: the nodes whose store has the channel
    cursor,     \* engines: sync_state per node
    known,      \* engines: mirrored messages of others per node
    arrivals,   \* history: inbox inserts per node and message
    confirmed,  \* engines: the messages whose append was answered
    pulled,     \* engines: the head the sync under way was given, -1 when there is none
    answered,   \* history: members a peer has answered since they joined
    cut,        \* history: nodes whose pull was cut off by the limit
    faults

channelVars == <<mode, visibility, alias, joinSeq, minted, uses>>
logVars == <<rows, head, acked, expired, answered>>
engineVars == <<cursor, known, arrivals, confirmed, pulled, cut>>
vars == <<channelVars, logVars, joined, engineVars, faults>>

Members == {n \in Nodes : alias[n] # NoAlias}
Row == [seq : Nat, id : Messages, from : Aliases, status : {"held", "delivered"}]

TypeOK ==
    /\ mode \in Modes \cup {"none"} /\ visibility \in Visibilities \cup {"none"}
    /\ alias \in [Nodes -> Aliases \cup {NoAlias}]
    /\ joinSeq \in [Nodes -> Nat]
    /\ minted \subseteq Invites /\ uses \in [Invites -> 0..MaxUses]
    /\ rows \subseteq Row /\ head \in Nat
    /\ acked \in [Nodes -> Nat \cup {-1}]
    /\ expired \in 0..head
    /\ joined \subseteq Nodes
    /\ cursor \in [Nodes -> 0..head]
    /\ known \in [Nodes -> SUBSET Messages]
    /\ arrivals \in [Nodes -> [Messages -> Nat]]
    /\ confirmed \subseteq Messages
    /\ pulled \in [Nodes -> -1..head]
    /\ answered \subseteq Nodes /\ cut \subseteq Nodes
    /\ faults \in 0..MaxFaults

Init ==
    /\ mode = "none" /\ visibility = "none"
    /\ alias = [n \in Nodes |-> NoAlias]
    /\ joinSeq = [n \in Nodes |-> 0]
    /\ minted = {} /\ uses = [i \in Invites |-> 0]
    /\ rows = {} /\ head = 0
    /\ acked = [n \in Nodes |-> -1]
    /\ expired = 0
    /\ joined = {}
    /\ cursor = [n \in Nodes |-> 0]
    /\ known = [n \in Nodes |-> {}]
    /\ arrivals = [n \in Nodes |-> [m \in Messages |-> 0]]
    /\ confirmed = {}
    /\ pulled = [n \in Nodes |-> -1]
    /\ answered = {} /\ cut = {}
    /\ faults = 0

-----------------------------------------------------------------------------
(***************************************************************************)
(* Authentication.                                                         *)
(***************************************************************************)

\* A node with a member row is verified with the key it registered.  A request with a bad
\* clock, header or signature is refused, which is no step.
Authenticated(n) == n \in Members

\* requireMember.
RequireMember(n) == n \in Members

\* safeRelayRequest fails after the relay took the request: it timed out, the connection broke
\* or the answer was too large.  (One that fails before is no step.)
Unanswered == faults < MaxFaults /\ faults' = faults + 1

\* What the caller learns: it records what the relay did, or the answer is lost.
Answer(recorded, lost) == (recorded /\ UNCHANGED faults) \/ (lost /\ Unanswered)

\* syncState.set: the cursor of the channel in a node's store, 0 where there is no row.
SetCursor(n, seq) == cursor' = [cursor EXCEPT ![n] = seq]

\* The store's row of the channel, with its cursor at 0 unless it was there already.
RecordChannel(n) ==
    /\ joined' = joined \cup {n}
    /\ IF n \in joined THEN UNCHANGED cursor ELSE SetCursor(n, 0)

-----------------------------------------------------------------------------
(***************************************************************************)
(* Channels and members.                                                   *)
(***************************************************************************)
CreateChannelBootstrap(n, a) ==
    /\ mode = "none"
    /\ mode' \in Modes /\ visibility' \in Visibilities
    /\ alias' = [alias EXCEPT ![n] = a]
    /\ UNCHANGED joinSeq

\* POST /ch/:channel/create.
PostCreate(n, a) ==
    /\ n = Founder /\ a = FounderAlias
    /\ CreateChannelBootstrap(n, a)
    /\ Answer(RecordChannel(n), UNCHANGED <<joined, cursor>>)
    /\ UNCHANGED <<minted, uses, logVars, known, arrivals, confirmed, pulled, cut>>

CreateInvite(i) == i \notin minted /\ minted' = minted \cup {i}

\* POST /ch/:channel/invites.
PostInvites(n, i) ==
    /\ n \in joined /\ Authenticated(n) /\ RequireMember(n)
    /\ CreateInvite(i)
    /\ UNCHANGED <<mode, visibility, alias, joinSeq, uses, logVars, joined, engineVars, faults>>

Admit(n, a) ==
    /\ alias' = [alias EXCEPT ![n] = a]
    /\ joinSeq' = [joinSeq EXCEPT ![n] = head]

\* A taken alias is refused, and so is a node that is a member under another alias.
MayTake(n, a) ==
    /\ \A p \in Members : alias[p] # a
    /\ alias[n] = NoAlias

\* An expired invite refuses the join, which is no step.
HasUses(i) == uses[i] < MaxUses

\* Joining again under the same alias changes nothing, and uses nothing up.
\* Mutant of JoinViaInvite: a member that joins again is taken for a newcomer.
JoinViaInviteAnew(n, a, i) ==
    /\ i \in minted
    /\ \A p \in Members : p # n => alias[p] # a
    /\ alias[n] \in {NoAlias, a}
    /\ HasUses(i)
    /\ uses' = [uses EXCEPT ![i] = @ + 1]
    /\ Admit(n, a)

JoinViaInvite(n, a, i) ==
    /\ i \in minted
    /\ \/ alias[n] = a /\ UNCHANGED <<alias, joinSeq, uses>>
       \/ /\ MayTake(n, a) /\ HasUses(i)
          /\ uses' = [uses EXCEPT ![i] = @ + 1]
          /\ Admit(n, a)

JoinPublicChannel(n, a) ==
    /\ visibility = "public"
    /\ \/ alias[n] = a /\ UNCHANGED <<alias, joinSeq>>
       \/ MayTake(n, a) /\ Admit(n, a)

\* POST /join.
PostJoin(n, a, i) ==
    /\ n \notin joined
    /\ JoinViaInvite(n, a, i)
    /\ Answer(RecordChannel(n), UNCHANGED <<joined, cursor>>)
    /\ UNCHANGED <<mode, visibility, minted, logVars, known, arrivals, confirmed, pulled, cut>>

\* POST /ch/:channel/public-join.
PostPublicJoin(n, a) ==
    /\ n \notin joined
    /\ JoinPublicChannel(n, a)
    /\ Answer(RecordChannel(n), UNCHANGED <<joined, cursor>>)
    /\ UNCHANGED <<mode, visibility, minted, uses, logVars, known, arrivals, confirmed, pulled, cut>>

\* leaveChannel sends nothing to a relay.  The store's cursor goes with the channel's row
\* (ON DELETE CASCADE), the mirrored messages and the inbox stay.
LeaveChannel(n) ==
    /\ n \in joined /\ faults < MaxFaults
    /\ faults' = faults + 1
    /\ joined' = joined \ {n}
    /\ SetCursor(n, 0)
    /\ UNCHANGED <<channelVars, logVars, known, arrivals, confirmed, pulled, cut>>

-----------------------------------------------------------------------------
(***************************************************************************)
(* Messages and retention.                                                 *)
(***************************************************************************)
Since(n) == {r \in rows : r.seq > joinSeq[n]}
HasPeerReplied(n) == \E r \in Since(n) : r.from # alias[n]
CountSentSinceJoin(n) == Cardinality({r \in Since(n) : r.from = alias[n]})

IcebreakOpen(n) == HasPeerReplied(n) \/ CountSentSinceJoin(n) + 1 <= MaxBeforeReply

\* Mutant of AllAcked: members that never acknowledged are not counted.
AllAckedSoFar(ack, s) == \A n \in Members : ack[n] >= s \/ ack[n] = -1

\* Every member has a cursor row, and the smallest is at least s.
AllAcked(ack, s) == \A n \in Members : ack[n] # -1 /\ ack[n] >= s

\* cleanupRetention on the rows rs when the cursors are ack.  Time is left open: rows up to
\* hard are older than RETENTION_HARD_TTL_MS, rows up to soft than RETENTION_ACKED_TTL_MS;
\* a row appended just now is neither.
Cleanup(rs, ack) ==
    \E soft \in expired..head : \E hard \in expired..soft :
        /\ expired' = hard
        /\ rows' = {r \in rs : r.seq > hard /\ ~(r.seq <= soft /\ AllAcked(ack, r.seq))}

\* Mutant of NewSeq: the next seq is taken from the rows, as the local hub does.
NewSeqFromRows == CHOOSE s \in 1..(head + 1) :
    /\ \A r \in rows : r.seq < s
    /\ \A t \in 1..(s - 1) : \E r \in rows : r.seq >= t

NewSeq == head + 1

\* The paused and icebreak tests come before the duplicate test.
Accepted(n) == RequireMember(n) /\ mode # "paused" /\ IcebreakOpen(n)

NewRow(n, m) ==
    [seq |-> NewSeq, id |-> m, from |-> alias[n],
     status |-> IF mode = "intercept" THEN "held" ELSE "delivered"]

AppendNew(n, m) ==
    /\ head < MaxSeq
    /\ \A q \in rows : q.id # m
    /\ head' = NewSeq
    /\ Cleanup(rows \cup {NewRow(n, m)}, acked)
    /\ answered' = answered \cup {p \in Members : p # n /\ NewSeq > joinSeq[p]}

AppendDuplicate(m) ==
    /\ \E q \in rows : q.id = m
    /\ UNCHANGED <<head, answered>>
    /\ Cleanup(rows, acked)

AppendMessages(n, m) ==
    /\ Accepted(n)
    /\ AppendNew(n, m) \/ AppendDuplicate(m)

\* POST /ch/:channel/messages.  The engine mirrors its message once it has the answer;
\* without it, the caller sends the same messageId again.
PostMessages(n, m) ==
    /\ m \notin ViaGateway /\ Sender[m] = n /\ n \in joined
    /\ m \notin confirmed
    /\ Authenticated(n)
    /\ AppendMessages(n, m)
    /\ Answer(confirmed' = confirmed \cup {m}, UNCHANGED confirmed)
    /\ UNCHANGED <<channelVars, acked, joined, cursor, known, arrivals, pulled, cut>>

\* The gateway's envelope: the messageId is the A2A message's, the sender is the member.
GatewayMessage(n, m) == m \in ViaGateway /\ Sender[m] = n

\* POST /a2a/v1/message:send, by an A2A client that holds the node's key and keeps no mirror:
\* it may send a message again at any time.
PostA2A(n, m) ==
    /\ GatewayMessage(n, m)
    /\ Authenticated(n)
    /\ AppendMessages(n, m)
    /\ UNCHANGED <<channelVars, acked, joined, engineVars, faults>>

\* openDb cleans every channel when the relay starts.
RelayRestart ==
    /\ Cleanup(rows, acked)
    /\ UNCHANGED <<channelVars, head, acked, answered, joined, engineVars, faults>>

-----------------------------------------------------------------------------
(***************************************************************************)
(* syncOnce against the relay.  What an engine does between two requests   *)
(* touches only its own store, so each request is one step together with   *)
(* what follows its answer.  (Two processes that share a store are         *)
(* LocalDelivery's subject.)                                               *)
(***************************************************************************)
Newer(n) == {r \in rows : r.seq > cursor[n] /\ r.status = "delivered"}

\* pullMessages: the oldest rows after the cursor, up to the limit.
PullMessages(n) == {r \in Newer(n) : Cardinality({q \in Newer(n) : q.seq <= r.seq}) <= PullLimit}

AddressedTo(n, r) == r.from # alias[n] /\ Target[r.id] \in {alias[n], Everyone}

\* Mutant of Fresh: the messageId is not looked up before the insert.
FreshAlways(n) == {r.id : r \in {q \in PullMessages(n) : AddressedTo(n, q)}}

\* The messages of the answer that the engine stores.
Fresh(n) == {r.id : r \in {q \in PullMessages(n) : AddressedTo(n, q) /\ q.id \notin known[n]}}

\* GET /ch/:channel/messages.  A long poll answers at the first row or at its deadline, so
\* that the answer is always what one pullMessages found.
GetMessages(n) ==
    /\ n \in joined /\ pulled[n] = -1
    /\ Authenticated(n) /\ RequireMember(n)
    /\ known' = [known EXCEPT ![n] = @ \cup Fresh(n)]
    /\ arrivals' = [arrivals EXCEPT ![n] = [m \in Messages |-> IF m \in Fresh(n) THEN @[m] + 1 ELSE @[m]]]
    /\ cut' = IF PullMessages(n) = Newer(n) THEN cut ELSE cut \cup {n}
    /\ pulled' = [pulled EXCEPT ![n] = head]
    /\ UNCHANGED <<channelVars, logVars, joined, cursor, confirmed, faults>>

CursorAfter(n) == pulled[n]

AckCursor(n, seq) ==
    /\ RequireMember(n)
    /\ acked' = [acked EXCEPT ![n] = IF seq > @ THEN seq ELSE @]
    /\ Cleanup(rows, acked')

\* POST /ch/:channel/ack, and the cursor once its answer is there; without it, or when the
\* channel was left meanwhile, the sync ends in an error.
PostAck(n) ==
    /\ pulled[n] # -1 /\ Authenticated(n)
    /\ AckCursor(n, pulled[n])
    /\ Answer(IF n \in joined THEN SetCursor(n, CursorAfter(n)) ELSE UNCHANGED cursor,
              UNCHANGED cursor)
    /\ pulled' = [pulled EXCEPT ![n] = -1]
    /\ UNCHANGED <<channelVars, head, answered, joined, known, arrivals, confirmed, cut>>

\* The node's process dies after the pull, or the relay cannot be reached for the ack.
SyncAbort(n) ==
    /\ pulled[n] # -1 /\ Unanswered
    /\ pulled' = [pulled EXCEPT ![n] = -1]
    /\ UNCHANGED <<channelVars, logVars, joined, cursor, known, arrivals, confirmed, cut>>

Next ==
    \/ \E n \in Nodes :
        \/ GetMessages(n) \/ PostAck(n) \/ SyncAbort(n) \/ LeaveChannel(n)
        \/ \E m \in Messages : PostMessages(n, m) \/ PostA2A(n, m)
        \/ \E i \in Invites : PostInvites(n, i)
        \/ \E a \in Aliases : PostCreate(n, a) \/ PostPublicJoin(n, a)
        \/ \E a \in Aliases, i \in Invites : PostJoin(n, a, i)
    \/ RelayRestart

Spec == Init /\ [][Next]_vars
-----------------------------------------------------------------------------
(***************************************************************************)
(* Properties.                                                             *)
(***************************************************************************)

\* Before the hard limit, retention deletes only what every member has acknowledged, the
\* ones that left their local channel included.
UnreadRetained ==
    [][\A r \in rows : (\A q \in rows' : q.seq # r.seq) =>
        r.seq <= expired' \/ \A n \in Members : acked'[n] >= r.seq]_vars

\* A member nobody ever answered has at most MaxBeforeReply messages in the channel, however
\* often it leaves and joins again and whichever door its messages take.
IcebreakHolds ==
    \A n \in Members \ answered :
        Cardinality({r \in rows : r.from = alias[n]}) <= MaxBeforeReply

\* Redelivery after a lost acknowledgement, a lost answer, a restart or a departure never
\* puts a message into an inbox twice.
InboxOnce == \A n \in Nodes, m \in Messages : arrivals[n][m] <= 1

\* Unless the limit cut a pull off, the cursor never passes a message for the node that did
\* not reach its inbox.
RelayNothingSkipped ==
    \A n \in joined \ cut : \A r \in rows :
        r.seq <= cursor[n] /\ AddressedTo(n, r) /\ r.status = "delivered" => arrivals[n][r.id] > 0

=============================================================================
