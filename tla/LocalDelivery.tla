---------------------------- MODULE LocalDelivery ----------------------------
(***************************************************************************)
(* Delivery over a local home: the engine of every node (engine.ts) and    *)
(* the hub it shares (LocalHomeLog).  Each node owns a profile store with  *)
(* a sync cursor, a mirror of the messages it sent or pulled, and an inbox.*)
(* Several operating-system processes of one profile (session, daemon,     *)
(* CLI) work on the same store; every SQL statement commits on its own.    *)
(*                                                                         *)
(* An asynchronous call is a job: its steps are the statements between     *)
(* which another process may run, or a crash may strike.  A syncer runs    *)
(* syncOnce over and over (the polling pump), a client runs send and the   *)
(* human gate.                                                             *)
(***************************************************************************)
EXTENDS LocalHomeLog

CONSTANTS
    Syncers,     \* tasks that run syncOnce
    Clients,     \* tasks that run send, deliverHeld, dropHeld and editHeld
    NodeOf,      \* the node whose profile a task works for
    Expirable,   \* messages whose replyBy may pass before they are pulled
    InboxCap,    \* inbox rows kept after a sync (inboxCap)
    MaxCrashes,  \* bound on crashes
    CrashBeforeInbox, \* may a crash separate the mirror insert from the inbox insert?
    NoRow        \* the mirror holds no row for the id

Tasks == Syncers \cup Clients

ASSUME DeliveryAssumption ==
    /\ Syncers \cap Clients = {}
    /\ NodeOf \in [Tasks -> Nodes]
    /\ Expirable \subseteq Messages
    /\ InboxCap \in Nat
    /\ MaxCrashes \in Nat
    /\ CrashBeforeInbox \in BOOLEAN
    /\ NoRow \notin [seq : Nat, status : Statuses, body : Bodies]

VARIABLES
    cursor,   \* sync_state.last_seq_synced per node
    mirror,   \* messages table per node
    inbox,    \* inbox table per node
    job,      \* what each task is in the middle of
    arrived,  \* history: messages ever inserted into the node's inbox
    expired,  \* history: messages stored as dropped because their replyBy had passed
    crashes   \* number of crashes so far

nodeVars == <<cursor, mirror, inbox, arrived, expired>>
vars == <<homeVars, nodeVars, job, crashes>>

MirrorRow == [seq : Nat, status : Statuses, body : Bodies]
PulledRow == [seq : Nat, id : Messages, status : Statuses, body : Bodies]
InboxRow == [rowid : Nat, id : Messages, consumed : BOOLEAN]
Steps == {"idle", "pull", "scan", "mirror", "inbox", "advance", "sent", "resolved"}
Job == [pc : Steps, head : Nat, rest : SUBSET PulledRow, row : SUBSET PulledRow]

Idle == [pc |-> "idle", head |-> 0, rest |-> {}, row |-> {}]

TypeOK ==
    /\ HomeTypeOK
    /\ cursor \in [Nodes -> Nat]
    /\ mirror \in [Nodes -> [Messages -> MirrorRow \cup {NoRow}]]
    /\ inbox \in [Nodes -> SUBSET InboxRow]
    /\ job \in [Tasks -> Job]
    /\ arrived \in [Nodes -> SUBSET Messages]
    /\ expired \in [Nodes -> SUBSET Messages]
    /\ crashes \in 0..MaxCrashes

Init ==
    /\ HomeInit
    /\ cursor = [n \in Nodes |-> 0]
    /\ mirror = [n \in Nodes |-> [m \in Messages |-> NoRow]]
    /\ inbox = [n \in Nodes |-> {}]
    /\ job = [t \in Tasks |-> Idle]
    /\ arrived = [n \in Nodes |-> {}]
    /\ expired = [n \in Nodes |-> {}]
    /\ crashes = 0

-----------------------------------------------------------------------------
Known(n, m) == mirror[n][m] # NoRow
InInbox(n, m) == \E b \in inbox[n] : b.id = m
AddressedTo(n, m) == From[m] # n /\ To[m] \in {n, Everyone}

\* store.messages.insert: ON CONFLICT(message_id) DO NOTHING.
InsertMirror(n, r, status, body) ==
    mirror' = IF Known(n, r.id) THEN mirror
              ELSE [mirror EXCEPT ![n][r.id] = [seq |-> r.seq, status |-> status, body |-> body]]

Goto(t, j) == job' = [job EXCEPT ![t] = j]

(***************************************************************************)
(* send: append at the home, then insert the sender's own mirror row with  *)
(* the seq and status the home answered.  A repeated id is a retry.        *)
(***************************************************************************)
SendAppend(t, m) ==
    /\ t \in Clients /\ job[t].pc = "idle"
    /\ From[m] = NodeOf[t]
    /\ AppendMessage(m)
    /\ \E i \in DOMAIN log' :
        /\ log'[i].id = m
        /\ Goto(t, [Idle EXCEPT !.pc = "sent",
                     !.row = {[seq |-> i, id |-> m, status |-> log'[i].status, body |-> "original"]}])
    /\ UNCHANGED <<nodeVars, crashes>>

SendMirror(t) ==
    /\ job[t].pc = "sent"
    /\ \E r \in job[t].row : InsertMirror(NodeOf[t], r, r.status, r.body)
    /\ Goto(t, Idle)
    /\ UNCHANGED <<homeVars, cursor, inbox, arrived, expired, crashes>>

(***************************************************************************)
(* syncOnce for the channel: read the cursor, pull, handle the pulled      *)
(* messages in seq order, acknowledge the head at the home, then store it  *)
(* as the cursor and enforce the inbox cap.                                *)
(***************************************************************************)
SyncBegin(t) ==
    /\ t \in Syncers /\ job[t].pc = "idle"
    /\ Goto(t, [Idle EXCEPT !.pc = "pull", !.head = cursor[NodeOf[t]]])
    /\ UNCHANGED <<homeVars, nodeVars, crashes>>

SyncPull(t) ==
    /\ job[t].pc = "pull"
    /\ \E h \in Reached(job[t].head) \cup {job[t].head} :
        /\ IsHead(job[t].head, h)
        /\ Goto(t, [Idle EXCEPT !.pc = "scan", !.head = h, !.rest = PulledRows(job[t].head)])
    /\ UNCHANGED <<homeVars, nodeVars, crashes>>

\* Mutant of IsNext: the batch is handled in any order.
IsNextAny(t, r) == r \in job[t].rest

IsNext(t, r) == r \in job[t].rest /\ \A q \in job[t].rest : r.seq <= q.seq

Done(t, r) == [job[t] EXCEPT !.pc = "scan", !.rest = @ \ {r}, !.row = {}]

\* A message of this node: refresh its own mirror row if the home's differs.
RefreshOwn(n, r) ==
    mirror' = IF Known(n, r.id) /\ (mirror[n][r.id].status # r.status \/ mirror[n][r.id].seq # r.seq)
              THEN [mirror EXCEPT ![n][r.id] = [seq |-> r.seq, status |-> r.status, body |-> r.body]]
              ELSE mirror

SyncOwn(t) ==
    /\ job[t].pc = "scan"
    /\ \E r \in job[t].rest :
        /\ IsNext(t, r)
        /\ From[r.id] = NodeOf[t]
        /\ RefreshOwn(NodeOf[t], r)
        /\ Goto(t, Done(t, r))
    /\ UNCHANGED <<homeVars, cursor, inbox, arrived, expired, crashes>>

\* Another member's message that is not for this node, or is already stored.
SyncSkip(t) ==
    /\ job[t].pc = "scan"
    /\ \E r \in job[t].rest :
        /\ IsNext(t, r)
        /\ From[r.id] # NodeOf[t]
        /\ ~AddressedTo(NodeOf[t], r.id) \/ Known(NodeOf[t], r.id)
        /\ Goto(t, Done(t, r))
    /\ UNCHANGED <<homeVars, nodeVars, crashes>>

Wanted(n, m) == AddressedTo(n, m) /\ ~Known(n, m)

\* replyBy has passed: stored as dropped, never reaches the inbox.
SyncExpire(t) ==
    /\ job[t].pc = "scan"
    /\ \E r \in job[t].rest :
        /\ IsNext(t, r)
        /\ Wanted(NodeOf[t], r.id)
        /\ r.id \in Expirable
        /\ InsertMirror(NodeOf[t], r, "dropped", r.body)
        /\ expired' = [expired EXCEPT ![NodeOf[t]] = @ \cup {r.id}]
        /\ Goto(t, Done(t, r))
    /\ UNCHANGED <<homeVars, cursor, inbox, arrived, crashes>>

SyncTake(t) ==
    /\ job[t].pc = "scan"
    /\ \E r \in job[t].rest :
        /\ IsNext(t, r)
        /\ Wanted(NodeOf[t], r.id)
        /\ Goto(t, [job[t] EXCEPT !.pc = "mirror", !.row = {r}])
    /\ UNCHANGED <<homeVars, nodeVars, crashes>>

SyncMirror(t) ==
    /\ job[t].pc = "mirror"
    /\ \E r \in job[t].row : InsertMirror(NodeOf[t], r, "delivered", r.body)
    /\ Goto(t, [job[t] EXCEPT !.pc = "inbox"])
    /\ UNCHANGED <<homeVars, cursor, inbox, arrived, expired, crashes>>

\* The rowid SQLite gives the next row: one more than the largest in the table.
IsNextRowid(box, k) ==
    /\ k \in {1} \cup {b.rowid + 1 : b \in box}
    /\ \A b \in box : b.rowid < k

\* store.inbox.insert: ON CONFLICT(message_id) DO NOTHING.
InsertInbox(n, m) ==
    \/ InInbox(n, m) /\ UNCHANGED inbox
    \/ /\ ~InInbox(n, m)
       /\ \E k \in {1} \cup {b.rowid + 1 : b \in inbox[n]} :
            /\ IsNextRowid(inbox[n], k)
            /\ inbox' = [inbox EXCEPT ![n] = @ \cup {[rowid |-> k, id |-> m, consumed |-> FALSE]}]

SyncInbox(t) ==
    /\ job[t].pc = "inbox"
    /\ \E r \in job[t].row :
        /\ InsertInbox(NodeOf[t], r.id)
        /\ arrived' = [arrived EXCEPT ![NodeOf[t]] = @ \cup {r.id}]
        /\ Goto(t, Done(t, r))
    /\ UNCHANGED <<homeVars, cursor, mirror, expired, crashes>>

SyncAck(t) ==
    /\ job[t].pc = "scan" /\ job[t].rest = {}
    /\ AckCursor(NodeOf[t], job[t].head)
    /\ Goto(t, [job[t] EXCEPT !.pc = "advance"])
    /\ UNCHANGED <<nodeVars, crashes>>

(***************************************************************************)
(* enforceInboxCap: evict the oldest consumed rows first, then the oldest  *)
(* unread ones, until InboxCap rows are left.                              *)
(***************************************************************************)
Oldest(box, c, k) ==
    {b \in box : /\ b.consumed = c
                 /\ Cardinality({a \in box : a.consumed = c /\ a.rowid <= b.rowid}) <= k}

Evicted(box) ==
    LET over == Cardinality(box) - InboxCap
        read == Oldest(box, TRUE, over)
    IN  read \cup Oldest(box, FALSE, over - Cardinality(read))

\* Mutant of SyncAdvance: the cursor is not stored.
SyncAdvanceForgotten(t) ==
    /\ job[t].pc = "advance"
    /\ inbox' = [inbox EXCEPT ![NodeOf[t]] = @ \ Evicted(@)]
    /\ Goto(t, Idle)
    /\ UNCHANGED <<homeVars, cursor, mirror, arrived, expired, crashes>>

SyncAdvance(t) ==
    /\ job[t].pc = "advance"
    /\ cursor' = [cursor EXCEPT ![NodeOf[t]] = job[t].head]
    /\ inbox' = [inbox EXCEPT ![NodeOf[t]] = @ \ Evicted(@)]
    /\ Goto(t, Idle)
    /\ UNCHANGED <<homeVars, mirror, arrived, expired, crashes>>

-----------------------------------------------------------------------------
\* ack, and readInbox with consume: mark an inbox row consumed.
Consume(n, m) ==
    /\ Known(n, m)
    /\ \E b \in inbox[n] :
        /\ b.id = m /\ ~b.consumed
        /\ inbox' = [inbox EXCEPT ![n] = (@ \ {b}) \cup {[b EXCEPT !.consumed = TRUE]}]
    /\ UNCHANGED <<homeVars, cursor, mirror, arrived, expired, job, crashes>>

\* deliverHeld, dropHeld and editHeld: resolve at the home, then patch the local mirror.
GateResolve(t, i, resolution) ==
    /\ t \in Clients /\ job[t].pc = "idle"
    /\ ResolveHeld(i, resolution)
    /\ Goto(t, [Idle EXCEPT !.pc = "resolved",
                 !.row = {[seq |-> i, id |-> log[i].id, status |-> log'[i].status, body |-> log'[i].body]}])
    /\ UNCHANGED <<nodeVars, crashes>>

GateMirror(t) ==
    /\ job[t].pc = "resolved"
    /\ \E r \in job[t].row :
        mirror' = IF ~Known(NodeOf[t], r.id) THEN mirror
                  ELSE [mirror EXCEPT ![NodeOf[t]][r.id].status = r.status,
                                      ![NodeOf[t]][r.id].body = r.body]
    /\ Goto(t, Idle)
    /\ UNCHANGED <<homeVars, cursor, inbox, arrived, expired, crashes>>

SetChannelMode(x) ==
    /\ x # mode
    /\ SetMode(x)
    /\ UNCHANGED <<nodeVars, job, crashes>>

\* The process running a task dies; what it committed stays.
Crash(t) ==
    /\ job[t].pc # "idle"
    /\ crashes < MaxCrashes
    /\ job[t].pc = "inbox" => CrashBeforeInbox
    /\ crashes' = crashes + 1
    /\ Goto(t, Idle)
    /\ UNCHANGED <<homeVars, nodeVars>>

Resolutions == {"deliver", "edit", "drop"}

SyncStep(t) ==
    \/ SyncBegin(t) \/ SyncPull(t) \/ SyncOwn(t) \/ SyncSkip(t) \/ SyncExpire(t)
    \/ SyncTake(t) \/ SyncMirror(t) \/ SyncInbox(t) \/ SyncAck(t) \/ SyncAdvance(t)

Next ==
    \/ \E t \in Tasks : SyncStep(t) \/ SendMirror(t) \/ GateMirror(t) \/ Crash(t)
    \/ \E t \in Clients, m \in Messages : SendAppend(t, m)
    \/ \E t \in Clients, i \in DOMAIN log, x \in Resolutions : GateResolve(t, i, x)
    \/ \E n \in Nodes, m \in Messages : Consume(n, m)
    \/ \E x \in Modes : SetChannelMode(x)

Spec == Init /\ [][Next]_vars

\* The pump's timer fires again and again, and a started call runs to its end.
Fairness ==
    /\ \A t \in Syncers : WF_vars(SyncStep(t))
    /\ \A t \in Clients : WF_vars(SendMirror(t)) /\ WF_vars(GateMirror(t))

FairSpec == Spec /\ Fairness
-----------------------------------------------------------------------------
(***************************************************************************)
(* Properties.                                                             *)
(***************************************************************************)

\* The human gate holds: while a message is held, no node's cursor, no acknowledged
\* cursor and no pull in flight has moved past it, so its release is still pulled.
HeldBarrier ==
    \A i \in DOMAIN log : log[i].status = "held" =>
        /\ \A n \in Nodes : cursor[n] < i /\ acked[n] < i
        /\ \A t \in Tasks : job[t].head < i

Landing(n, m) ==
    \E t \in Tasks : NodeOf[t] = n /\ job[t].pc = "inbox" /\ \E r \in job[t].row : r.id = m

Settled(n, m) ==
    \/ m \in arrived[n]
    \/ m \in expired[n]
    \/ Landing(n, m)

\* At-least-once: the cursor never moves past a message for the node that did not reach
\* the inbox, unless its gate dropped it, its replyBy passed, or a concurrent sync of the
\* same profile is inserting it right now.
NothingSkipped ==
    \A n \in Nodes : \A i \in DOMAIN log :
        i <= cursor[n] /\ AddressedTo(n, log[i].id) /\ log[i].status # "dropped"
            => Settled(n, log[i].id)

\* Per-sender and cross-sender order: when a message has arrived, every earlier message
\* for the node that was released has arrived too, has expired or is being inserted.
InOrder ==
    \A n \in Nodes : \A i, j \in DOMAIN log :
        /\ i < j
        /\ AddressedTo(n, log[i].id)
        /\ log[j].id \in arrived[n]
        => /\ log[i].status # "held"
           /\ log[i].status = "delivered" => Settled(n, log[i].id)

\* A receiver only ever stores what the gate released: the body the human left, at the
\* home's seq, and never a held or dropped message.
ReleasedCopy ==
    \A n \in Nodes, m \in Messages : From[m] # n /\ Known(n, m) =>
        \E i \in DOMAIN log :
            /\ log[i].id = m
            /\ log[i].status = "delivered"
            /\ mirror[n][m].seq = i
            /\ mirror[n][m].body = log[i].body

\* The sender's own record never runs ahead of the home: it names the home's seq, and
\* shows a decision only if the gate took that decision.
SenderNeverAhead ==
    \A m \in Messages : Known(From[m], m) =>
        \E i \in DOMAIN log :
            /\ log[i].id = m
            /\ mirror[From[m]][m].seq = i
            /\ mirror[From[m]][m].status \in {"held", log[i].status}

\* The home learns of progress before the profile commits it: a crash between the two
\* can only make the node pull again.
AckedBeforeCursor == \A n \in Nodes : cursor[n] <= acked[n] /\ acked[n] <= Len(log)

\* Every released message for a node that keeps polling, with nothing held before it,
\* reaches its inbox.
ReleasedArrives ==
    \A n \in {NodeOf[t] : t \in Syncers}, m \in Messages \ Expirable :
        (\E i \in DOMAIN log :
            /\ log[i].id = m /\ AddressedTo(n, m)
            /\ log[i].status = "delivered"
            /\ ~HeldUpTo(0, i))
        ~> m \in arrived[n]

\* The engines and the hub together implement the ordered mailbox.
Mailbox == INSTANCE OrderedMailbox WITH posts <- log, received <- arrived

MailboxPromise == Mailbox!MailSpec

-----------------------------------------------------------------------------
(***************************************************************************)
(* The inductive invariant behind the safety properties.                   *)
(***************************************************************************)
UniqueIds == \A i, j \in DOMAIN log : log[i].id = log[j].id => i = j

Syncing == {"pull", "scan", "mirror", "inbox", "advance"}

\* What a task holds while it is in the middle of a call.
JobShape ==
    \A t \in Tasks :
        /\ job[t].pc \notin Syncing => job[t].head = 0 /\ job[t].rest = {}
        /\ job[t].pc \in {"idle", "pull", "advance"} => job[t].rest = {}
        /\ job[t].pc \in {"idle", "pull", "scan", "advance"} => job[t].row = {}
        /\ \A q, r \in job[t].row : q = r
        /\ job[t].pc \in {"mirror", "inbox"} =>
            \A r \in job[t].row : IsNext(t, r) /\ AddressedTo(NodeOf[t], r.id)
        /\ job[t].pc = "inbox" => \A r \in job[t].row : Known(NodeOf[t], r.id)

\* A pulled row stays what the home holds, since released rows never change again.
PulledFaithful ==
    \A t \in Tasks : \A r \in job[t].rest :
        /\ r.seq \in DOMAIN log /\ r.seq <= job[t].head
        /\ log[r.seq] = [id |-> r.id, status |-> "delivered", body |-> r.body]
        /\ r.status = "delivered"

\* What send and the human gate carry to the mirror.
AnswerFaithful ==
    \A t \in Tasks : job[t].pc \in {"sent", "resolved"} => \A r \in job[t].row :
        /\ r.seq \in DOMAIN log
        /\ log[r.seq].id = r.id
        /\ job[t].pc = "sent" => From[r.id] = NodeOf[t] /\ r.status \in {"held", log[r.seq].status}
        /\ job[t].pc = "resolved" => /\ log[r.seq].status = r.status
                                     /\ log[r.seq].body = r.body
                                     /\ r.status # "held"

\* A call in flight vouches for everything up to its head: settled, or still to handle.
Covered ==
    \A t \in Tasks : \A i \in DOMAIN log :
        i <= job[t].head /\ AddressedTo(NodeOf[t], log[i].id) /\ log[i].status # "dropped"
            => \/ Settled(NodeOf[t], log[i].id)
               \/ \E r \in job[t].rest : r.seq = i

KnownSettled ==
    \A n \in Nodes, m \in Messages : AddressedTo(n, m) /\ Known(n, m) => Settled(n, m)

HeadBounded ==
    \A t \in Tasks :
        /\ job[t].head <= Len(log)
        /\ job[t].pc = "advance" => job[t].head <= acked[NodeOf[t]]

ArrivedLogged ==
    \A n \in Nodes : \A m \in arrived[n] : \E i \in DOMAIN log : log[i].id = m

\* The part that holds whatever crashes.
SafeInv ==
    /\ TypeOK /\ UniqueIds /\ JobShape /\ PulledFaithful /\ AnswerFaithful
    /\ HeldBarrier /\ HeadBounded /\ AckedBeforeCursor /\ ReleasedCopy /\ SenderNeverAhead

\* The part that needs the two inserts of one message not to be torn apart by a crash.
CoverInv == Covered /\ KnownSettled /\ NothingSkipped /\ ArrivedLogged /\ InOrder

IInv == SafeInv /\ CoverInv
=============================================================================
