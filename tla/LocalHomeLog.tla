---------------------------- MODULE LocalHomeLog ----------------------------
(***************************************************************************)
(* The message log of one channel kept by a local home: the hub_messages   *)
(* and hub_cursors tables of the shared SQLite hub file and the operations *)
(* of engine/local-home.ts on them.  Every operation runs in one SQLite    *)
(* transaction, so each is one atomic step here.                           *)
(*                                                                         *)
(* A row's seq is its position in log: the hub never deletes a message row *)
(* and allocates MAX(seq) + 1 inside the inserting transaction.            *)
(***************************************************************************)
EXTENDS Integers, Sequences, FiniteSets

CONSTANTS
    Messages,    \* message ids a sender may publish (idempotency keys)
    Nodes,       \* channel members, one alias per node
    Everyone,    \* the broadcast target "*"
    From,        \* From[m]: the node that publishes m
    To,          \* To[m]: the target of m, a node or Everyone
    PullLimit,   \* most messages one pull returns (200 in the code)
    ScanLimit    \* most rows one pull reads (PULL_SCAN_LIMIT, 2000)

ASSUME HomeAssumption ==
    /\ Everyone \notin Nodes
    /\ From \in [Messages -> Nodes]
    /\ To \in [Messages -> Nodes \cup {Everyone}]
    /\ PullLimit \in Nat \ {0}
    /\ ScanLimit \in Nat \ {0}

VARIABLES
    mode,    \* hub_channels.mode
    log,     \* hub_messages in seq order
    acked    \* hub_cursors.acked_seq per node

homeVars == <<mode, log, acked>>

Modes == {"auto", "intercept", "paused"}
Statuses == {"held", "delivered", "dropped"}
Bodies == {"original", "edited"}
LogRow == [id : Messages, status : Statuses, body : Bodies]

HomeTypeOK ==
    /\ mode \in Modes
    /\ log \in Seq(LogRow)
    /\ acked \in [Nodes -> Nat]

HomeInit ==
    /\ mode \in Modes
    /\ log = << >>
    /\ acked = [n \in Nodes |-> 0]

-----------------------------------------------------------------------------
Logged(m) == \E i \in DOMAIN log : log[i].id = m

(***************************************************************************)
(* append of one envelope (the engine never sends more at once).  The      *)
(* duplicate test comes first, so a retry of a stored id succeeds in every *)
(* mode; a new id is refused while the channel is paused.                  *)
(***************************************************************************)
\* Mutant of StoreNew: no duplicate test.
StoreNewAgain(m) ==
    /\ mode # "paused"
    /\ log' = Append(log, [id |-> m, status |-> IF mode = "intercept" THEN "held" ELSE "delivered",
                           body |-> "original"])
    /\ UNCHANGED <<mode, acked>>

StoreNew(m) ==
    /\ ~Logged(m)
    /\ mode # "paused"
    /\ log' = Append(log, [id |-> m,
                           status |-> IF mode = "intercept" THEN "held" ELSE "delivered",
                           body |-> "original"])
    /\ UNCHANGED <<mode, acked>>

RepeatStored(m) == Logged(m) /\ UNCHANGED homeVars

AppendMessage(m) == StoreNew(m) \/ RepeatStored(m)

(***************************************************************************)
(* The positions a pull from after reads: rows in seq order, up to the     *)
(* first held row, until PullLimit messages that are not dropped were      *)
(* found.                                                                  *)
(***************************************************************************)
HeldUpTo(after, i) == \E j \in (after + 1)..i : log[j].status = "held"

\* Mutant of Reached: a held row does not stop the pull.
ReachedPastHeld(after) ==
    {i \in DOMAIN log :
        /\ after < i /\ i <= after + ScanLimit
        /\ Cardinality({j \in (after + 1)..(i - 1) : log[j].status # "dropped"}) < PullLimit}

Reached(after) ==
    {i \in DOMAIN log :
        /\ after < i
        /\ i <= after + ScanLimit
        /\ ~HeldUpTo(after, i)
        /\ Cardinality({j \in (after + 1)..(i - 1) : log[j].status # "dropped"}) < PullLimit}

\* Mutant of PulledRows: the first position after the cursor is left out.
PulledRowsOffByOne(after) ==
    {[seq |-> i, id |-> log[i].id, status |-> log[i].status, body |-> log[i].body] :
        i \in {j \in Reached(after) : log[j].status # "dropped" /\ j > after + 1}}

PulledRows(after) ==
    {[seq |-> i, id |-> log[i].id, status |-> log[i].status, body |-> log[i].body] :
        i \in {j \in Reached(after) : log[j].status # "dropped"}}

\* The head a pull reports: the last position it read, after when it read none.
IsHead(after, h) ==
    /\ h \in Reached(after) \cup {after}
    /\ \A i \in Reached(after) : i <= h

AckCursor(n, h) ==
    /\ acked' = [acked EXCEPT ![n] = IF h > @ THEN h ELSE @]
    /\ UNCHANGED <<mode, log>>

\* Mutant of ResolveHeld: no test that the row is still held.
ResolveAny(i, resolution) ==
    /\ i \in DOMAIN log
    /\ log' = [log EXCEPT
                ![i].status = IF resolution = "drop" THEN "dropped" ELSE "delivered",
                ![i].body = IF resolution = "edit" THEN "edited" ELSE @]
    /\ UNCHANGED <<mode, acked>>

\* The human gate: a held row is released, released with an edited body, or dropped.
ResolveHeld(i, resolution) ==
    /\ i \in DOMAIN log
    /\ log[i].status = "held"
    /\ log' = [log EXCEPT
                ![i].status = IF resolution = "drop" THEN "dropped" ELSE "delivered",
                ![i].body = IF resolution = "edit" THEN "edited" ELSE @]
    /\ UNCHANGED <<mode, acked>>

SetMode(x) ==
    /\ mode' = x
    /\ UNCHANGED <<log, acked>>
=============================================================================
