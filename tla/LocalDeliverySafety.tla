------------------------ MODULE LocalDeliverySafety ------------------------
(***************************************************************************)
(* The safety invariant of LocalDelivery (SafeInv) holds for every set of  *)
(* messages, nodes and tasks, every limit and every number of crashes.     *)
(* One lemma per conjunct; two lemmas describe a step once and for all:    *)
(* MirrorStep (who writes the mirror) and JobStep (how a call moves on).   *)
(*                                                                         *)
(* Delivery itself, in the second part, provided no crash separates the    *)
(* two inserts of a message: nothing is skipped and nothing overtakes      *)
(* (CoverInv), and the engines with the hub implement the ordered mailbox. *)
(***************************************************************************)
EXTENDS LocalDelivery, FiniteSetTheorems, TLAPS

\* The log is a finite sequence of rows: its positions are 1..Len(log).
LEMMA LogRows == ASSUME HomeTypeOK PROVE /\ DOMAIN log = 1..Len(log) /\ Len(log) \in Nat
      /\ \A i \in DOMAIN log : log[i] \in LogRow /\ i \in Nat
  <1>1. log \in Seq(LogRow) BY DEF HomeTypeOK
  <1>2. QED BY <1>1
\* pullAfter: what a pull returns are rows of the log as they stand, none of them dropped.
LEMMA PulledRowsType ==
    ASSUME HomeTypeOK, NEW after \in Nat
    PROVE  /\ PulledRows(after) \subseteq PulledRow
           /\ Reached(after) \subseteq DOMAIN log
           /\ \A r \in PulledRows(after) :
                /\ r.seq \in DOMAIN log
                /\ r.seq \in Reached(after)
                /\ log[r.seq] = [id |-> r.id, status |-> r.status, body |-> r.body]
                /\ r.status # "dropped"
  <1>1. Reached(after) \subseteq DOMAIN log
    BY DEF Reached
  <1>2. \A i \in Reached(after) : log[i] \in LogRow /\ i \in Nat
    BY <1>1, LogRows
  <1>3. QED
    BY <1>1, <1>2 DEF PulledRows, PulledRow, LogRow

-----------------------------------------------------------------------------
\* Every operation of the engine and of the hub keeps every field in its type.
LEMMA TypeStep == TypeOK /\ [Next]_vars => TypeOK'
  <1> SUFFICES ASSUME TypeOK, [Next]_vars PROVE TypeOK'
    OBVIOUS
  <1>1. HomeTypeOK /\ mode \in Modes /\ log \in Seq(LogRow) /\ acked \in [Nodes -> Nat]
    BY DEF TypeOK, HomeTypeOK
  <1>2. \A t \in Tasks : /\ NodeOf[t] \in Nodes
                         /\ job[t] \in Job /\ job[t].head \in Nat
                         /\ job[t].rest \subseteq PulledRow /\ job[t].row \subseteq PulledRow
    BY DeliveryAssumption DEF TypeOK, DeliveryAssumption, Job
  <1>3. \A r \in PulledRow : r.seq \in Nat /\ r.id \in Messages /\ r.status \in Statuses /\ r.body \in Bodies
    BY DEF PulledRow
  <1>4. ASSUME NEW t \in Tasks, NEW j \in Job, Goto(t, j) PROVE job' \in [Tasks -> Job]
    BY <1>4 DEF Goto, TypeOK
  <1>5. Idle \in Job
    BY DEF Idle, Job, Steps
  <1>6. ASSUME NEW t \in Tasks, NEW r PROVE Done(t, r) \in Job
    BY <1>2 DEF Done, Job, Steps
  <1>7. ASSUME NEW n \in Nodes, NEW r \in PulledRow, NEW x \in Statuses, InsertMirror(n, r, x, r.body)
        PROVE mirror' \in [Nodes -> [Messages -> MirrorRow \cup {NoRow}]]
    <2>1. [seq |-> r.seq, status |-> x, body |-> r.body] \in MirrorRow
      BY <1>3 DEF MirrorRow
    <2>2. QED
      BY <1>3, <1>7, <2>1 DEF InsertMirror, TypeOK
  <1>8. UNCHANGED homeVars => HomeTypeOK'
    BY <1>1 DEF homeVars, HomeTypeOK
  <1>a. ASSUME NEW t \in Tasks, SendMirror(t) PROVE TypeOK'
    BY <1>a, <1>2, <1>3, <1>4, <1>5, <1>7, <1>8 DEF SendMirror, TypeOK
  <1>b. ASSUME NEW t \in Tasks, SyncStep(t) PROVE TypeOK'
    <2>1. CASE SyncBegin(t)
      <3>1. [Idle EXCEPT !.pc = "pull", !.head = cursor[NodeOf[t]]] \in Job
        BY <1>2 DEF Idle, Job, Steps, TypeOK
      <3>2. QED
        BY <2>1, <3>1, <1>4, <1>8 DEF SyncBegin, nodeVars, TypeOK
    <2>2. CASE SyncPull(t)
      <3>1. ASSUME NEW h \in Reached(job[t].head) \cup {job[t].head}
            PROVE [Idle EXCEPT !.pc = "scan", !.head = h, !.rest = PulledRows(job[t].head)] \in Job
        BY <1>1, <1>2, PulledRowsType, LogRows DEF Idle, Job, Steps
      <3>2. QED
        BY <2>2, <3>1, <1>4, <1>8 DEF SyncPull, nodeVars, TypeOK
    <2>3. CASE SyncOwn(t)
      <3> PICK r \in job[t].rest : RefreshOwn(NodeOf[t], r) /\ Goto(t, Done(t, r))
        BY <2>3 DEF SyncOwn
      <3>1. [seq |-> r.seq, status |-> r.status, body |-> r.body] \in MirrorRow
        BY <1>2, <1>3 DEF MirrorRow
      <3>2. mirror' \in [Nodes -> [Messages -> MirrorRow \cup {NoRow}]]
        BY <3>1, <1>2, <1>3 DEF RefreshOwn, TypeOK
      <3>3. QED
        BY <2>3, <3>2, <1>4, <1>6, <1>8 DEF SyncOwn, TypeOK
    <2>4. CASE SyncSkip(t)
      BY <2>4, <1>4, <1>6, <1>8 DEF SyncSkip, nodeVars, TypeOK
    <2>5. CASE SyncExpire(t)
      <3> PICK r \in job[t].rest : /\ InsertMirror(NodeOf[t], r, "dropped", r.body)
                                   /\ expired' = [expired EXCEPT ![NodeOf[t]] = @ \cup {r.id}]
                                   /\ Goto(t, Done(t, r))
        BY <2>5 DEF SyncExpire
      <3>1. expired' \in [Nodes -> SUBSET Messages]
        BY <1>2, <1>3 DEF TypeOK
      <3>2. mirror' \in [Nodes -> [Messages -> MirrorRow \cup {NoRow}]]
        BY <1>2, <1>3, <1>7 DEF Statuses
      <3>3. QED
        BY <2>5, <3>1, <3>2, <1>4, <1>6, <1>8 DEF SyncExpire, TypeOK
    <2>6. CASE SyncTake(t)
      <3>1. ASSUME NEW r \in job[t].rest PROVE [job[t] EXCEPT !.pc = "mirror", !.row = {r}] \in Job
        BY <1>2 DEF Job, Steps
      <3>2. QED
        BY <2>6, <3>1, <1>4, <1>8 DEF SyncTake, nodeVars, TypeOK
    <2>7. CASE SyncMirror(t)
      <3>1. [job[t] EXCEPT !.pc = "inbox"] \in Job
        BY <1>2 DEF Job, Steps
      <3>2. mirror' \in [Nodes -> [Messages -> MirrorRow \cup {NoRow}]]
        BY <2>7, <1>2, <1>3, <1>7 DEF SyncMirror, Statuses
      <3>3. QED
        BY <2>7, <3>1, <3>2, <1>4, <1>8 DEF SyncMirror, TypeOK
    <2>8. CASE SyncInbox(t)
      <3> PICK r \in job[t].row : /\ InsertInbox(NodeOf[t], r.id)
                                  /\ arrived' = [arrived EXCEPT ![NodeOf[t]] = @ \cup {r.id}]
                                  /\ Goto(t, Done(t, r))
        BY <2>8 DEF SyncInbox
      <3>1. r.id \in Messages /\ NodeOf[t] \in Nodes
        BY <1>2, <1>3
      <3>2. arrived' \in [Nodes -> SUBSET Messages]
        BY <3>1 DEF TypeOK
      <3>3. inbox' \in [Nodes -> SUBSET InboxRow]
        <4>1. CASE UNCHANGED inbox
          BY <4>1 DEF TypeOK
        <4>2. CASE ~UNCHANGED inbox
          <5> PICK k \in {1} \cup {b.rowid + 1 : b \in inbox[NodeOf[t]]} :
                inbox' = [inbox EXCEPT ![NodeOf[t]] = @ \cup {[rowid |-> k, id |-> r.id, consumed |-> FALSE]}]
            BY <4>2 DEF InsertInbox
          <5>1. inbox[NodeOf[t]] \subseteq InboxRow
            BY <3>1 DEF TypeOK
          <5>2. k \in Nat
            BY <5>1 DEF InboxRow
          <5>3. [rowid |-> k, id |-> r.id, consumed |-> FALSE] \in InboxRow
            BY <3>1, <5>2 DEF InboxRow
          <5>4. QED
            BY <5>1, <5>3 DEF TypeOK
        <4>3. QED
          BY <4>1, <4>2
      <3>4. QED
        BY <2>8, <3>2, <3>3, <1>4, <1>6, <1>8 DEF SyncInbox, TypeOK
    <2>9. CASE SyncAck(t)
      <3>1. [job[t] EXCEPT !.pc = "advance"] \in Job
        BY <1>2 DEF Job, Steps
      <3>2. acked' \in [Nodes -> Nat] /\ UNCHANGED <<mode, log>>
        BY <2>9, <1>1, <1>2 DEF SyncAck, AckCursor
      <3>3. HomeTypeOK'
        BY <1>1, <3>2 DEF HomeTypeOK
      <3>4. QED
        BY <2>9, <3>1, <3>3, <1>4 DEF SyncAck, nodeVars, TypeOK
    <2>10. CASE SyncAdvance(t)
      <3>1. cursor' \in [Nodes -> Nat]
        BY <2>10, <1>2 DEF SyncAdvance, TypeOK
      <3>2. inbox' \in [Nodes -> SUBSET InboxRow]
        BY <2>10, <1>2 DEF SyncAdvance, TypeOK
      <3>3. QED
        BY <2>10, <3>1, <3>2, <1>4, <1>5, <1>8 DEF SyncAdvance, TypeOK
    <2>11. QED
      BY <1>b, <2>1, <2>2, <2>3, <2>4, <2>5, <2>6, <2>7, <2>8, <2>9, <2>10 DEF SyncStep
  <1>c. ASSUME NEW t \in Tasks, GateMirror(t) PROVE TypeOK'
    <2> PICK r \in job[t].row :
        mirror' = IF ~Known(NodeOf[t], r.id) THEN mirror
                  ELSE [mirror EXCEPT ![NodeOf[t]][r.id].status = r.status,
                                      ![NodeOf[t]][r.id].body = r.body]
      BY <1>c DEF GateMirror
    <2>1. NodeOf[t] \in Nodes /\ r.id \in Messages /\ r.status \in Statuses /\ r.body \in Bodies
      BY <1>2, <1>3
    <2>2. Known(NodeOf[t], r.id) => mirror[NodeOf[t]][r.id] \in MirrorRow
      BY <2>1 DEF TypeOK, Known
    <2>3. mirror' \in [Nodes -> [Messages -> MirrorRow \cup {NoRow}]]
      BY <2>1, <2>2 DEF TypeOK, MirrorRow
    <2>4. QED
      BY <1>c, <2>3, <1>4, <1>5, <1>8 DEF GateMirror, TypeOK
  <1>d. ASSUME NEW t \in Tasks, Crash(t) PROVE TypeOK'
    BY <1>d, <1>4, <1>5, <1>8, DeliveryAssumption DEF Crash, nodeVars, TypeOK, DeliveryAssumption
  <1>e. ASSUME NEW t \in Clients, NEW m \in Messages, SendAppend(t, m) PROVE TypeOK'
    <2>1. log' \in Seq(LogRow) /\ HomeTypeOK'
      <3>1. CASE StoreNew(m)
        <4> DEFINE row == [id |-> m, status |-> IF mode = "intercept" THEN "held" ELSE "delivered", body |-> "original"]
        <4>1. row \in LogRow
          BY DEF LogRow, Statuses, Bodies
        <4>2. log' = Append(log, row)
          BY <3>1 DEF StoreNew
        <4>3. log' \in Seq(LogRow)
          BY <1>1, <4>1, <4>2
        <4>4. QED
          BY <3>1, <4>3, <1>1 DEF StoreNew, HomeTypeOK
      <3>2. CASE RepeatStored(m)
        BY <3>2, <1>1, <1>8 DEF RepeatStored, homeVars
      <3>3. QED
        BY <1>e, <3>1, <3>2 DEF SendAppend, AppendMessage
    <2>2. ASSUME NEW i \in DOMAIN log'
          PROVE [Idle EXCEPT !.pc = "sent",
                     !.row = {[seq |-> i, id |-> m, status |-> log'[i].status, body |-> "original"]}] \in Job
      <3>1. log'[i] \in LogRow /\ i \in Nat
        BY <2>1
      <3> DEFINE answer == [seq |-> i, id |-> m, status |-> log'[i].status, body |-> "original"]
      <3>2. answer \in PulledRow
        BY <3>1 DEF PulledRow, LogRow, Bodies
      <3> HIDE DEF answer
      <3>3. [Idle EXCEPT !.pc = "sent", !.row = {answer}] \in Job
        BY <3>2 DEF Idle, Job, Steps
      <3>4. QED
        BY <3>3 DEF answer
    <2>3. t \in Tasks
      BY DEF Tasks
    <2>4. QED
      BY <1>e, <2>1, <2>2, <2>3, <1>4 DEF SendAppend, nodeVars, TypeOK
  <1>f. ASSUME NEW t \in Clients, NEW i \in DOMAIN log, NEW x \in Resolutions, GateResolve(t, i, x) PROVE TypeOK'
    <2>1. log[i] \in LogRow /\ i \in Nat
      BY <1>1, LogRows
    <2>2. [log[i] EXCEPT !.status = IF x = "drop" THEN "dropped" ELSE "delivered",
                         !.body = IF x = "edit" THEN "edited" ELSE @] \in LogRow
      BY <2>1 DEF LogRow, Statuses, Bodies
    <2>3. log' = [log EXCEPT ![i] = [log[i] EXCEPT !.status = IF x = "drop" THEN "dropped" ELSE "delivered",
                         !.body = IF x = "edit" THEN "edited" ELSE @]]
      BY <1>f DEF GateResolve, ResolveHeld
    <2>4. log' \in Seq(LogRow)
      BY <1>1, <2>2, <2>3
    <2>5. HomeTypeOK'
      BY <1>f, <1>1, <2>4 DEF GateResolve, ResolveHeld, HomeTypeOK
    <2>6. log'[i] \in LogRow
      BY <1>1, <2>2, <2>3
    <2> DEFINE answer == [seq |-> i, id |-> log[i].id, status |-> log'[i].status, body |-> log'[i].body]
    <2>10. answer \in PulledRow
      BY <2>1, <2>6 DEF PulledRow, LogRow
    <2> HIDE DEF answer
    <2>11. [Idle EXCEPT !.pc = "resolved", !.row = {answer}] \in Job
      BY <2>10 DEF Idle, Job, Steps
    <2>7. [Idle EXCEPT !.pc = "resolved",
                 !.row = {[seq |-> i, id |-> log[i].id, status |-> log'[i].status, body |-> log'[i].body]}] \in Job
      BY <2>11 DEF answer
    <2>8. t \in Tasks
      BY DEF Tasks
    <2>9. QED
      BY <1>f, <2>5, <2>7, <2>8, <1>4 DEF GateResolve, nodeVars, TypeOK
  <1>g. ASSUME NEW n \in Nodes, NEW m \in Messages, Consume(n, m) PROVE TypeOK'
    <2> PICK b \in inbox[n] : inbox' = [inbox EXCEPT ![n] = (@ \ {b}) \cup {[b EXCEPT !.consumed = TRUE]}]
      BY <1>g DEF Consume
    <2>1. inbox[n] \subseteq InboxRow
      BY DEF TypeOK
    <2>2. [b EXCEPT !.consumed = TRUE] \in InboxRow
      BY <2>1 DEF InboxRow
    <2>3. inbox' \in [Nodes -> SUBSET InboxRow]
      BY <2>1, <2>2 DEF TypeOK
    <2>4. QED
      BY <1>g, <2>3, <1>8 DEF Consume, TypeOK
  <1>h. ASSUME NEW x \in Modes, SetChannelMode(x) PROVE TypeOK'
    BY <1>h, <1>1 DEF SetChannelMode, SetMode, nodeVars, TypeOK, HomeTypeOK
  <1>i. CASE UNCHANGED vars
    BY <1>i, <1>8 DEF vars, nodeVars, TypeOK
  <1>j. QED
    BY <1>a, <1>b, <1>c, <1>d, <1>e, <1>f, <1>g, <1>h, <1>i DEF Next

-----------------------------------------------------------------------------
\* The home's log changes only by a new row or by a human decision.
LEMMA LogWrites ==
    ASSUME [Next]_vars
    PROVE  \/ log' = log
           \/ \E m \in Messages : StoreNew(m)
           \/ \E i \in DOMAIN log, x \in Resolutions : ResolveHeld(i, x)
  BY DEF Next, vars, homeVars, SendMirror, GateMirror, Crash, SyncStep, SyncBegin, SyncPull,
         SyncOwn, SyncSkip, SyncExpire, SyncTake, SyncMirror, SyncInbox, SyncAck, SyncAdvance,
         AckCursor, SendAppend, AppendMessage, RepeatStored, GateResolve, Consume, SetChannelMode, SetMode

\* append and resolveHeld: the log only grows by one new id at its end, and a row that is not
\* held never changes again.
LEMMA LogStep ==
    ASSUME TypeOK, [Next]_vars
    PROVE  /\ Len(log') \in Nat /\ DOMAIN log' = 1..Len(log') /\ Len(log) <= Len(log')
           /\ \A i \in DOMAIN log :
                /\ i \in DOMAIN log'
                /\ log'[i].id = log[i].id
                /\ log[i].status # "held" => log'[i] = log[i]
           /\ \A i \in DOMAIN log' :
                i \notin DOMAIN log => /\ i = Len(log) + 1
                                       /\ \A j \in DOMAIN log : log[j].id # log'[i].id
  <1>1. log \in Seq(LogRow) /\ Len(log) \in Nat /\ DOMAIN log = 1..Len(log)
    BY LogRows DEF TypeOK, HomeTypeOK
  <1>2. CASE log' = log
    BY <1>1, <1>2
  <1>3. ASSUME NEW m \in Messages, StoreNew(m)
        PROVE  \E row \in LogRow : log' = Append(log, row) /\ row.id = m /\ ~Logged(m)
    <2> DEFINE row == [id |-> m, status |-> IF mode = "intercept" THEN "held" ELSE "delivered", body |-> "original"]
    <2>1. row \in LogRow /\ row.id = m
      BY DEF LogRow, Statuses, Bodies
    <2>2. QED
      BY <1>3, <2>1 DEF StoreNew
  <1>4. CASE \E m \in Messages : StoreNew(m)
    <2> PICK m \in Messages, row \in LogRow : log' = Append(log, row) /\ row.id = m /\ ~Logged(m)
      BY <1>3, <1>4
    <2>1. /\ Len(log') = Len(log) + 1 /\ DOMAIN log' = 1..(Len(log) + 1)
          /\ \A i \in 1..Len(log) : log'[i] = log[i]
          /\ log'[Len(log) + 1] = row
      BY <1>1
    <2>2. \A j \in DOMAIN log : log[j].id # m
      BY DEF Logged
    <2>3. QED
      BY <1>1, <2>1, <2>2
  <1>5. CASE \E i \in DOMAIN log, x \in Resolutions : ResolveHeld(i, x)
    <2> PICK i \in DOMAIN log, x \in Resolutions : ResolveHeld(i, x)
      BY <1>5
    <2>1. log' = [log EXCEPT ![i] = [log[i] EXCEPT !.status = IF x = "drop" THEN "dropped" ELSE "delivered",
                         !.body = IF x = "edit" THEN "edited" ELSE @]]
      BY DEF ResolveHeld
    <2>2. log[i] \in LogRow /\ log[i].status = "held"
      BY LogRows DEF ResolveHeld, TypeOK
    <2>3. log'[i].id = log[i].id
      BY <1>1, <2>1, <2>2 DEF LogRow
    <2>4. DOMAIN log' = DOMAIN log /\ Len(log') = Len(log) /\ \A j \in DOMAIN log : j # i => log'[j] = log[j]
      BY <1>1, <2>1
    <2>5. QED
      BY <1>1, <2>2, <2>3, <2>4
  <1>6. QED
    BY <1>2, <1>4, <1>5, LogWrites

\* How the cursors and the heads of the calls in flight can move in one step.
LEMMA HeadStep ==
    ASSUME TypeOK, [Next]_vars
    PROVE  /\ \A n \in Nodes :
                \/ cursor'[n] = cursor[n]
                \/ \E t \in Tasks : NodeOf[t] = n /\ job[t].pc = "advance" /\ cursor'[n] = job[t].head
           /\ \A n \in Nodes :
                /\ acked[n] <= acked'[n]
                /\ \/ acked'[n] = acked[n]
                   \/ \E t \in Tasks : NodeOf[t] = n /\ acked'[n] = job[t].head
           /\ \A t \in Tasks :
                \/ job'[t].head = 0
                \/ job'[t].head = job[t].head
                   /\ (job'[t].pc = "advance" => job[t].pc = "advance" \/ job[t].head <= acked'[NodeOf[t]])
                \/ job'[t].head = cursor[NodeOf[t]] /\ job'[t].pc = "pull"
                \/ job'[t].head \in Reached(job[t].head) /\ job'[t].pc = "scan"
  <1>1. \A t \in Tasks : /\ NodeOf[t] \in Nodes /\ job[t] \in Job /\ job[t].head \in Nat
    BY DeliveryAssumption DEF TypeOK, DeliveryAssumption, Job
  <1>2. job \in [Tasks -> Job] /\ cursor \in [Nodes -> Nat] /\ acked \in [Nodes -> Nat]
    BY DEF TypeOK, HomeTypeOK
  <1>3. Clients \subseteq Tasks
    BY DEF Tasks
  <1> DEFINE Moves(t) ==
        \/ job'[t].head = 0
        \/ job'[t].head = job[t].head
           /\ (job'[t].pc = "advance" => job[t].pc = "advance" \/ job[t].head <= acked'[NodeOf[t]])
        \/ job'[t].head = cursor[NodeOf[t]] /\ job'[t].pc = "pull"
        \/ job'[t].head \in Reached(job[t].head) /\ job'[t].pc = "scan"
      Goes(j, t) ==
        \/ j.head = 0
        \/ j.head = job[t].head
           /\ (j.pc = "advance" => job[t].pc = "advance" \/ job[t].head <= acked'[NodeOf[t]])
        \/ j.head = cursor[NodeOf[t]] /\ j.pc = "pull"
        \/ j.head \in Reached(job[t].head) /\ j.pc = "scan"
  <1>4. ASSUME NEW t \in Tasks, NEW j, Goto(t, j), Goes(j, t) PROVE \A u \in Tasks : Moves(u)
    <2>1. \A u \in Tasks : job'[u] = IF u = t THEN j ELSE job[u]
      BY <1>2, <1>4 DEF Goto
    <2>2. Moves(t)
      BY <1>4, <2>1
    <2>3. \A u \in Tasks : u # t => Moves(u)
      BY <2>1
    <2>4. QED
      BY <2>2, <2>3
  <1>5. \A u \in Tasks : Moves(u)
    <2>1. ASSUME NEW t \in Tasks, SyncStep(t) PROVE \A u \in Tasks : Moves(u)
      <3>1. CASE SyncBegin(t)
        BY <3>1, <1>1, <1>4 DEF SyncBegin, Idle
      <3>2. CASE SyncPull(t)
        BY <3>2, <1>1, <1>4 DEF SyncPull, Idle
      <3>3. ASSUME NEW r, Goto(t, Done(t, r)) PROVE \A u \in Tasks : Moves(u)
        BY <3>3, <1>1, <1>4 DEF Done, Job
      <3>4. CASE SyncOwn(t) \/ SyncSkip(t) \/ SyncExpire(t) \/ SyncInbox(t)
        BY <3>3, <3>4 DEF SyncOwn, SyncSkip, SyncExpire, SyncInbox
      <3>5. CASE SyncTake(t)
        BY <3>5, <1>1, <1>4 DEF SyncTake, Job
      <3>6. CASE SyncMirror(t)
        BY <3>6, <1>1, <1>4 DEF SyncMirror, Job
      <3>7. CASE SyncAck(t)
        <4>1. job[t].head <= acked'[NodeOf[t]]
          BY <3>7, <1>1, <1>2 DEF SyncAck, AckCursor
        <4>2. QED
          BY <3>7, <4>1, <1>1, <1>4 DEF SyncAck, Job
      <3>8. CASE SyncAdvance(t)
        BY <3>8, <1>4 DEF SyncAdvance, Idle
      <3>9. QED
        BY <2>1, <3>1, <3>2, <3>4, <3>5, <3>6, <3>7, <3>8 DEF SyncStep
    <2>2. ASSUME NEW t \in Tasks, SendMirror(t) \/ GateMirror(t) \/ Crash(t) PROVE \A u \in Tasks : Moves(u)
      BY <2>2, <1>4 DEF SendMirror, GateMirror, Crash, Idle
    <2>3. ASSUME NEW t \in Clients, NEW m \in Messages, SendAppend(t, m) PROVE \A u \in Tasks : Moves(u)
      BY <2>3, <1>3, <1>4 DEF SendAppend, Idle
    <2>4. ASSUME NEW t \in Clients, NEW i \in DOMAIN log, NEW x \in Resolutions, GateResolve(t, i, x)
          PROVE \A u \in Tasks : Moves(u)
      BY <2>4, <1>3, <1>4 DEF GateResolve, Idle
    <2>5. CASE UNCHANGED job
      BY <2>5
    <2>6. QED
      BY <2>1, <2>2, <2>3, <2>4, <2>5 DEF Next, vars, Consume, SetChannelMode
  <1>6. \A n \in Nodes :
            \/ cursor'[n] = cursor[n]
            \/ \E t \in Tasks : NodeOf[t] = n /\ job[t].pc = "advance" /\ cursor'[n] = job[t].head
    <2>1. CASE UNCHANGED cursor
      BY <2>1
    <2>2. ASSUME NEW t \in Tasks, SyncAdvance(t)
          PROVE \A n \in Nodes : cursor'[n] = cursor[n] \/ (NodeOf[t] = n /\ job[t].pc = "advance" /\ cursor'[n] = job[t].head)
      BY <2>2, <1>1, <1>2 DEF SyncAdvance
    <2>3. UNCHANGED cursor \/ \E t \in Tasks : SyncAdvance(t)
      BY DEF Next, vars, nodeVars, SendMirror, GateMirror, Crash, SyncStep, SyncBegin, SyncPull,
             SyncOwn, SyncSkip, SyncExpire, SyncTake, SyncMirror, SyncInbox, SyncAck,
             SendAppend, GateResolve, Consume, SetChannelMode
    <2>4. QED
      BY <2>1, <2>2, <2>3
  <1>7. \A n \in Nodes :
            /\ acked[n] <= acked'[n]
            /\ \/ acked'[n] = acked[n]
               \/ \E t \in Tasks : NodeOf[t] = n /\ acked'[n] = job[t].head
    <2>1. CASE UNCHANGED acked
      BY <2>1, <1>2
    <2>2. ASSUME NEW t \in Tasks, SyncAck(t)
          PROVE \A n \in Nodes : acked[n] <= acked'[n] /\ (acked'[n] = acked[n] \/ (NodeOf[t] = n /\ acked'[n] = job[t].head))
      BY <2>2, <1>1, <1>2 DEF SyncAck, AckCursor
    <2>3. UNCHANGED acked \/ \E t \in Tasks : SyncAck(t)
      BY DEF Next, vars, homeVars, SendMirror, GateMirror, Crash, SyncStep, SyncBegin, SyncPull,
             SyncOwn, SyncSkip, SyncExpire, SyncTake, SyncMirror, SyncInbox, SyncAdvance,
             SendAppend, AppendMessage, StoreNew, RepeatStored, GateResolve, ResolveHeld, Consume, SetChannelMode, SetMode
    <2>4. QED
      BY <2>1, <2>2, <2>3
  <1>8. QED
    BY <1>5, <1>6, <1>7

-----------------------------------------------------------------------------
\* append tests for a duplicate before it inserts, so one id never has two seqs.
LEMMA UniqueStep == TypeOK /\ UniqueIds /\ [Next]_vars => UniqueIds'
  <1> SUFFICES ASSUME TypeOK, UniqueIds, [Next]_vars,
                      NEW i \in DOMAIN log', NEW j \in DOMAIN log', log'[i].id = log'[j].id
               PROVE  i = j
    BY DEF UniqueIds
  <1>1. CASE i \in DOMAIN log /\ j \in DOMAIN log
    BY <1>1, LogStep DEF UniqueIds
  <1>2. CASE i \notin DOMAIN log \/ j \notin DOMAIN log
    BY <1>2, LogStep
  <1>3. QED
    BY <1>1, <1>2

\* syncOnce acknowledges at the home before it stores its cursor, and never beyond the log.
LEMMA BoundStep ==
    TypeOK /\ HeadBounded /\ AckedBeforeCursor /\ [Next]_vars => HeadBounded' /\ AckedBeforeCursor'
  <1> SUFFICES ASSUME TypeOK, HeadBounded, AckedBeforeCursor, [Next]_vars
               PROVE  HeadBounded' /\ AckedBeforeCursor'
    OBVIOUS
  <1>1. TypeOK'
    BY TypeStep
  <1>2. \A t \in Tasks : NodeOf[t] \in Nodes /\ job[t].head \in Nat /\ job'[t].head \in Nat
    BY <1>1, DeliveryAssumption DEF TypeOK, DeliveryAssumption, Job
  <1>3. \A n \in Nodes : cursor[n] \in Nat /\ acked[n] \in Nat /\ cursor'[n] \in Nat /\ acked'[n] \in Nat
    BY <1>1 DEF TypeOK, HomeTypeOK
  <1>4. Len(log) \in Nat /\ Len(log') \in Nat /\ Len(log) <= Len(log') /\ DOMAIN log = 1..Len(log)
    BY LogStep, LogRows DEF TypeOK
  <1>5. \A t \in Tasks : Reached(job[t].head) \subseteq DOMAIN log
    BY DEF Reached
  <1>6. AckedBeforeCursor'
    <2> SUFFICES ASSUME NEW n \in Nodes PROVE cursor'[n] <= acked'[n] /\ acked'[n] <= Len(log')
      BY DEF AckedBeforeCursor
    <2>1. acked'[n] <= Len(log')
      BY <1>2, <1>3, <1>4, HeadStep DEF HeadBounded, AckedBeforeCursor
    <2>2. cursor'[n] <= acked'[n]
      BY <1>2, <1>3, HeadStep DEF HeadBounded, AckedBeforeCursor
    <2>3. QED
      BY <2>1, <2>2
  <1>7. HeadBounded'
    <2> SUFFICES ASSUME NEW t \in Tasks
                 PROVE  /\ job'[t].head <= Len(log')
                        /\ job'[t].pc = "advance" => job'[t].head <= acked'[NodeOf[t]]
      BY DEF HeadBounded
    <2>1. cursor[NodeOf[t]] <= Len(log) /\ job[t].head <= Len(log)
      BY <1>2, <1>3, <1>4 DEF AckedBeforeCursor, HeadBounded
    <2>2. job'[t].head <= Len(log')
      BY <2>1, <1>2, <1>3, <1>4, <1>5, HeadStep
    <2>3. job'[t].pc = "advance" => job'[t].head <= acked'[NodeOf[t]]
      BY <1>2, <1>3, HeadStep DEF HeadBounded
    <2>4. QED
      BY <2>2, <2>3
  <1>8. QED
    BY <1>6, <1>7

\* pullAfter stops at the first held row, so no cursor, acknowledgement or pull passes it.
LEMMA BarrierStep ==
    TypeOK /\ HeadBounded /\ AckedBeforeCursor /\ HeldBarrier /\ [Next]_vars => HeldBarrier'
  <1> SUFFICES ASSUME TypeOK, HeadBounded, AckedBeforeCursor, HeldBarrier, [Next]_vars,
                      NEW i \in DOMAIN log', log'[i].status = "held"
               PROVE  /\ \A n \in Nodes : cursor'[n] < i /\ acked'[n] < i
                      /\ \A t \in Tasks : job'[t].head < i
    BY DEF HeldBarrier
  <1>1. TypeOK'
    BY TypeStep
  <1>2. \A t \in Tasks : NodeOf[t] \in Nodes /\ job[t].head \in Nat /\ job'[t].head \in Nat
    BY <1>1, DeliveryAssumption DEF TypeOK, DeliveryAssumption, Job
  <1>3. \A n \in Nodes : cursor[n] \in Nat /\ acked[n] \in Nat /\ cursor'[n] \in Nat /\ acked'[n] \in Nat
    BY <1>1 DEF TypeOK, HomeTypeOK
  <1>4. Len(log) \in Nat /\ DOMAIN log = 1..Len(log) /\ DOMAIN log' = 1..Len(log')
    BY LogStep, LogRows DEF TypeOK
  <1>5. /\ \A n \in Nodes : cursor[n] < i /\ acked[n] < i
        /\ \A t \in Tasks : job[t].head < i
    <2>1. CASE i \in DOMAIN log
      BY <2>1, LogStep DEF HeldBarrier
    <2>2. CASE i \notin DOMAIN log
      <3>1. i = Len(log) + 1
        BY <2>2, LogStep
      <3>2. QED
        BY <3>1, <1>2, <1>3, <1>4 DEF HeadBounded, AckedBeforeCursor
    <2>3. QED
      BY <2>1, <2>2
  <1>6. ASSUME NEW t \in Tasks, NEW h \in Reached(job[t].head) PROVE h < i
    <2>1. h \in DOMAIN log /\ ~HeldUpTo(job[t].head, h)
      BY DEF Reached
    <2>2. CASE i \in DOMAIN log
      <3>1. log[i].status = "held"
        BY <2>2, LogStep
      <3>2. i \notin (job[t].head + 1)..h
        BY <2>1, <3>1 DEF HeldUpTo
      <3>3. QED
        BY <2>1, <2>2, <3>2, <1>2, <1>4, <1>5
    <2>3. CASE i \notin DOMAIN log
      BY <2>1, <2>3, <1>4, LogStep
    <2>4. QED
      BY <2>2, <2>3
  <1>7. ASSUME NEW n \in Nodes PROVE cursor'[n] < i /\ acked'[n] < i
    BY <1>2, <1>3, <1>5, HeadStep
  <1>8. ASSUME NEW t \in Tasks PROVE job'[t].head < i
    <2>1. 0 < i
      BY <1>4
    <2>2. QED
      BY <2>1, <1>2, <1>5, <1>6, HeadStep
  <1>9. QED
    BY <1>7, <1>8

-----------------------------------------------------------------------------
\* The three ways a mirror row of (n, m) is written: by send, by syncOnce, by the human gate.
SentCopy(n, m) ==
    \E t \in Tasks : NodeOf[t] = n /\ job[t].pc = "sent" /\ \E r \in job[t].row :
        r.id = m /\ mirror'[n][m] = [seq |-> r.seq, status |-> r.status, body |-> r.body]

PulledCopy(n, m) ==
    \E t \in Tasks : NodeOf[t] = n /\ \E r \in job[t].rest, x \in Statuses :
        /\ r.id = m
        /\ mirror'[n][m] = [seq |-> r.seq, status |-> x, body |-> r.body]
        /\ From[m] = n => Known(n, m) /\ x = r.status

DecidedCopy(n, m) ==
    \E t \in Tasks : NodeOf[t] = n /\ job[t].pc = "resolved" /\ \E r \in job[t].row :
        /\ r.id = m /\ Known(n, m)
        /\ mirror'[n][m] = [seq |-> mirror[n][m].seq, status |-> r.status, body |-> r.body]

\* Every write of a mirror row is one of the three.
LEMMA MirrorStep ==
    ASSUME TypeOK, JobShape, [Next]_vars, NEW n \in Nodes, NEW m \in Messages
    PROVE  mirror'[n][m] = mirror[n][m] \/ SentCopy(n, m) \/ PulledCopy(n, m) \/ DecidedCopy(n, m)
  <1>1. \A t \in Tasks : /\ NodeOf[t] \in Nodes /\ job[t] \in Job
                         /\ job[t].rest \subseteq PulledRow /\ job[t].row \subseteq PulledRow
    BY DeliveryAssumption DEF TypeOK, DeliveryAssumption, Job
  <1>2. \A r \in PulledRow : r.seq \in Nat /\ r.id \in Messages /\ r.status \in Statuses /\ r.body \in Bodies
    BY DEF PulledRow
  <1>3. mirror \in [Nodes -> [Messages -> MirrorRow \cup {NoRow}]]
    BY DEF TypeOK
  <1>4. ASSUME NEW k \in Nodes, NEW r \in PulledRow, NEW x, InsertMirror(k, r, x, r.body)
        PROVE  \/ mirror'[n][m] = mirror[n][m]
               \/ /\ n = k /\ m = r.id /\ ~Known(n, m)
                  /\ mirror'[n][m] = [seq |-> r.seq, status |-> x, body |-> r.body]
    BY <1>2, <1>3, <1>4 DEF InsertMirror
  <1> SUFFICES ASSUME mirror'[n][m] # mirror[n][m]
               PROVE  SentCopy(n, m) \/ PulledCopy(n, m) \/ DecidedCopy(n, m)
    OBVIOUS
  <1>5. ASSUME NEW t \in Tasks, SendMirror(t)
        PROVE  SentCopy(n, m)
    <2> PICK r \in job[t].row : InsertMirror(NodeOf[t], r, r.status, r.body)
      BY <1>5 DEF SendMirror
    <2>1. n = NodeOf[t] /\ m = r.id /\ mirror'[n][m] = [seq |-> r.seq, status |-> r.status, body |-> r.body]
      BY <1>1, <1>4
    <2>2. QED
      BY <1>5, <2>1 DEF SendMirror, SentCopy
  <1>6. ASSUME NEW t \in Tasks, SyncOwn(t)
        PROVE  PulledCopy(n, m)
    <2> PICK r \in job[t].rest : RefreshOwn(NodeOf[t], r)
      BY <1>6 DEF SyncOwn
    <2>1. r.id \in Messages /\ r.status \in Statuses /\ NodeOf[t] \in Nodes
      BY <1>1, <1>2
    <2>2. /\ Known(NodeOf[t], r.id)
          /\ mirror' = [mirror EXCEPT ![NodeOf[t]][r.id] = [seq |-> r.seq, status |-> r.status, body |-> r.body]]
      BY DEF RefreshOwn
    <2>3. n = NodeOf[t] /\ m = r.id /\ mirror'[n][m] = [seq |-> r.seq, status |-> r.status, body |-> r.body]
      BY <1>3, <2>1, <2>2
    <2>4. QED
      BY <2>1, <2>2, <2>3 DEF PulledCopy
  <1>7. ASSUME NEW t \in Tasks, SyncExpire(t) \/ SyncMirror(t)
        PROVE  PulledCopy(n, m)
    <2>1. \E r \in job[t].rest, x \in Statuses :
            InsertMirror(NodeOf[t], r, x, r.body) /\ AddressedTo(NodeOf[t], r.id)
      <3>1. CASE SyncExpire(t)
        BY <3>1 DEF SyncExpire, Wanted, Statuses
      <3>2. CASE SyncMirror(t)
        <4> PICK r \in job[t].row : InsertMirror(NodeOf[t], r, "delivered", r.body)
          BY <3>2 DEF SyncMirror
        <4>1. job[t].pc = "mirror"
          BY <3>2 DEF SyncMirror
        <4>2. IsNext(t, r) /\ AddressedTo(NodeOf[t], r.id)
          BY <4>1 DEF JobShape
        <4>3. QED
          BY <4>2 DEF IsNext, Statuses
      <3>3. QED
        BY <1>7, <3>1, <3>2
    <2> PICK r \in job[t].rest, x \in Statuses : InsertMirror(NodeOf[t], r, x, r.body) /\ AddressedTo(NodeOf[t], r.id)
      BY <2>1
    <2>2. n = NodeOf[t] /\ m = r.id /\ mirror'[n][m] = [seq |-> r.seq, status |-> x, body |-> r.body]
      BY <1>1, <1>4
    <2>3. QED
      BY <2>2 DEF AddressedTo, PulledCopy
  <1>8. ASSUME NEW t \in Tasks, GateMirror(t)
        PROVE  DecidedCopy(n, m)
    <2> PICK r \in job[t].row :
        mirror' = IF ~Known(NodeOf[t], r.id) THEN mirror
                  ELSE [mirror EXCEPT ![NodeOf[t]][r.id].status = r.status,
                                      ![NodeOf[t]][r.id].body = r.body]
      BY <1>8 DEF GateMirror
    <2>1. r.id \in Messages /\ NodeOf[t] \in Nodes
      BY <1>1, <1>2
    <2>2. Known(NodeOf[t], r.id) /\ mirror[NodeOf[t]][r.id] \in MirrorRow
      BY <1>3, <2>1 DEF Known
    <2>3. /\ n = NodeOf[t] /\ m = r.id
          /\ mirror'[n][m] = [seq |-> mirror[n][m].seq, status |-> r.status, body |-> r.body]
      BY <1>3, <2>1, <2>2 DEF MirrorRow
    <2>4. QED
      BY <1>8, <2>2, <2>3 DEF GateMirror, DecidedCopy
  <1>9. \E t \in Tasks : SendMirror(t) \/ SyncOwn(t) \/ SyncExpire(t) \/ SyncMirror(t) \/ GateMirror(t)
    BY DEF Next, vars, nodeVars, Crash, SyncStep, SyncBegin, SyncPull, SyncSkip, SyncTake, SyncInbox,
           SyncAck, SyncAdvance, SendAppend, GateResolve, Consume, SetChannelMode
  <1>10. QED
    BY <1>5, <1>6, <1>7, <1>8, <1>9

\* A mirror row, once inserted, stays.
LEMMA KnownStep ==
    ASSUME TypeOK, JobShape, [Next]_vars, NEW n \in Nodes, NEW m \in Messages, Known(n, m)
    PROVE  Known(n, m)'
  <1>1. mirror[n][m] \in MirrorRow
    BY DEF TypeOK, Known
  <1>3. ASSUME NEW s \in Nat, NEW x \in Statuses, NEW b \in Bodies PROVE [seq |-> s, status |-> x, body |-> b] # NoRow
    BY DeliveryAssumption DEF DeliveryAssumption
  <1>4. ASSUME NEW t \in Tasks, NEW r \in job[t].row \cup job[t].rest
        PROVE  r.seq \in Nat /\ r.status \in Statuses /\ r.body \in Bodies
    BY DEF TypeOK, Job, PulledRow
  <1>5. mirror[n][m].seq \in Nat
    BY <1>1 DEF MirrorRow
  <1>6. CASE mirror'[n][m] = mirror[n][m]
    BY <1>6 DEF Known
  <1>7. ASSUME NEW t \in Tasks, NEW r \in job[t].row, NEW s \in Nat,
               mirror'[n][m] = [seq |-> s, status |-> r.status, body |-> r.body]
        PROVE  Known(n, m)'
    BY <1>3, <1>4, <1>7 DEF Known
  <1>8. ASSUME NEW t \in Tasks, NEW r \in job[t].rest, NEW x \in Statuses,
               mirror'[n][m] = [seq |-> r.seq, status |-> x, body |-> r.body]
        PROVE  Known(n, m)'
    BY <1>3, <1>4, <1>8 DEF Known
  <1>9. CASE SentCopy(n, m)
    <2> PICK t \in Tasks : \E r \in job[t].row :
            mirror'[n][m] = [seq |-> r.seq, status |-> r.status, body |-> r.body]
      BY <1>9 DEF SentCopy
    <2> QED
      BY <1>4, <1>7
  <1>10. CASE PulledCopy(n, m)
    <2> PICK t \in Tasks : \E r \in job[t].rest, x \in Statuses :
            mirror'[n][m] = [seq |-> r.seq, status |-> x, body |-> r.body]
      BY <1>10 DEF PulledCopy
    <2> QED
      BY <1>8
  <1>11. CASE DecidedCopy(n, m)
    <2> PICK t \in Tasks : \E r \in job[t].row :
            mirror'[n][m] = [seq |-> mirror[n][m].seq, status |-> r.status, body |-> r.body]
      BY <1>11 DEF DecidedCopy
    <2> QED
      BY <1>5, <1>7
  <1>12. QED
    BY <1>6, <1>9, <1>10, <1>11, MirrorStep

\* syncOnce and the human gate write into a receiver's mirror only what was released.
LEMMA CopyStep ==
    TypeOK /\ UniqueIds /\ JobShape /\ PulledFaithful /\ AnswerFaithful /\ ReleasedCopy /\ [Next]_vars => ReleasedCopy'
  <1> SUFFICES ASSUME TypeOK, UniqueIds, JobShape, PulledFaithful, AnswerFaithful, ReleasedCopy, [Next]_vars,
                      NEW n \in Nodes, NEW m \in Messages, From[m] # n, Known(n, m)'
               PROVE  \E i \in DOMAIN log' : /\ log'[i].id = m
                                             /\ log'[i].status = "delivered"
                                             /\ mirror'[n][m].seq = i
                                             /\ mirror'[n][m].body = log'[i].body
    BY DEF ReleasedCopy
  <1>0. mirror'[n][m] # NoRow
    BY DEF Known
  <1>1. CASE mirror'[n][m] = mirror[n][m]
    <2>1. Known(n, m)
      BY <1>0, <1>1 DEF Known
    <2>2. PICK i \in DOMAIN log : /\ log[i].id = m /\ log[i].status = "delivered"
                                  /\ mirror[n][m].seq = i /\ mirror[n][m].body = log[i].body
      BY <2>1 DEF ReleasedCopy
    <2>3. i \in DOMAIN log' /\ log'[i] = log[i]
      BY <2>2, LogStep
    <2>4. QED
      BY <1>1, <2>2, <2>3
  <1>2. ASSUME NEW t \in Tasks, NodeOf[t] = n, NEW r \in job[t].rest, NEW x \in Statuses, r.id = m,
               mirror'[n][m] = [seq |-> r.seq, status |-> x, body |-> r.body]
        PROVE  \E i \in DOMAIN log' : /\ log'[i].id = m /\ log'[i].status = "delivered"
                                      /\ mirror'[n][m].seq = i /\ mirror'[n][m].body = log'[i].body
    <2>1. r.seq \in DOMAIN log /\ log[r.seq] = [id |-> r.id, status |-> "delivered", body |-> r.body]
      BY DEF PulledFaithful
    <2>2. r.seq \in DOMAIN log' /\ log'[r.seq] = log[r.seq]
      BY <2>1, LogStep
    <2>3. QED
      BY <1>2, <2>1, <2>2
  <1>3. ASSUME NEW t \in Tasks, NodeOf[t] = n, job[t].pc = "sent", NEW r \in job[t].row, r.id = m
        PROVE  FALSE
    BY <1>3 DEF AnswerFaithful
  <1>4. ASSUME NEW t \in Tasks, NodeOf[t] = n, job[t].pc = "resolved", NEW r \in job[t].row, r.id = m, Known(n, m),
               mirror'[n][m] = [seq |-> mirror[n][m].seq, status |-> r.status, body |-> r.body]
        PROVE  \E i \in DOMAIN log' : /\ log'[i].id = m /\ log'[i].status = "delivered"
                                      /\ mirror'[n][m].seq = i /\ mirror'[n][m].body = log'[i].body
    <2>1. PICK i \in DOMAIN log : /\ log[i].id = m /\ log[i].status = "delivered"
                                  /\ mirror[n][m].seq = i /\ mirror[n][m].body = log[i].body
      BY <1>4 DEF ReleasedCopy
    <2>2. r.seq \in DOMAIN log /\ log[r.seq].id = m /\ log[r.seq].body = r.body
      BY <1>4 DEF AnswerFaithful
    <2>3. mirror[n][m] \in MirrorRow
      BY <1>4 DEF TypeOK, Known
    <2>4. i \in DOMAIN log' /\ log'[i] = log[i]
      BY <2>1, LogStep
    <2>5. QED
      BY <1>4, <2>1, <2>2, <2>3, <2>4 DEF UniqueIds, MirrorRow
  <1>5. CASE SentCopy(n, m)
    BY <1>3, <1>5 DEF SentCopy
  <1>6. CASE PulledCopy(n, m)
    <2> PICK t \in Tasks : NodeOf[t] = n /\ \E r \in job[t].rest, x \in Statuses :
            r.id = m /\ mirror'[n][m] = [seq |-> r.seq, status |-> x, body |-> r.body]
      BY <1>6 DEF PulledCopy
    <2> QED
      BY <1>2
  <1>7. CASE DecidedCopy(n, m)
    <2> PICK t \in Tasks : NodeOf[t] = n /\ job[t].pc = "resolved" /\ \E r \in job[t].row :
            /\ r.id = m /\ Known(n, m)
            /\ mirror'[n][m] = [seq |-> mirror[n][m].seq, status |-> r.status, body |-> r.body]
      BY <1>7 DEF DecidedCopy
    <2> QED
      BY <1>4
  <1>8. QED
    BY <1>1, <1>5, <1>6, <1>7, MirrorStep

-----------------------------------------------------------------------------
\* send, syncOnce and the human gate keep the sender's record behind the home.
LEMMA SenderStep ==
    TypeOK /\ UniqueIds /\ JobShape /\ PulledFaithful /\ AnswerFaithful /\ SenderNeverAhead /\ [Next]_vars
        => SenderNeverAhead'
  <1> DEFINE Shown(m, s, x) == \E i \in DOMAIN log : log[i].id = m /\ s = i /\ x \in {"held", log[i].status}
  <1> SUFFICES ASSUME TypeOK, UniqueIds, JobShape, PulledFaithful, AnswerFaithful, SenderNeverAhead, [Next]_vars,
                      NEW m \in Messages, Known(From[m], m)'
               PROVE  \E i \in DOMAIN log' : /\ log'[i].id = m
                                             /\ mirror'[From[m]][m].seq = i
                                             /\ mirror'[From[m]][m].status \in {"held", log'[i].status}
    BY DEF SenderNeverAhead
  <1>1. From[m] \in Nodes
    BY HomeAssumption DEF HomeAssumption
  <1>2. SUFFICES \E i \in DOMAIN log : /\ log[i].id = m
                                       /\ mirror'[From[m]][m].seq = i
                                       /\ mirror'[From[m]][m].status \in {"held", log[i].status}
    BY <1>2, LogStep
  <1>3. Known(From[m], m) => \E i \in DOMAIN log : /\ log[i].id = m
                                                   /\ mirror[From[m]][m].seq = i
                                                   /\ mirror[From[m]][m].status \in {"held", log[i].status}
    BY DEF SenderNeverAhead
  <1>4. CASE mirror'[From[m]][m] = mirror[From[m]][m]
    BY <1>3, <1>4 DEF Known
  <1>5. CASE SentCopy(From[m], m)
    <2> PICK t \in Tasks : job[t].pc = "sent" /\ \E r \in job[t].row :
            r.id = m /\ mirror'[From[m]][m] = [seq |-> r.seq, status |-> r.status, body |-> r.body]
      BY <1>5 DEF SentCopy
    <2> PICK r \in job[t].row :
            r.id = m /\ mirror'[From[m]][m] = [seq |-> r.seq, status |-> r.status, body |-> r.body]
      OBVIOUS
    <2>1. r.seq \in DOMAIN log /\ log[r.seq].id = m /\ r.status \in {"held", log[r.seq].status}
      BY DEF AnswerFaithful
    <2> QED
      BY <2>1
  <1>6. CASE PulledCopy(From[m], m)
    <2> PICK t \in Tasks : \E r \in job[t].rest :
            r.id = m /\ mirror'[From[m]][m] = [seq |-> r.seq, status |-> r.status, body |-> r.body]
      BY <1>6 DEF PulledCopy
    <2> PICK r \in job[t].rest :
            r.id = m /\ mirror'[From[m]][m] = [seq |-> r.seq, status |-> r.status, body |-> r.body]
      OBVIOUS
    <2>1. /\ r.seq \in DOMAIN log /\ r.status = "delivered"
          /\ log[r.seq] = [id |-> r.id, status |-> "delivered", body |-> r.body]
      BY DEF PulledFaithful
    <2> QED
      BY <2>1
  <1>7. CASE DecidedCopy(From[m], m)
    <2> PICK t \in Tasks : job[t].pc = "resolved" /\ \E r \in job[t].row :
            /\ r.id = m /\ Known(From[m], m)
            /\ mirror'[From[m]][m] = [seq |-> mirror[From[m]][m].seq, status |-> r.status, body |-> r.body]
      BY <1>7 DEF DecidedCopy
    <2> PICK r \in job[t].row :
            /\ r.id = m /\ Known(From[m], m)
            /\ mirror'[From[m]][m] = [seq |-> mirror[From[m]][m].seq, status |-> r.status, body |-> r.body]
      OBVIOUS
    <2>1. r.seq \in DOMAIN log /\ log[r.seq].id = m /\ log[r.seq].status = r.status
      BY DEF AnswerFaithful
    <2> PICK i \in DOMAIN log : log[i].id = m /\ mirror[From[m]][m].seq = i
      BY <1>3
    <2>2. i = r.seq
      BY <2>1 DEF UniqueIds
    <2> QED
      BY <2>1, <2>2
  <1>8. QED
    BY <1>1, <1>4, <1>5, <1>6, <1>7, MirrorStep

-----------------------------------------------------------------------------
\* What one step may do to the call a task is in.
Fields(j, pc, head, rest, row) == j.pc = pc /\ j.head = head /\ j.rest = rest /\ j.row = row
Kept(u) == job'[u] = job[u]
Stopped(u) == job'[u] = Idle
Began(u) == Fields(job'[u], "pull", cursor[NodeOf[u]], {}, {})
Pulled(u) ==
    /\ job[u].pc = "pull"
    /\ \E h \in Reached(job[u].head) \cup {job[u].head} :
        /\ IsHead(job[u].head, h)
        /\ Fields(job'[u], "scan", h, PulledRows(job[u].head), {})
Handled(u) ==
    /\ job[u].pc \in {"scan", "inbox"}
    /\ \E r : /\ IsNext(u, r)
              /\ Fields(job'[u], "scan", job[u].head, job[u].rest \ {r}, {})
              /\ AddressedTo(NodeOf[u], r.id) =>
                    \/ Known(NodeOf[u], r.id)
                    \/ r.id \in expired'[NodeOf[u]] \cup arrived'[NodeOf[u]]
Took(u) ==
    /\ job[u].pc = "scan"
    /\ \E r : /\ IsNext(u, r) /\ AddressedTo(NodeOf[u], r.id)
              /\ Fields(job'[u], "mirror", job[u].head, job[u].rest, {r})
Stored(u) ==
    /\ job[u].pc = "mirror"
    /\ Fields(job'[u], "inbox", job[u].head, job[u].rest, job[u].row)
    /\ \A r \in job[u].row : Known(NodeOf[u], r.id)'
Acknowledged(u) ==
    /\ job[u].pc = "scan" /\ job[u].rest = {}
    /\ Fields(job'[u], "advance", job[u].head, {}, job[u].row)
Sent(u) ==
    \E m \in Messages, i \in DOMAIN log' :
        /\ log'[i].id = m /\ From[m] = NodeOf[u]
        /\ Fields(job'[u], "sent", 0, {}, {[seq |-> i, id |-> m, status |-> log'[i].status, body |-> "original"]})
Decided(u) ==
    \E i \in DOMAIN log :
        /\ log'[i].status # "held"
        /\ Fields(job'[u], "resolved", 0, {}, {[seq |-> i, id |-> log[i].id, status |-> log'[i].status, body |-> log'[i].body]})

JobMove(u) ==
    \/ Kept(u) \/ Stopped(u) \/ Began(u) \/ Pulled(u) \/ Handled(u)
    \/ Took(u) \/ Stored(u) \/ Acknowledged(u) \/ Sent(u) \/ Decided(u)

\* Every step leaves every call as it is or moves it in one of ten ways.
LEMMA JobStep ==
    ASSUME TypeOK, JobShape, [Next]_vars
    PROVE  \A u \in Tasks : JobMove(u)
  <1>1. \A t \in Tasks : /\ NodeOf[t] \in Nodes /\ job[t] \in Job
                         /\ job[t].rest \subseteq PulledRow /\ job[t].row \subseteq PulledRow
    BY DeliveryAssumption DEF TypeOK, DeliveryAssumption, Job
  <1>2. ASSUME NEW t \in Tasks, NEW j, Goto(t, j), NEW u \in Tasks
        PROVE  (u = t => job'[u] = j) /\ (u # t => Kept(u))
    <2>1. job \in [Tasks -> Job] /\ job' = [job EXCEPT ![t] = j]
      BY <1>2 DEF Goto, TypeOK
    <2>2. QED
      BY <2>1 DEF Kept
  <1>3. ASSUME NEW t \in Tasks, NEW r
        PROVE  Fields(Done(t, r), "scan", job[t].head, job[t].rest \ {r}, {})
    <2>1. job[t] \in Job
      BY <1>1
    <2>2. QED
      BY <2>1 DEF Done, Job, Fields
  <1>4. \A r \in PulledRow : r.id \in Messages
    BY DEF PulledRow
  <1>5. ASSUME NEW t \in Tasks, SyncStep(t), NEW u \in Tasks PROVE JobMove(u)
    <2>1. CASE SyncBegin(t)
      <3>1. Fields([Idle EXCEPT !.pc = "pull", !.head = cursor[NodeOf[t]]], "pull", cursor[NodeOf[t]], {}, {})
        BY DEF Idle, Fields
      <3>2. QED
        BY <2>1, <3>1, <1>2 DEF SyncBegin, Began, JobMove
    <2>2. CASE SyncPull(t)
      <3> PICK h \in Reached(job[t].head) \cup {job[t].head} :
            /\ IsHead(job[t].head, h)
            /\ Goto(t, [Idle EXCEPT !.pc = "scan", !.head = h, !.rest = PulledRows(job[t].head)])
        BY <2>2 DEF SyncPull
      <3>1. Fields([Idle EXCEPT !.pc = "scan", !.head = h, !.rest = PulledRows(job[t].head)],
                   "scan", h, PulledRows(job[t].head), {})
        BY DEF Idle, Fields
      <3>2. u = t => Fields(job'[u], "scan", h, PulledRows(job[u].head), {})
        BY <3>1, <1>2
      <3>3. job[t].pc = "pull"
        BY <2>2 DEF SyncPull
      <3>4. u = t => Pulled(u)
        BY <3>2, <3>3 DEF Pulled
      <3>5. u # t => Kept(u)
        BY <1>2
      <3>6. QED
        BY <3>4, <3>5 DEF JobMove
    <2>3. CASE SyncOwn(t)
      BY <2>3, <1>2, <1>3 DEF SyncOwn, AddressedTo, Handled, JobMove
    <2>4. CASE SyncSkip(t)
      BY <2>4, <1>2, <1>3 DEF SyncSkip, Handled, JobMove
    <2>5. CASE SyncExpire(t)
      <3> PICK r \in job[t].rest : /\ IsNext(t, r) /\ Goto(t, Done(t, r))
                                   /\ expired' = [expired EXCEPT ![NodeOf[t]] = @ \cup {r.id}]
        BY <2>5 DEF SyncExpire
      <3>1. r.id \in expired'[NodeOf[t]]
        BY <1>1 DEF TypeOK
      <3>2. job[t].pc = "scan"
        BY <2>5 DEF SyncExpire
      <3>3. QED
        BY <3>1, <3>2, <1>2, <1>3 DEF Handled, JobMove
    <2>6. CASE SyncTake(t)
      <3> PICK r \in job[t].rest : /\ IsNext(t, r) /\ AddressedTo(NodeOf[t], r.id)
                                   /\ Goto(t, [job[t] EXCEPT !.pc = "mirror", !.row = {r}])
        BY <2>6 DEF SyncTake, Wanted
      <3>1. Fields([job[t] EXCEPT !.pc = "mirror", !.row = {r}], "mirror", job[t].head, job[t].rest, {r})
        BY <1>1 DEF Job, Fields
      <3>2. QED
        BY <2>6, <3>1, <1>2 DEF SyncTake, Took, JobMove
    <2>7. CASE SyncMirror(t)
      <3> PICK r \in job[t].row : InsertMirror(NodeOf[t], r, "delivered", r.body)
        BY <2>7 DEF SyncMirror
      <3>1. Fields([job[t] EXCEPT !.pc = "inbox"], "inbox", job[t].head, job[t].rest, job[t].row)
        BY <1>1 DEF Job, Fields
      <3>2. NodeOf[t] \in Nodes /\ r.id \in Messages /\ r.seq \in Nat /\ r.body \in Bodies
        BY <1>1 DEF PulledRow
      <3>3. [seq |-> r.seq, status |-> "delivered", body |-> r.body] # NoRow
        BY <3>2, DeliveryAssumption DEF DeliveryAssumption, Statuses
      <3>4. Known(NodeOf[t], r.id)'
        BY <3>2, <3>3 DEF InsertMirror, Known, TypeOK
      <3>5. \A q \in job[t].row : Known(NodeOf[t], q.id)'
        BY <3>4 DEF JobShape
      <3>6. QED
        BY <2>7, <3>1, <3>5, <1>2 DEF SyncMirror, Stored, JobMove
    <2>8. CASE SyncInbox(t)
      <3> PICK r \in job[t].row : /\ Goto(t, Done(t, r))
                                  /\ arrived' = [arrived EXCEPT ![NodeOf[t]] = @ \cup {r.id}]
        BY <2>8 DEF SyncInbox
      <3>1. r.id \in arrived'[NodeOf[t]]
        BY <1>1 DEF TypeOK
      <3>2. job[t].pc = "inbox" /\ IsNext(t, r)
        BY <2>8 DEF SyncInbox, JobShape
      <3>3. QED
        BY <3>1, <3>2, <1>2, <1>3 DEF Handled, JobMove
    <2>9. CASE SyncAck(t)
      <3>1. job[t].rest = {} => Fields([job[t] EXCEPT !.pc = "advance"], "advance", job[t].head, {}, job[t].row)
        BY <1>1 DEF Job, Fields
      <3>2. QED
        BY <2>9, <3>1, <1>2 DEF SyncAck, Acknowledged, JobMove
    <2>10. CASE SyncAdvance(t)
      BY <2>10, <1>2 DEF SyncAdvance, Stopped, JobMove
    <2>11. QED
      BY <1>5, <2>1, <2>2, <2>3, <2>4, <2>5, <2>6, <2>7, <2>8, <2>9, <2>10 DEF SyncStep
  <1>6. ASSUME NEW t \in Tasks, SendMirror(t) \/ GateMirror(t) \/ Crash(t), NEW u \in Tasks PROVE JobMove(u)
    BY <1>6, <1>2 DEF SendMirror, GateMirror, Crash, Stopped, JobMove
  <1>7. ASSUME NEW t \in Clients, NEW m \in Messages, SendAppend(t, m), NEW u \in Tasks PROVE JobMove(u)
    <2> t \in Tasks
      BY DEF Tasks
    <2> PICK i \in DOMAIN log' :
        /\ log'[i].id = m
        /\ Goto(t, [Idle EXCEPT !.pc = "sent",
                     !.row = {[seq |-> i, id |-> m, status |-> log'[i].status, body |-> "original"]}])
      BY <1>7 DEF SendAppend
    <2> DEFINE answer == [seq |-> i, id |-> m, status |-> log'[i].status, body |-> "original"]
    <2>1. Fields([Idle EXCEPT !.pc = "sent", !.row = {answer}], "sent", 0, {}, {answer})
      BY DEF Idle, Fields
    <2>2. u = t => Fields(job'[u], "sent", 0, {}, {answer})
      BY <2>1, <1>2
    <2>3. u # t => Kept(u)
      BY <1>2
    <2>4. From[m] = NodeOf[t]
      BY <1>7 DEF SendAppend
    <2>5. u = t => Sent(u)
      BY <2>2, <2>4 DEF Sent
    <2>6. QED
      BY <2>3, <2>5 DEF JobMove
  <1>8. ASSUME NEW t \in Clients, NEW i \in DOMAIN log, NEW x \in Resolutions, GateResolve(t, i, x), NEW u \in Tasks
        PROVE  JobMove(u)
    <2> t \in Tasks
      BY DEF Tasks
    <2> DEFINE answer == [seq |-> i, id |-> log[i].id, status |-> log'[i].status, body |-> log'[i].body]
    <2>1. Fields([Idle EXCEPT !.pc = "resolved", !.row = {answer}], "resolved", 0, {}, {answer})
      BY DEF Idle, Fields
    <2>2. u = t => Fields(job'[u], "resolved", 0, {}, {answer})
      BY <2>1, <1>2, <1>8 DEF GateResolve
    <2>3. u # t => Kept(u)
      BY <1>2, <1>8 DEF GateResolve
    <2>4. log'[i].status # "held"
      <3>1. log[i] \in LogRow /\ log \in Seq(LogRow)
        BY LogRows DEF TypeOK, HomeTypeOK
      <3>2. log' = [log EXCEPT ![i] = [log[i] EXCEPT !.status = IF x = "drop" THEN "dropped" ELSE "delivered",
                                                     !.body = IF x = "edit" THEN "edited" ELSE @]]
        BY <1>8 DEF GateResolve, ResolveHeld
      <3>3. log'[i] = [log[i] EXCEPT !.status = IF x = "drop" THEN "dropped" ELSE "delivered",
                                     !.body = IF x = "edit" THEN "edited" ELSE @]
        BY <3>1, <3>2
      <3>4. QED
        BY <3>1, <3>3 DEF LogRow
    <2>5. u = t => Decided(u)
      BY <2>2, <2>4 DEF Decided
    <2>6. QED
      BY <2>3, <2>5 DEF JobMove
  <1>9. ASSUME UNCHANGED job, NEW u \in Tasks PROVE JobMove(u)
    BY <1>9 DEF Kept, JobMove
  <1>10. QED
    BY <1>5, <1>6, <1>7, <1>8, <1>9 DEF Next, vars, Consume, SetChannelMode

-----------------------------------------------------------------------------
\* What JobShape says of one task.
Shape(t) ==
    /\ job[t].pc \notin Syncing => job[t].head = 0 /\ job[t].rest = {}
    /\ job[t].pc \in {"idle", "pull", "advance"} => job[t].rest = {}
    /\ job[t].pc \in {"idle", "pull", "scan", "advance"} => job[t].row = {}
    /\ \A q, r \in job[t].row : q = r
    /\ job[t].pc \in {"mirror", "inbox"} =>
        \A r \in job[t].row : IsNext(t, r) /\ AddressedTo(NodeOf[t], r.id)
    /\ job[t].pc = "inbox" => \A r \in job[t].row : Known(NodeOf[t], r.id)

\* The state a call carries between its statements keeps its shape.
LEMMA ShapeStep == TypeOK /\ JobShape /\ [Next]_vars => JobShape'
  <1> SUFFICES ASSUME TypeOK, JobShape, [Next]_vars, NEW u \in Tasks PROVE Shape(u)'
    BY DEF JobShape, Shape
  <1>1. Shape(u)
    BY DEF JobShape, Shape
  <1>2. NodeOf[u] \in Nodes /\ job[u].row \subseteq PulledRow /\ job[u].rest \subseteq PulledRow
    BY DeliveryAssumption DEF DeliveryAssumption, TypeOK, Job
  <1>3. \A r \in job[u].row : r.id \in Messages
    BY <1>2 DEF PulledRow
  <1>4. CASE Kept(u)
    <2>1. \A r \in job[u].row : Known(NodeOf[u], r.id) => Known(NodeOf[u], r.id)'
      BY <1>2, <1>3, KnownStep
    <2>2. job'[u] = job[u]
      BY <1>4 DEF Kept
    <2>3. \A r : IsNext(u, r)' <=> IsNext(u, r)
      BY <2>2 DEF IsNext
    <2>4. QED
      BY <1>1, <2>1, <2>2, <2>3 DEF Shape, AddressedTo
  <1>5. CASE Stopped(u) \/ Began(u) \/ Pulled(u) \/ Handled(u)
    BY <1>5 DEF Stopped, Began, Pulled, Handled, Fields, Idle, Syncing, Shape
  <1>6. CASE Took(u)
    BY <1>6 DEF Took, Fields, IsNext, AddressedTo, Syncing, Shape
  <1>7. CASE Stored(u)
    BY <1>1, <1>7 DEF Stored, Fields, IsNext, AddressedTo, Syncing, Shape
  <1>8. CASE Acknowledged(u)
    BY <1>1, <1>8 DEF Acknowledged, Fields, Syncing, Shape
  <1>9. CASE Sent(u) \/ Decided(u)
    BY <1>9 DEF Sent, Decided, Fields, Syncing, Shape
  <1>10. QED
    BY <1>4, <1>5, <1>6, <1>7, <1>8, <1>9, JobStep DEF JobMove

\* The rows a sync still has to handle stay what the home holds.
LEMMA PulledStep == TypeOK /\ JobShape /\ PulledFaithful /\ [Next]_vars => PulledFaithful'
  <1> SUFFICES ASSUME TypeOK, JobShape, PulledFaithful, [Next]_vars, NEW u \in Tasks, NEW r \in job'[u].rest
               PROVE  /\ r.seq \in DOMAIN log' /\ r.seq <= job'[u].head
                      /\ log'[r.seq] = [id |-> r.id, status |-> "delivered", body |-> r.body]
                      /\ r.status = "delivered"
    BY DEF PulledFaithful
  <1>1. SUFFICES /\ r.seq \in DOMAIN log /\ r.seq <= job'[u].head
                 /\ log[r.seq] = [id |-> r.id, status |-> "delivered", body |-> r.body]
                 /\ r.status = "delivered"
    BY <1>1, LogStep
  <1>2. CASE r \in job[u].rest
    <2>1. job'[u].head = job[u].head \/ Pulled(u) \/ job'[u].rest = {}
      BY JobStep DEF JobMove, Kept, Stopped, Began, Handled, Took, Stored, Acknowledged, Sent,
                     Decided, Fields, Idle
    <2>2. Pulled(u) => job[u].rest = {}
      BY DEF Pulled, JobShape
    <2>3. QED
      BY <1>2, <2>1, <2>2 DEF PulledFaithful
  <1>3. CASE Pulled(u)
    <2>1. job[u].head \in Nat /\ HomeTypeOK
      BY DEF TypeOK, Job
    <2>2. r \in PulledRows(job[u].head)
      BY <1>3 DEF Pulled, Fields
    <2>3. /\ r.seq \in DOMAIN log /\ r.seq \in Reached(job[u].head)
          /\ log[r.seq] = [id |-> r.id, status |-> r.status, body |-> r.body]
          /\ r.status # "dropped"
      BY <2>1, <2>2, PulledRowsType
    <2>4. r.seq \in Nat /\ job[u].head < r.seq /\ ~HeldUpTo(job[u].head, r.seq)
      BY <2>1, <2>3, LogRows DEF Reached
    <2>5. log[r.seq].status # "held"
      BY <2>1, <2>4 DEF HeldUpTo
    <2>6. log[r.seq] \in LogRow
      BY <2>1, <2>3, LogRows
    <2>7. r.status = "delivered"
      BY <2>3, <2>5, <2>6 DEF LogRow, Statuses
    <2>8. r.seq <= job'[u].head
      BY <1>3, <2>3 DEF Pulled, Fields, IsHead
    <2>9. QED
      BY <2>3, <2>7, <2>8
  <1>4. Pulled(u) \/ job'[u].rest \subseteq job[u].rest
    BY JobStep DEF JobMove, Kept, Stopped, Began, Pulled, Handled, Took, Stored, Acknowledged, Sent,
                   Decided, Fields, Idle
  <1>5. QED
    BY <1>2, <1>3, <1>4

\* The answer a send or a human decision carries to the mirror stays true of the home.
LEMMA AnswerStep == TypeOK /\ JobShape /\ AnswerFaithful /\ [Next]_vars => AnswerFaithful'
  <1> SUFFICES ASSUME TypeOK, JobShape, AnswerFaithful, [Next]_vars, NEW u \in Tasks,
                      job'[u].pc \in {"sent", "resolved"}, NEW r \in job'[u].row
               PROVE  /\ r.seq \in DOMAIN log'
                      /\ log'[r.seq].id = r.id
                      /\ job'[u].pc = "sent" => From[r.id] = NodeOf[u] /\ r.status \in {"held", log'[r.seq].status}
                      /\ job'[u].pc = "resolved" => /\ log'[r.seq].status = r.status
                                                    /\ log'[r.seq].body = r.body
                                                    /\ r.status # "held"
    BY DEF AnswerFaithful
  <1>1. CASE Kept(u)
    <2>1. job[u].pc = job'[u].pc /\ r \in job[u].row
      BY <1>1 DEF Kept
    <2>2. /\ r.seq \in DOMAIN log
          /\ log[r.seq].id = r.id
          /\ job'[u].pc = "sent" => From[r.id] = NodeOf[u] /\ r.status \in {"held", log[r.seq].status}
          /\ job'[u].pc = "resolved" => /\ log[r.seq].status = r.status
                                        /\ log[r.seq].body = r.body
                                        /\ r.status # "held"
      BY <2>1 DEF AnswerFaithful
    <2>3. QED
      BY <2>2, LogStep
  <1>2. CASE Sent(u)
    BY <1>2 DEF Sent, Fields
  <1>3. CASE Decided(u)
    BY <1>3, LogStep DEF Decided, Fields
  <1>4. Kept(u) \/ Sent(u) \/ Decided(u)
    BY JobStep DEF JobMove, Stopped, Began, Pulled, Handled, Took, Stored, Acknowledged, Fields, Idle
  <1>5. QED
    BY <1>1, <1>2, <1>3, <1>4

\* A new channel satisfies the safety invariant.
THEOREM InitSafe == Init => SafeInv
  <1> SUFFICES ASSUME Init PROVE SafeInv
    OBVIOUS
  <1>1. log = << >> /\ DOMAIN log = {} /\ Len(log) = 0 /\ log \in Seq(LogRow)
    BY DEF Init, HomeInit
  <1>2. HomeTypeOK
    BY <1>1 DEF Init, HomeInit, HomeTypeOK
  <1>3. Idle \in Job
    BY DEF Idle, Job, Steps
  <1>4. TypeOK
    BY <1>2, <1>3, DeliveryAssumption DEF Init, TypeOK, DeliveryAssumption
  <1>5. UniqueIds /\ HeldBarrier
    BY <1>1 DEF UniqueIds, HeldBarrier
  <1>6. JobShape /\ PulledFaithful /\ AnswerFaithful
    BY DEF Init, Idle, Syncing, JobShape, PulledFaithful, AnswerFaithful
  <1>7. HeadBounded /\ AckedBeforeCursor
    BY <1>1 DEF Init, HomeInit, Idle, HeadBounded, AckedBeforeCursor
  <1>8. ReleasedCopy
    BY DEF Init, Known, ReleasedCopy
  <1>9. SenderNeverAhead
    BY HomeAssumption DEF HomeAssumption, Init, Known, SenderNeverAhead
  <1>10. QED
    BY <1>4, <1>5, <1>6, <1>7, <1>8, <1>9 DEF SafeInv

\* The safety invariant holds in every reachable state, whatever crashes.
THEOREM Safety == Spec => []SafeInv
  <1>1. SafeInv /\ [Next]_vars => SafeInv'
    BY TypeStep, UniqueStep, ShapeStep, PulledStep, AnswerStep, BarrierStep, BoundStep, CopyStep, SenderStep
       DEF SafeInv
  <1>2. QED
    BY InitSafe, <1>1, PTL DEF Spec


\* Every variable stays in its type.
THEOREM TypeCorrect == Spec => []TypeOK
  <1>1. SafeInv => TypeOK
    BY DEF SafeInv
  <1>2. QED
    BY Safety, <1>1, PTL

\* The human gate is a barrier to every cursor and every pull in flight.
THEOREM GateHolds == Spec => []HeldBarrier
  <1>1. SafeInv => HeldBarrier
    BY DEF SafeInv
  <1>2. QED
    BY Safety, <1>1, PTL

\* A receiver's mirror holds nothing the gate did not release.
THEOREM CopiesReleased == Spec => []ReleasedCopy
  <1>1. SafeInv => ReleasedCopy
    BY DEF SafeInv
  <1>2. QED
    BY Safety, <1>1, PTL

\* The sender's record of its own message never runs ahead of the home.
THEOREM SenderBehind == Spec => []SenderNeverAhead
  <1>1. SafeInv => SenderNeverAhead
    BY DEF SafeInv
  <1>2. QED
    BY Safety, <1>1, PTL

\* A profile's cursor never passes what it acknowledged at the home.
THEOREM AckedFirst == Spec => []AckedBeforeCursor
  <1>1. SafeInv => AckedBeforeCursor
    BY DEF SafeInv
  <1>2. QED
    BY Safety, <1>1, PTL

-----------------------------------------------------------------------------
\* The history variables only grow, and only when a pulled message lands.
LEMMA ArrivedStep ==
    ASSUME TypeOK, JobShape, PulledFaithful, HeldBarrier, [Next]_vars
    PROVE  \/ arrived' = arrived
           \/ /\ log' = log
              /\ \E n \in Nodes, t \in Tasks : \E r \in job[t].rest :
                    /\ NodeOf[t] = n /\ IsNext(t, r) /\ AddressedTo(n, r.id)
                    /\ r.seq \in DOMAIN log /\ r.seq <= job[t].head
                    /\ log[r.seq].id = r.id /\ log[r.seq].status = "delivered"
                    /\ arrived' = [arrived EXCEPT ![n] = @ \cup {r.id}]
  <1>1. CASE UNCHANGED arrived
    BY <1>1
  <1>2. ASSUME NEW t \in Tasks, SyncInbox(t)
        PROVE  /\ log' = log
               /\ \E n \in Nodes, u \in Tasks : \E r \in job[u].rest :
                    /\ NodeOf[u] = n /\ IsNext(u, r) /\ AddressedTo(n, r.id)
                    /\ r.seq \in DOMAIN log /\ r.seq <= job[u].head
                    /\ log[r.seq].id = r.id /\ log[r.seq].status = "delivered"
                    /\ arrived' = [arrived EXCEPT ![n] = @ \cup {r.id}]
    <2> PICK r \in job[t].row : arrived' = [arrived EXCEPT ![NodeOf[t]] = @ \cup {r.id}]
      BY <1>2 DEF SyncInbox
    <2>1. log' = log /\ job[t].pc = "inbox"
      BY <1>2 DEF SyncInbox, homeVars
    <2>2. IsNext(t, r) /\ AddressedTo(NodeOf[t], r.id)
      BY <2>1 DEF JobShape
    <2>3. r \in job[t].rest
      BY <2>2 DEF IsNext
    <2> DEFINE e == log[r.seq]
    <2>a. r.seq \in DOMAIN log /\ r.seq <= job[t].head /\ e = [id |-> r.id, status |-> "delivered", body |-> r.body]
      BY <2>3 DEF PulledFaithful
    <2>b. e.id = r.id /\ e.status = "delivered"
      <3> HIDE DEF e
      <3> QED BY <2>a
    <2>4. /\ r.seq \in DOMAIN log /\ r.seq <= job[t].head
          /\ log[r.seq].id = r.id /\ log[r.seq].status = "delivered"
      BY <2>a, <2>b
    <2>5. NodeOf[t] \in Nodes
      BY DeliveryAssumption DEF DeliveryAssumption
    <2>6. QED
      BY <2>1, <2>2, <2>3, <2>4, <2>5
  <1>3. UNCHANGED arrived \/ \E t \in Tasks : SyncInbox(t)
    BY DEF Next, vars, nodeVars, SendMirror, GateMirror, Crash, SyncStep, SyncBegin, SyncPull, SyncOwn, SyncSkip,
           SyncExpire, SyncTake, SyncMirror, SyncAck, SyncAdvance, SendAppend, GateResolve, Consume, SetChannelMode
  <1>4. QED
    BY <1>1, <1>2, <1>3

\* The engines and the hub implement the ordered mailbox (MailboxPromise).
THEOREM Refinement == Spec => MailboxPromise
  <1>1. Init => Mailbox!MailInit
    BY DEF Init, HomeInit, Mailbox!MailInit
  <1>2. ASSUME SafeInv, [Next]_vars PROVE [Mailbox!MailNext]_(Mailbox!mailVars)
    <2> USE DEF Mailbox!mailVars
    <2>1. TypeOK /\ JobShape /\ PulledFaithful /\ HeldBarrier
      BY <1>2 DEF SafeInv
    <2>2. arrived' = arrived \/ log' = log
      BY <1>2, <2>1, ArrivedStep
    <2>3. CASE log' = log /\ arrived' = arrived
      BY <2>3
    <2>4. CASE arrived' # arrived
      <3> PICK n \in Nodes, t \in Tasks : \E r \in job[t].rest :
                    /\ NodeOf[t] = n /\ IsNext(t, r) /\ AddressedTo(n, r.id)
                    /\ r.seq \in DOMAIN log /\ r.seq <= job[t].head
                    /\ log[r.seq].id = r.id /\ log[r.seq].status = "delivered"
                    /\ arrived' = [arrived EXCEPT ![n] = @ \cup {r.id}]
        BY <1>2, <2>1, <2>4, ArrivedStep
      <3> PICK r \in job[t].rest :
                    /\ AddressedTo(n, r.id)
                    /\ r.seq \in DOMAIN log /\ r.seq <= job[t].head
                    /\ log[r.seq].id = r.id /\ log[r.seq].status = "delivered"
                    /\ arrived' = [arrived EXCEPT ![n] = @ \cup {r.id}]
        OBVIOUS
      <3>1. job[t].head \in Nat /\ \A j \in DOMAIN log : j \in Nat
        BY <2>1, LogRows DEF TypeOK, Job
      <3>2. \A j \in DOMAIN log : j < r.seq => log[j].status # "held"
        BY <2>1, <3>1 DEF HeldBarrier
      <3>3. Mailbox!Receive(n, r.seq)
        BY <2>2, <2>4, <3>2 DEF Mailbox!Receive, AddressedTo
      <3>4. QED
        BY <3>3 DEF Mailbox!MailNext
    <2>5. ASSUME NEW m \in Messages, StoreNew(m), arrived' = arrived PROVE Mailbox!MailNext
      <3>1. Mailbox!PostMessage(m)
        BY <2>5 DEF StoreNew, Logged, Mailbox!PostMessage
      <3>2. QED
        BY <3>1 DEF Mailbox!MailNext
    <2>6. ASSUME NEW i \in DOMAIN log, NEW x \in Resolutions, ResolveHeld(i, x), arrived' = arrived
          PROVE  Mailbox!MailNext
      <3> DEFINE p == [log[i] EXCEPT !.status = IF x = "drop" THEN "dropped" ELSE "delivered",
                                     !.body = IF x = "edit" THEN "edited" ELSE @]
      <3>1. log[i] \in LogRow
        BY <2>1, LogRows DEF TypeOK
      <3>2. p \in Mailbox!Post /\ p.id = log[i].id /\ p.status # "held"
        BY <3>1 DEF LogRow, Statuses, Bodies, Mailbox!Post, Mailbox!Verdicts, Mailbox!Contents
      <3>3. log' = [log EXCEPT ![i] = p] /\ log[i].status = "held"
        BY <2>6 DEF ResolveHeld
      <3> HIDE DEF p
      <3>4. Mailbox!Decide(i)
        BY <2>6, <3>2, <3>3 DEF Mailbox!Decide
      <3>5. QED
        BY <3>4 DEF Mailbox!MailNext
    <2>7. \/ log' = log
          \/ \E m \in Messages : StoreNew(m)
          \/ \E i \in DOMAIN log, x \in Resolutions : ResolveHeld(i, x)
      BY <1>2, LogWrites
    <2>8. QED
      BY <2>2, <2>3, <2>4, <2>5, <2>6, <2>7
  <1>3. QED
    BY <1>1, <1>2, Safety, PTL DEF Spec, MailboxPromise, Mailbox!MailSpec

-----------------------------------------------------------------------------
\* A settled message stays settled, as long as no crash strikes between the two inserts.
LEMMA SettledStep ==
    ASSUME ~CrashBeforeInbox, TypeOK, JobShape, [Next]_vars,
           NEW n \in Nodes, NEW m \in Messages, Settled(n, m)
    PROVE  Settled(n, m)'
  <1>0. \A t \in Tasks : NodeOf[t] \in Nodes /\ job[t].row \subseteq PulledRow /\ job[t].rest \subseteq PulledRow
    BY DeliveryAssumption DEF DeliveryAssumption, TypeOK, Job
  <1>1. m \in arrived[n] => m \in arrived'[n]
    <2>1. CASE UNCHANGED arrived
      BY <2>1
    <2>2. ASSUME NEW t \in Tasks, SyncInbox(t) PROVE m \in arrived[n] => m \in arrived'[n]
      BY <2>2, <1>0 DEF SyncInbox, TypeOK
    <2>3. UNCHANGED arrived \/ \E t \in Tasks : SyncInbox(t)
      BY DEF Next, vars, nodeVars, SendMirror, GateMirror, Crash, SyncStep, SyncBegin, SyncPull, SyncOwn, SyncSkip,
             SyncExpire, SyncTake, SyncMirror, SyncAck, SyncAdvance, SendAppend, GateResolve, Consume, SetChannelMode
    <2>4. QED
      BY <2>1, <2>2, <2>3
  <1>2. m \in expired[n] => m \in expired'[n]
    <2>1. CASE UNCHANGED expired
      BY <2>1
    <2>2. ASSUME NEW t \in Tasks, SyncExpire(t) PROVE m \in expired[n] => m \in expired'[n]
      BY <2>2, <1>0 DEF SyncExpire, TypeOK
    <2>3. UNCHANGED expired \/ \E t \in Tasks : SyncExpire(t)
      BY DEF Next, vars, nodeVars, SendMirror, GateMirror, Crash, SyncStep, SyncBegin, SyncPull, SyncOwn, SyncSkip,
             SyncInbox, SyncTake, SyncMirror, SyncAck, SyncAdvance, SendAppend, GateResolve, Consume, SetChannelMode
    <2>4. QED
      BY <2>1, <2>2, <2>3
  <1>3. ASSUME Landing(n, m) PROVE Settled(n, m)'
    <2> PICK t \in Tasks : NodeOf[t] = n /\ job[t].pc = "inbox" /\ \E r \in job[t].row : r.id = m
      BY <1>3 DEF Landing
    <2>1. CASE Kept(t)
      BY <2>1 DEF Kept, Landing, Settled
    <2>2. CASE SyncInbox(t)
      <3>1. PICK r \in job[t].row : arrived' = [arrived EXCEPT ![NodeOf[t]] = @ \cup {r.id}]
        BY <2>2 DEF SyncInbox
      <3>2. r.id = m
        BY DEF JobShape
      <3>3. QED
        BY <3>1, <3>2 DEF TypeOK, Settled
    <2>3. Kept(t) \/ SyncInbox(t)
      <3>1. ASSUME NEW u, u \in Tasks, NEW j, Goto(u, j) PROVE u # t => Kept(t)
        BY <3>1 DEF Goto, TypeOK, Kept
      <3>2. ASSUME NEW u \in Tasks, SyncStep(u) PROVE Kept(t) \/ SyncInbox(t)
        <4>1. u # t => Kept(t)
          BY <3>1, <3>2 DEF SyncStep, SyncBegin, SyncPull, SyncOwn, SyncSkip, SyncExpire, SyncTake, SyncMirror, SyncInbox,
             SyncAck, SyncAdvance
        <4>2. u = t => SyncInbox(t)
          BY <3>2 DEF SyncStep, SyncBegin, SyncPull, SyncOwn, SyncSkip, SyncExpire, SyncTake, SyncMirror, SyncAck, SyncAdvance
        <4>3. QED
          BY <4>1, <4>2
      <3>3. ASSUME NEW u \in Tasks, SendMirror(u) \/ GateMirror(u) \/ Crash(u) PROVE Kept(t)
        <4>1. u # t
          BY <3>3 DEF SendMirror, GateMirror, Crash
        <4>2. QED
          BY <3>1, <3>3, <4>1 DEF SendMirror, GateMirror, Crash
      <3>4. ASSUME NEW u \in Clients, NEW k \in Messages, SendAppend(u, k) PROVE Kept(t)
        <4>1. u \in Tasks /\ u # t
          BY <3>4 DEF SendAppend, Tasks
        <4>2. QED
          BY <3>1, <3>4, <4>1 DEF SendAppend
      <3>5. ASSUME NEW u \in Clients, NEW i \in DOMAIN log, NEW x \in Resolutions, GateResolve(u, i, x) PROVE Kept(t)
        <4>1. u \in Tasks /\ u # t
          BY <3>5 DEF GateResolve, Tasks
        <4>2. QED
          BY <3>1, <3>5, <4>1 DEF GateResolve
      <3>6. UNCHANGED job => Kept(t)
        BY DEF Kept
      <3>7. QED
        BY <3>2, <3>3, <3>4, <3>5, <3>6 DEF Next, vars, Consume, SetChannelMode
    <2>4. QED
      BY <2>1, <2>2, <2>3
  <1>4. QED
    BY <1>1, <1>2, <1>3 DEF Settled

\* The dedupe test of syncOnce is sound: a message a receiver already stored has landed, has
\* expired, or is being inserted by the process that stored it.
LEMMA KnownSettledStep ==
    ASSUME ~CrashBeforeInbox, TypeOK, JobShape, AnswerFaithful, KnownSettled, [Next]_vars
    PROVE  KnownSettled'
  <1> SUFFICES ASSUME NEW n \in Nodes, NEW m \in Messages, AddressedTo(n, m), Known(n, m)' PROVE Settled(n, m)'
    BY DEF KnownSettled, AddressedTo
  <1>1. CASE Known(n, m)
    BY <1>1, SettledStep DEF KnownSettled
  <1>2. CASE ~Known(n, m)
    <2>0. mirror'[n][m] # mirror[n][m]
      BY <1>2 DEF Known
    <2>1. ~SentCopy(n, m) /\ ~DecidedCopy(n, m)
      BY <1>2 DEF SentCopy, DecidedCopy, AnswerFaithful, AddressedTo
    <2>2. \A t \in Tasks : NodeOf[t] \in Nodes /\ job[t].row \subseteq PulledRow /\ job[t].rest \subseteq PulledRow
      BY DeliveryAssumption DEF DeliveryAssumption, TypeOK, Job
    <2>3. \A r \in PulledRow : r.id \in Messages
      BY DEF PulledRow
    <2>4. ASSUME NEW k \in Nodes, NEW r \in PulledRow, NEW x, InsertMirror(k, r, x, r.body) PROVE k = n /\ r.id = m
      BY <2>0, <2>3, <2>4 DEF InsertMirror, TypeOK
    <2>5. ASSUME NEW t \in Tasks, SyncExpire(t) PROVE Settled(n, m)'
      <3> PICK r \in job[t].rest : /\ InsertMirror(NodeOf[t], r, "dropped", r.body)
                                   /\ expired' = [expired EXCEPT ![NodeOf[t]] = @ \cup {r.id}]
        BY <2>5 DEF SyncExpire
      <3>1. NodeOf[t] = n /\ r.id = m
        BY <2>2, <2>4
      <3>2. QED
        BY <3>1 DEF TypeOK, Settled
    <2>6. ASSUME NEW t \in Tasks, SyncMirror(t) PROVE Settled(n, m)'
      <3> PICK r \in job[t].row : InsertMirror(NodeOf[t], r, "delivered", r.body)
        BY <2>6 DEF SyncMirror
      <3>1. NodeOf[t] = n /\ r.id = m
        BY <2>2, <2>4
      <3>2. job[t] \in Job /\ job \in [Tasks -> Job] /\ job' = [job EXCEPT ![t] = [job[t] EXCEPT !.pc = "inbox"]]
        BY <2>6 DEF SyncMirror, Goto, TypeOK
      <3>3. job'[t].pc = "inbox" /\ job'[t].row = job[t].row
        BY <3>2 DEF Job
      <3>4. QED
        BY <3>1, <3>3 DEF Landing, Settled
    <2>7. ASSUME NEW t \in Tasks, SendMirror(t) PROVE SentCopy(n, m)
      <3> PICK r \in job[t].row : InsertMirror(NodeOf[t], r, r.status, r.body)
        BY <2>7 DEF SendMirror
      <3>1. NodeOf[t] = n /\ r.id = m
        BY <2>2, <2>4
      <3>2. mirror'[n][m] = [seq |-> r.seq, status |-> r.status, body |-> r.body]
        BY <2>0, <3>1 DEF InsertMirror, TypeOK
      <3>3. QED
        BY <2>7, <3>1, <3>2 DEF SendMirror, SentCopy
    <2>8. ASSUME NEW t \in Tasks, SyncOwn(t) PROVE FALSE
      <3> PICK r \in job[t].rest : RefreshOwn(NodeOf[t], r)
        BY <2>8 DEF SyncOwn
      <3>1. r.id \in Messages /\ NodeOf[t] \in Nodes
        BY <2>2, <2>3
      <3>2. QED
        BY <1>2, <2>0, <3>1 DEF RefreshOwn, TypeOK
    <2>9. ASSUME NEW t \in Tasks, GateMirror(t) PROVE FALSE
      <3> PICK r \in job[t].row :
            mirror' = IF ~Known(NodeOf[t], r.id) THEN mirror
                      ELSE [mirror EXCEPT ![NodeOf[t]][r.id].status = r.status,
                                          ![NodeOf[t]][r.id].body = r.body]
        BY <2>9 DEF GateMirror
      <3>1. r.id \in Messages /\ NodeOf[t] \in Nodes
        BY <2>2, <2>3
      <3>2. QED
        BY <1>2, <2>0, <3>1 DEF TypeOK
    <2>10. \/ UNCHANGED mirror
           \/ \E t \in Tasks : SendMirror(t) \/ SyncOwn(t) \/ SyncExpire(t) \/ SyncMirror(t) \/ GateMirror(t)
      BY DEF Next, vars, nodeVars, Crash, SyncStep, SyncBegin, SyncPull, SyncSkip, SyncTake, SyncInbox,
             SyncAck, SyncAdvance, SendAppend, GateResolve, Consume, SetChannelMode
    <2>11. QED
      BY <2>0, <2>1, <2>5, <2>6, <2>7, <2>8, <2>9, <2>10
  <1>3. QED
    BY <1>1, <1>2

-----------------------------------------------------------------------------
\* A pull reads a run of consecutive positions: whatever lies below its head was read.
LEMMA ReachedClosed ==
    ASSUME HomeTypeOK, NEW after \in Nat, NEW h \in Reached(after), NEW i \in DOMAIN log, after < i, i <= h
    PROVE  i \in Reached(after)
  <1>1. h \in Nat /\ i \in Nat /\ h <= after + ScanLimit /\ ScanLimit \in Nat /\ ~HeldUpTo(after, h)
    BY LogRows, HomeAssumption DEF Reached, HomeAssumption
  <1>2. ~HeldUpTo(after, i)
    BY <1>1 DEF HeldUpTo
  <1> DEFINE Live(k) == {j \in (after + 1)..(k - 1) : log[j].status # "dropped"}
  <1>3. Live(i) \subseteq Live(h)
    BY <1>1
  <1>4. IsFiniteSet(Live(h))
    <2>1. IsFiniteSet((after + 1)..(h - 1))
      BY <1>1, FS_Interval
    <2>2. Live(h) \subseteq (after + 1)..(h - 1)
      OBVIOUS
    <2>3. QED
      BY <2>1, <2>2, FS_Subset
  <1>5. IsFiniteSet(Live(i)) /\ Cardinality(Live(i)) <= Cardinality(Live(h))
    BY <1>3, <1>4, FS_Subset
  <1>6. Cardinality(Live(i)) \in Nat /\ Cardinality(Live(h)) \in Nat
    BY <1>4, <1>5, FS_CardinalityType
  <1>7. Cardinality(Live(h)) < PullLimit /\ PullLimit \in Nat
    BY HomeAssumption DEF HomeAssumption, Reached
  <1>8. Cardinality(Live(i)) < PullLimit
    <2> HIDE DEF Live
    <2> QED BY <1>5, <1>6, <1>7
  <1>9. QED
    BY <1>1, <1>2, <1>8 DEF Reached

\* What is logged and not dropped after a step was logged and not dropped before it,
\* unless the step appended it.
LEMMA StillOpen ==
    ASSUME TypeOK, [Next]_vars, NEW i \in DOMAIN log, log'[i].status # "dropped"
    PROVE  log[i].status # "dropped" /\ log'[i].id = log[i].id /\ i \in Nat /\ 0 < i
  BY LogStep, LogRows DEF TypeOK

\* A sync in flight accounts for every message up to the head it is going to store.
LEMMA CoveredStep ==
    ASSUME ~CrashBeforeInbox, SafeInv, Covered, KnownSettled, NothingSkipped, [Next]_vars
    PROVE  Covered'
  <1> USE DEF SafeInv
  <1> SUFFICES ASSUME NEW u \in Tasks, NEW i \in DOMAIN log', NEW m, m = log'[i].id, i <= job'[u].head,
                      AddressedTo(NodeOf[u], m), log'[i].status # "dropped"
               PROVE  Settled(NodeOf[u], m)' \/ \E r \in job'[u].rest : r.seq = i
    BY DEF Covered, AddressedTo, Settled, Landing
  <1>1. NodeOf[u] \in Nodes /\ job[u].head \in Nat /\ job[u].rest \subseteq PulledRow
    BY DeliveryAssumption DEF DeliveryAssumption, TypeOK, Job
  <1>2. Len(log) \in Nat /\ DOMAIN log = 1..Len(log) /\ DOMAIN log' = 1..Len(log')
    BY LogStep, LogRows DEF TypeOK
  <1>3. job'[u].head <= Len(log)
    <2>1. Reached(job[u].head) \subseteq DOMAIN log
      BY DEF Reached
    <2>2. cursor[NodeOf[u]] <= Len(log) /\ cursor[NodeOf[u]] \in Nat /\ job[u].head <= Len(log)
      BY <1>1, <1>2 DEF AckedBeforeCursor, HeadBounded, TypeOK, HomeTypeOK
    <2>3. job'[u].head = 0 \/ job'[u].head = job[u].head \/ job'[u].head = cursor[NodeOf[u]]
            \/ job'[u].head \in Reached(job[u].head)
      BY HeadStep
    <2>4. QED
      BY <1>2, <2>1, <2>2, <2>3
  <1>4. i \in DOMAIN log
    <2>1. job'[u].head \in Nat /\ i \in Nat
      BY <1>2, TypeStep DEF TypeOK, Job
    <2>2. QED
      BY <1>2, <1>3, <2>1
  <1>5. log[i].status # "dropped" /\ log[i].id = m /\ i \in Nat /\ 0 < i
    BY <1>4, StillOpen
  <1>6. m \in Messages
    BY <1>4, <1>5, LogRows DEF TypeOK, LogRow
  <1>7. Settled(NodeOf[u], m) => Settled(NodeOf[u], m)'
    BY <1>1, <1>6, SettledStep
  <1>8. ASSUME i <= job[u].head PROVE Settled(NodeOf[u], m) \/ \E r \in job[u].rest : r.seq = i
    BY <1>4, <1>5, <1>8 DEF Covered
  <1>9. CASE Stopped(u) \/ Sent(u) \/ Decided(u)
    <2>1. job'[u].head = 0
      BY <1>9 DEF Stopped, Sent, Decided, Fields, Idle
    <2>2. QED
      BY <1>5, <2>1
  <1>10. CASE Began(u)
    <2>1. i <= cursor[NodeOf[u]]
      BY <1>10 DEF Began, Fields
    <2>2. QED
      BY <1>1, <1>4, <1>5, <1>7, <2>1 DEF NothingSkipped
  <1>11. CASE Kept(u) \/ Took(u) \/ Stored(u) \/ Acknowledged(u)
    <2>1. job'[u].head = job[u].head /\ job'[u].rest = job[u].rest
      BY <1>11 DEF Kept, Took, Stored, Acknowledged, Fields
    <2>2. QED
      BY <1>7, <1>8, <2>1
  <1>12. CASE Pulled(u)
    <2>1. job[u].rest = {}
      BY <1>12 DEF Pulled, JobShape
    <2>2. CASE i <= job[u].head
      BY <1>7, <1>8, <2>1, <2>2
    <2>3. CASE job[u].head < i
      <3> PICK h \in Reached(job[u].head) \cup {job[u].head} :
            Fields(job'[u], "scan", h, PulledRows(job[u].head), {})
        BY <1>12 DEF Pulled
      <3>1. i <= h /\ job'[u].rest = PulledRows(job[u].head)
        BY DEF Fields
      <3>2. h \in Reached(job[u].head)
        BY <1>1, <1>5, <2>3, <3>1
      <3>3. i \in Reached(job[u].head)
        BY <1>1, <1>4, <2>3, <3>1, <3>2, ReachedClosed DEF TypeOK
      <3>4. [seq |-> i, id |-> log[i].id, status |-> log[i].status, body |-> log[i].body] \in PulledRows(job[u].head)
        BY <1>5, <3>3 DEF PulledRows
      <3>5. QED
        BY <3>1, <3>4
    <2>4. QED
      BY <1>1, <1>5, <2>2, <2>3
  <1>13. CASE Handled(u)
    <2> PICK r : /\ IsNext(u, r)
                 /\ job'[u].head = job[u].head /\ job'[u].rest = job[u].rest \ {r}
                 /\ AddressedTo(NodeOf[u], r.id) =>
                        \/ Known(NodeOf[u], r.id)
                        \/ r.id \in expired'[NodeOf[u]] \cup arrived'[NodeOf[u]]
      BY <1>13 DEF Handled, Fields
    <2>1. CASE r.seq = i
      <3>1. r \in job[u].rest
        BY DEF IsNext
      <3> DEFINE e == log[r.seq]
      <3>2. e = [id |-> r.id, status |-> "delivered", body |-> r.body]
        BY <3>1 DEF PulledFaithful
      <3>3. e.id = r.id
        <4> HIDE DEF e
        <4> QED BY <3>2
      <3>4. r.id = m
        BY <1>5, <2>1, <3>3
      <3>5. CASE Known(NodeOf[u], r.id)
        BY <1>1, <1>5, <1>6, <1>7, <3>4, <3>5 DEF KnownSettled
      <3>6. CASE r.id \in expired'[NodeOf[u]] \cup arrived'[NodeOf[u]]
        BY <1>5, <3>4, <3>6 DEF Settled
      <3>7. QED
        BY <1>5, <3>4, <3>5, <3>6
    <2>2. CASE r.seq # i
      BY <1>7, <1>8, <2>2
    <2>3. QED
      BY <2>1, <2>2
  <1>14. QED
    BY <1>9, <1>10, <1>11, <1>12, <1>13, JobStep DEF JobMove

\* Storing the head as the cursor skips nothing.
LEMMA NothingSkippedStep ==
    ASSUME ~CrashBeforeInbox, SafeInv, Covered, NothingSkipped, [Next]_vars
    PROVE  NothingSkipped'
  <1> USE DEF SafeInv
  <1> SUFFICES ASSUME NEW n \in Nodes, NEW i \in DOMAIN log', NEW m, m = log'[i].id,
                      i <= cursor'[n], AddressedTo(n, m), log'[i].status # "dropped"
               PROVE  Settled(n, m)'
    BY DEF NothingSkipped, AddressedTo, Settled, Landing
  <1>1. Len(log) \in Nat /\ DOMAIN log = 1..Len(log) /\ DOMAIN log' = 1..Len(log')
    BY LogStep, LogRows DEF TypeOK
  <1>2. cursor'[n] \in Nat /\ i \in Nat /\ cursor'[n] <= Len(log)
    <2>1. cursor'[n] \in Nat /\ i \in Nat
      BY <1>1, TypeStep DEF TypeOK
    <2>2. cursor[n] <= Len(log)
      BY <1>1 DEF AckedBeforeCursor, TypeOK, HomeTypeOK
    <2>3. \A t \in Tasks : job[t].head <= Len(log)
      BY DEF HeadBounded
    <2>4. QED
      BY <2>1, <2>2, <2>3, HeadStep
  <1>3. i \in DOMAIN log
    BY <1>1, <1>2
  <1>4. log[i].status # "dropped" /\ log[i].id = m
    BY <1>3, StillOpen
  <1>5. m \in Messages
    BY <1>3, <1>4, LogRows DEF TypeOK, LogRow
  <1>6. Settled(n, m)
    <2>1. CASE cursor'[n] = cursor[n]
      BY <1>3, <1>4, <2>1 DEF NothingSkipped
    <2>2. CASE cursor'[n] # cursor[n]
      <3> PICK t \in Tasks : NodeOf[t] = n /\ job[t].pc = "advance" /\ cursor'[n] = job[t].head
        BY <2>2, HeadStep
      <3>1. job[t].rest = {}
        BY DEF JobShape
      <3>2. QED
        BY <1>3, <1>4, <3>1 DEF Covered
    <2>3. QED
      BY <2>1, <2>2
  <1>7. QED
    BY <1>5, <1>6, SettledStep

\* Only what the home logged arrives.
LEMMA ArrivedLoggedStep ==
    ASSUME SafeInv, ArrivedLogged, [Next]_vars
    PROVE  ArrivedLogged'
  <1> USE DEF SafeInv
  <1> SUFFICES ASSUME NEW n \in Nodes, NEW m \in arrived'[n] PROVE \E i \in DOMAIN log' : log'[i].id = m
    BY DEF ArrivedLogged
  <1>1. CASE m \in arrived[n]
    BY <1>1, LogStep DEF ArrivedLogged
  <1>2. CASE m \notin arrived[n]
    <2> PICK k \in Nodes, t \in Tasks : \E r \in job[t].rest :
            /\ r.seq \in DOMAIN log /\ log[r.seq].id = r.id
            /\ arrived' = [arrived EXCEPT ![k] = @ \cup {r.id}]
      BY <1>2, ArrivedStep
    <2> PICK r \in job[t].rest :
            /\ r.seq \in DOMAIN log /\ log[r.seq].id = r.id
            /\ arrived' = [arrived EXCEPT ![k] = @ \cup {r.id}]
      OBVIOUS
    <2>1. m = r.id
      BY <1>2 DEF TypeOK
    <2>2. QED
      BY <2>1, LogStep
  <1>3. QED
    BY <1>1, <1>2

\* A message lands only after everything before it that was released.
LEMMA InOrderStep ==
    ASSUME ~CrashBeforeInbox, SafeInv, Covered, ArrivedLogged, InOrder, [Next]_vars
    PROVE  InOrder'
  <1> USE DEF SafeInv
  <1> SUFFICES ASSUME NEW n \in Nodes, NEW i \in DOMAIN log', NEW j \in DOMAIN log', NEW m, m = log'[i].id, i < j,
                      AddressedTo(n, m), log'[j].id \in arrived'[n]
               PROVE  /\ log'[i].status # "held"
                      /\ log'[i].status = "delivered" => Settled(n, m)'
    BY DEF InOrder, AddressedTo, Settled, Landing
  <1>1. Len(log) \in Nat /\ DOMAIN log = 1..Len(log) /\ DOMAIN log' = 1..Len(log')
    BY LogStep, LogRows DEF TypeOK
  <1>2. UniqueIds'
    BY UniqueStep
  <1>3. CASE log'[j].id \in arrived[n]
    <2>1. PICK k \in DOMAIN log : log[k].id = log'[j].id
      BY <1>3 DEF ArrivedLogged
    <2>2. k \in DOMAIN log' /\ log'[k].id = log'[j].id
      BY <2>1, LogStep
    <2>3. k = j
      BY <1>2, <2>2 DEF UniqueIds
    <2>4. i \in DOMAIN log /\ j \in DOMAIN log /\ log[j].id = log'[j].id /\ log[i].id = m
      BY <1>1, <2>1, <2>3, LogStep
    <2>5. log[i].status # "held" /\ (log[i].status = "delivered" => Settled(n, m))
      BY <1>3, <2>4 DEF InOrder
    <2>6. log'[i] = log[i]
      BY <2>4, <2>5, LogStep
    <2>7. m \in Messages
      BY <2>4, LogRows DEF TypeOK, LogRow
    <2>8. QED
      BY <2>5, <2>6, <2>7, SettledStep
  <1>4. CASE log'[j].id \notin arrived[n]
    <2>1. log' = log
      BY <1>4, ArrivedStep
    <2> PICK k \in Nodes, t \in Tasks : \E r \in job[t].rest :
            /\ NodeOf[t] = k /\ IsNext(t, r)
            /\ r.seq \in DOMAIN log /\ r.seq <= job[t].head /\ log[r.seq].id = r.id
            /\ arrived' = [arrived EXCEPT ![k] = @ \cup {r.id}]
      BY <1>4, ArrivedStep
    <2> PICK r \in job[t].rest :
            /\ NodeOf[t] = k /\ IsNext(t, r)
            /\ r.seq \in DOMAIN log /\ r.seq <= job[t].head /\ log[r.seq].id = r.id
            /\ arrived' = [arrived EXCEPT ![k] = @ \cup {r.id}]
      OBVIOUS
    <2>2. k = n /\ r.id = log[j].id
      BY <1>4, <2>1 DEF TypeOK
    <2>3. r.seq = j
      BY <2>1, <2>2 DEF UniqueIds
    <2>4. i \in Nat /\ j \in Nat /\ job[t].head \in Nat /\ i < job[t].head
      BY <1>1, <2>3 DEF TypeOK, Job
    <2>5. log[i].status # "held"
      BY <2>1, <2>4 DEF HeldBarrier
    <2>6. \A q \in job[t].rest : q.seq # i
      <3>1. \A q \in job[t].rest : r.seq <= q.seq
        BY DEF IsNext
      <3>2. QED
        BY <2>3, <2>4, <3>1
    <2>7. log[i].status = "delivered" => Settled(n, m)
      BY <2>1, <2>2, <2>4, <2>6 DEF Covered
    <2>8. m \in Messages
      BY <2>1, LogRows DEF TypeOK, LogRow
    <2>9. QED
      BY <2>1, <2>5, <2>7, <2>8, SettledStep
  <1>5. QED
    BY <1>3, <1>4

\* The whole inductive invariant, when no crash separates the mirror insert from the inbox insert.
THEOREM AtLeastOnce == ~CrashBeforeInbox => (Spec => []IInv)
  <1> SUFFICES ASSUME ~CrashBeforeInbox PROVE Spec => []IInv
    OBVIOUS
  <1>1. Init => CoverInv
    <2> SUFFICES ASSUME Init PROVE CoverInv
      OBVIOUS
    <2>1. log = << >> /\ DOMAIN log = {}
      BY DEF Init, HomeInit
    <2>2. QED
      BY <2>1 DEF Init, Known, CoverInv, Covered, KnownSettled, NothingSkipped, ArrivedLogged, InOrder
  <1>2. SafeInv /\ CoverInv /\ [Next]_vars => CoverInv'
    <2> SUFFICES ASSUME SafeInv, CoverInv, [Next]_vars PROVE CoverInv'
      OBVIOUS
    <2>1. Covered'
      BY CoveredStep DEF CoverInv
    <2>2. KnownSettled'
      BY KnownSettledStep DEF CoverInv, SafeInv
    <2>3. NothingSkipped'
      BY NothingSkippedStep DEF CoverInv
    <2>4. ArrivedLogged' /\ InOrder'
      BY ArrivedLoggedStep, InOrderStep DEF CoverInv
    <2>5. QED
      BY <2>1, <2>2, <2>3, <2>4 DEF CoverInv
  <1>3. QED
    BY <1>1, <1>2, Safety, PTL DEF Spec, IInv


\* At least once: a cursor never moves past a message that did not land.
THEOREM NeverSkipped == ~CrashBeforeInbox => (Spec => []NothingSkipped)
  <1> SUFFICES ASSUME ~CrashBeforeInbox PROVE Spec => []NothingSkipped
    OBVIOUS
  <1>1. IInv => NothingSkipped
    BY DEF IInv, CoverInv
  <1>2. Spec => []IInv
    BY AtLeastOnce
  <1>3. QED
    BY <1>1, <1>2, PTL

\* In order: a message never lands before an earlier released one.
THEOREM NeverOvertaken == ~CrashBeforeInbox => (Spec => []InOrder)
  <1> SUFFICES ASSUME ~CrashBeforeInbox PROVE Spec => []InOrder
    OBVIOUS
  <1>1. IInv => InOrder
    BY DEF IInv, CoverInv
  <1>2. Spec => []IInv
    BY AtLeastOnce
  <1>3. QED
    BY <1>1, <1>2, PTL
=============================================================================
