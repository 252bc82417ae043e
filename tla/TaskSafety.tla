----------------------------- MODULE TaskSafety -----------------------------
(***************************************************************************)
(* Proofs about tasks: the decisions about them (TaskDecisions), for every *)
(* number of events, tool calls, authorizations and held messages, and the *)
(* two reference applications (Collaboration), for every number of         *)
(* workers, conversations and tasks.                                       *)
(*                                                                         *)
(* ParkedKept: between the acknowledgement and the end of a call its       *)
(* update was sent (SentFirst).                                            *)
(*                                                                         *)
(* TerminalLast: an undisturbed event has one call at most; as long as     *)
(* that call has not sent a terminal update nobody has, and once one was   *)
(* sent the event is in the hands of its call, or gone from the inbox and  *)
(* from pendingEvents, where only a stale snapshot brings it back.         *)
(*                                                                         *)
(* ApprovedWasDone, EndsAgree and CancelledUnanswered: every event under   *)
(* way is true of the worker it is about (MailJustified).                  *)
(***************************************************************************)
EXTENDS TaskDecisions, Collaboration, TLAPS

On(c, e) == c \in Open /\ call[c].event = e

\* The call still has to send, or what it sent does not end the task.
Unended(c) == call[c].pc = "open" \/ Sends[call[c].op] \notin Terminal

SentFirst ==
    \A c \in Open : call[c].pc # "open" => Sends[call[c].op] \in updates[call[c].event]

AckedGone == \A c \in Open : call[c].pc = "acked" => call[c].event \notin inbox

Told(e) == updates[e] \cap Terminal # {}

OneCall == \A e \in Events \ disturbed : \A c, d \in Calls : On(c, e) /\ On(d, e) => c = d

NotYet == \A e \in Events \ disturbed : \A c \in Calls : On(c, e) /\ Unended(c) => ~Told(e)

InHand ==
    \A e \in Events \ disturbed :
        Told(e) => (\E c \in Calls : On(c, e)) \/ (e \notin inbox /\ e \notin pending)

Safe ==
    /\ ParkedKept /\ SentFirst /\ AckedGone
    /\ OneCall /\ NotYet /\ InHand /\ TerminalLast

Inv == TypeOK /\ Safe

-----------------------------------------------------------------------------
\* A tool call in flight has an operation and an event.
LEMMA CallParts ==
    ASSUME TypeOK, NEW c \in Open
    PROVE  /\ call[c] \in Call /\ call[c].pc \in {"open", "sent", "acked"}
           /\ call[c].op \in Operations /\ call[c].event \in Events
  BY DEF TypeOK, Open, Call

\* What each operation sends is an update, and only one of them asks for authorization.
LEMMA OperationNames ==
    /\ Operations = {"complete", "request_input", "request_authorization", "reject"}
    /\ \A op \in Operations : Sends[op] \in Updates
    /\ \A op \in Operations : Sends[op] = "auth-required" => op = "request_authorization"
  BY DEF Operations, Sends, Updates

\* A call that is replaced keeps the calls' type.
LEMMA CallSet ==
    ASSUME TypeOK, NEW c \in Calls, NEW x \in Call \cup {Idle}
    PROVE  [call EXCEPT ![c] = x] \in [Calls -> Call \cup {Idle}]
  BY DEF TypeOK

\* A call that moves on keeps the calls' type.
LEMMA CallMoves ==
    ASSUME TypeOK, NEW c \in Open, NEW pc \in {"open", "sent", "acked"}
    PROVE  [call EXCEPT ![c].pc = pc] \in [Calls -> Call \cup {Idle}]
  BY CallParts DEF TypeOK, Call, Open

\* A fault keeps the bound of the faults.
LEMMA FaultType == ASSUME TypeOK, Fault PROVE faults' \in 0..MaxFaults
  BY DecisionsAssumption DEF TypeOK, Fault

\* What the pump still has to show only shrinks.
LEMMA PumpShrinks ==
    ASSUME TypeOK, NEW x
    PROVE  [pump EXCEPT !.rest = @ \ {x}] \in [pc : {"idle", "inbox", "approvals"}, rest : SUBSET (Events \cup Holds)]
  BY DEF TypeOK

\* The types hold before the first activation.
LEMMA InitType == Init => TypeOK
  <1> SUFFICES ASSUME Init PROVE TypeOK
    OBVIOUS
  <1>1. authorization \in [Authorizations -> Row \cup {Unused}]
    BY DEF Init
  <1>2. updates \in [Events -> SUBSET Updates]
    BY DEF Init
  <1>3. call \in [Calls -> Call \cup {Idle}]
    BY DEF Init
  <1>4. pump \in [pc : {"idle", "inbox", "approvals"}, rest : SUBSET (Events \cup Holds)]
    BY DEF Init, Asleep
  <1>5. active \in BOOLEAN
    BY DEF Init
  <1>6. faults \in 0..MaxFaults
    BY DecisionsAssumption DEF Init
  <1> QED BY <1>1, <1>2, <1>3, <1>4, <1>5, <1>6 DEF Init, TypeOK

\* The steps of the module, one by one.
LEMMA Steps ==
    ASSUME Next
    PROVE  \/ Activate \/ PollOnce \/ PushApprovals \/ EndRound \/ Refused \/ Crash
           \/ \E e \in Events : ShowWork(e)
           \/ \E h \in Holds : ShowHold(h) \/ ResolvedElsewhere(h) \/ ResolveHold(h)
           \/ \E c \in Calls :
                 \/ SendUpdate(c) \/ AckEvent(c) \/ Finish(c) \/ SendFails(c)
                 \/ \E a \in Authorizations : RecordAuthorization(c, a)
                 \/ \E op \in Operations, e \in Events : Begin(c, op, e)
                 \/ \E a \in Authorizations, d \in {"approved", "rejected"} : ResolveAuthorization(c, a, d)
  BY DEF Next, PumpStep, CallStep

\* Showing an event keeps the types.
LEMMA RegisterType ==
    ASSUME TypeOK, NEW e \in Events, Register(e)
    PROVE  pending' \subseteq Events /\ disturbed' \subseteq Events
  BY DEF TypeOK, Register

\* A call that is opened keeps the types.
LEMMA OpenCallType ==
    ASSUME TypeOK, NEW c \in Calls, NEW op \in Operations, NEW e \in Events, OpenCall(c, op, e)
    PROVE  call' \in [Calls -> Call \cup {Idle}] /\ disturbed' \subseteq Events
  <1>1. [pc |-> "open", op |-> op, event |-> e] \in Call
    BY DEF Call
  <1>2. call' = [call EXCEPT ![c] = [pc |-> "open", op |-> op, event |-> e]]
    BY DEF OpenCall
  <1>3. disturbed' \subseteq Events
    BY DEF OpenCall, TypeOK
  <1> HIDE DEF Call, Operations
  <1> QED BY <1>1, <1>2, <1>3, CallSet

\* A decision changes the status of an authorization, and nothing else of it.
LEMMA ResolveParts ==
    ASSUME TypeOK, NEW a \in Authorizations, NEW d \in {"approved", "rejected"}, Decidable(a, d)
    PROVE  /\ authorization[a] \in Row
           /\ authorization[a].event \in Events
           /\ [authorization[a] EXCEPT !.status = d] \in Row
  BY DEF TypeOK, Decidable, Row, Unused

\* Every step keeps the types.
LEMMA TypeStep == ASSUME TypeOK, Next PROVE TypeOK'
  <1>1. CASE Activate
    BY <1>1 DEF Activate, durable, TypeOK
  <1>2. CASE PollOnce
    BY <1>2 DEF PollOnce, durable, TypeOK
  <1>3. CASE PushApprovals
    BY <1>3 DEF PushApprovals, durable, TypeOK
  <1>4. CASE EndRound
    BY <1>4 DEF EndRound, Asleep, durable, TypeOK
  <1>5. CASE Refused
    <2>1. pump' \in [pc : {"idle", "inbox", "approvals"}, rest : SUBSET (Events \cup Holds)]
      BY <1>5 DEF Refused, AfterRefusal, Asleep
    <2>2. pending' \subseteq Events /\ disturbed' \subseteq Events
      BY <1>5, RegisterType DEF Refused, TypeOK
    <2> QED BY <1>5, <2>1, <2>2, FaultType DEF Refused, durable, TypeOK
  <1>6. CASE Crash
    <2>1. call' \in [Calls -> Call \cup {Idle}]
      BY <1>6 DEF Crash
    <2>2. disturbed' \subseteq Events
      BY <1>6, CallParts DEF Crash, TypeOK
    <2> QED BY <1>6, <2>1, <2>2, FaultType DEF Crash, Asleep, durable, TypeOK
  <1>7. ASSUME NEW e \in Events, ShowWork(e) PROVE TypeOK'
    <2>1. pending' \subseteq Events /\ disturbed' \subseteq Events
      BY <1>7, RegisterType DEF ShowWork, TypeOK
    <2>2. pump' \in [pc : {"idle", "inbox", "approvals"}, rest : SUBSET (Events \cup Holds)]
      BY <1>7, PumpShrinks DEF ShowWork
    <2> QED BY <1>7, <2>1, <2>2 DEF ShowWork, durable, TypeOK
  <1>8. ASSUME NEW h \in Holds, ShowHold(h) \/ ResolvedElsewhere(h) \/ ResolveHold(h) PROVE TypeOK'
    <2>1. CASE ShowHold(h)
      <3>1. pump' \in [pc : {"idle", "inbox", "approvals"}, rest : SUBSET (Events \cup Holds)]
        BY <2>1, PumpShrinks DEF ShowHold
      <3> QED BY <2>1, <3>1 DEF ShowHold, durable, TypeOK
    <2>2. CASE ResolvedElsewhere(h)
      BY <2>2 DEF ResolvedElsewhere, session, TypeOK
    <2>3. CASE ResolveHold(h)
      BY <2>3 DEF ResolveHold, TypeOK
    <2> QED BY <1>8, <2>1, <2>2, <2>3
  <1>9. ASSUME NEW c \in Calls, SendUpdate(c) PROVE TypeOK'
    <2>1. c \in Open
      BY <1>9 DEF SendUpdate, At
    <2>2. call' \in [Calls -> Call \cup {Idle}]
      BY <1>9, <2>1, CallMoves DEF SendUpdate
    <2>3. updates' \in [Events -> SUBSET Updates] /\ late' \subseteq Events
      BY <1>9, <2>1, CallParts, OperationNames DEF SendUpdate, TypeOK
    <2> QED BY <1>9, <2>2, <2>3 DEF SendUpdate, session, TypeOK
  <1>10. ASSUME NEW c \in Calls, AckEvent(c) PROVE TypeOK'
    <2>1. call' \in [Calls -> Call \cup {Idle}]
      BY <1>10, CallMoves DEF AckEvent, At
    <2> QED BY <1>10, <2>1 DEF AckEvent, session, TypeOK
  <1>11. ASSUME NEW c \in Calls, Finish(c) PROVE TypeOK'
    <2>1. call' \in [Calls -> Call \cup {Idle}]
      BY <1>11, CallSet DEF Finish
    <2> QED BY <1>11, <2>1 DEF Finish, Forget, durable, TypeOK
  <1>12. ASSUME NEW c \in Calls, SendFails(c) PROVE TypeOK'
    <2>1. call' \in [Calls -> Call \cup {Idle}]
      BY <1>12, CallSet DEF SendFails
    <2> QED BY <1>12, <2>1, FaultType DEF SendFails, durable, session, TypeOK
  <1>13. ASSUME NEW c \in Calls, NEW a \in Authorizations, RecordAuthorization(c, a) PROVE TypeOK'
    <2>1. call' \in [Calls -> Call \cup {Idle}]
      BY <1>13, CallSet DEF RecordAuthorization
    <2>2. [event |-> call[c].event, status |-> "pending"] \in Row
      BY <1>13, CallParts DEF RecordAuthorization, At, Row
    <2>3. authorization' \in [Authorizations -> Row \cup {Unused}]
      BY <1>13, <2>2 DEF RecordAuthorization, TypeOK
    <2> QED BY <1>13, <2>1, <2>3 DEF RecordAuthorization, KeepEvent, TypeOK
  <1>14. ASSUME NEW c \in Calls, NEW op \in Operations, NEW e \in Events, Begin(c, op, e) PROVE TypeOK'
    <2>1. call' \in [Calls -> Call \cup {Idle}] /\ disturbed' \subseteq Events
      BY <1>14, OpenCallType DEF Begin
    <2> QED BY <1>14, <2>1 DEF Begin, durable, session, TypeOK
  <1>15. ASSUME NEW c \in Calls, NEW a \in Authorizations, NEW d \in {"approved", "rejected"},
                ResolveAuthorization(c, a, d)
         PROVE  TypeOK'
    <2>1. Decidable(a, d)
      BY <1>15 DEF ResolveAuthorization
    <2>2. authorization' \in [Authorizations -> Row \cup {Unused}]
      BY <1>15, <2>1, ResolveParts DEF ResolveAuthorization, TypeOK
    <2>3. call' \in [Calls -> Call \cup {Idle}] /\ disturbed' \subseteq Events
      BY <1>15, <2>1, ResolveParts, OpenCallType, OperationNames DEF ResolveAuthorization, TypeOK
    <2> QED BY <1>15, <2>2, <2>3 DEF ResolveAuthorization, session, TypeOK
  <1> QED BY Steps, <1>1, <1>2, <1>3, <1>4, <1>5, <1>6, <1>7, <1>8, <1>9, <1>10, <1>11, <1>12, <1>13,
             <1>14, <1>15

-----------------------------------------------------------------------------
\* The invariant holds before the first activation.
LEMMA InitSafe == Init => Safe
  BY DEF Init, Safe, ParkedKept, SentFirst, AckedGone, OneCall, NotYet, InHand, TerminalLast, On, Told, Open

\* The steps of the pump and of the person that only touch held messages.
LEMMA Aside ==
    ASSUME Safe, UNCHANGED <<inbox, updates, late, pending, call, disturbed>>
    PROVE  Safe'
  BY DEF Safe, ParkedKept, SentFirst, AckedGone, OneCall, NotYet, InHand, TerminalLast, On, Told, Open, Unended

\* A snapshot registers an event again: undisturbed only if it is still unread, which no event is
\* whose end was told and whose call is over.
LEMMA RegisterSafe ==
    ASSUME TypeOK, Safe, NEW e \in Events, Register(e), UNCHANGED <<inbox, updates, late, call>>
    PROVE  Safe'
  <1>1. ParkedKept' /\ SentFirst' /\ AckedGone'
    BY DEF Safe, ParkedKept, SentFirst, AckedGone, Open
  <1>2. \A x \in Events \ disturbed' : x \in Events \ disturbed
    BY DEF Register
  <1>3. OneCall' /\ NotYet' /\ TerminalLast'
    BY <1>2 DEF Safe, OneCall, NotYet, TerminalLast, On, Told, Open, Unended, Register
  <1>4. InHand'
    BY <1>2 DEF Safe, InHand, On, Told, Open, Register
  <1> QED BY <1>1, <1>3, <1>4 DEF Safe

\* Calls end with the process, and their events are disturbed.
LEMMA CrashSafe == ASSUME TypeOK, Safe, Crash PROVE Safe'
  <1>1. Open' = {}
    BY DEF Crash, Open
  <1>2. ParkedKept' /\ SentFirst' /\ AckedGone' /\ OneCall' /\ NotYet' /\ TerminalLast'
    BY <1>1 DEF Safe, ParkedKept, SentFirst, AckedGone, OneCall, NotYet, TerminalLast, On, Crash, durable
  <1>3. ASSUME NEW e \in Events \ disturbed', Told(e)' PROVE e \notin inbox' /\ e \notin pending'
    <2>1. e \in Events \ disturbed /\ Told(e)
      BY <1>3 DEF Crash, durable, Told
    <2>2. \A c \in Calls : ~On(c, e)
      BY <1>3 DEF Crash, On
    <2> QED BY <2>1, <2>2 DEF Safe, InHand, Crash, durable
  <1>4. InHand'
    BY <1>3 DEF InHand
  <1> QED BY <1>2, <1>4 DEF Safe

\* A call that meets no other call is the only one on its event.
LEMMA OpenSafe ==
    ASSUME TypeOK, Safe, NEW c \in Calls, NEW op \in Operations, NEW e \in Events, OpenCall(c, op, e),
           e \in pending, UNCHANGED <<inbox, updates, late, pending>>
    PROVE  Safe'
  <1>1. call' = [call EXCEPT ![c] = [pc |-> "open", op |-> op, event |-> e]] /\ call \in [Calls -> Call \cup {Idle}]
    BY DEF OpenCall, TypeOK
  <1>2. /\ call'[c].pc = "open" /\ call'[c].event = e
        /\ \A d \in Calls : d # c => call'[d] = call[d]
    BY <1>1
  <1>3. \A x \in Events \ disturbed' : x \in Events \ disturbed
    BY DEF OpenCall
  <1>4. c \notin Open
    BY DEF OpenCall, Open
  <1>5. Open' = Open \cup {c}
    BY <1>1, <1>2, <1>4 DEF Open, Idle
  <1>6. ParkedKept' /\ SentFirst' /\ AckedGone' /\ TerminalLast'
    BY <1>2, <1>3, <1>5 DEF Safe, ParkedKept, SentFirst, AckedGone, TerminalLast, Open, OpenCall
  <1>7. e \notin disturbed' => \A d \in Calls : ~On(d, e)
    BY DEF OpenCall, On
  <1>8. \A d \in Calls, x \in Events : On(d, x)' <=> On(d, x) \/ (d = c /\ x = e)
    BY <1>2, <1>4, <1>5 DEF On, Open
  <1>9. OneCall'
    BY <1>3, <1>7, <1>8 DEF Safe, OneCall
  <1>10. NotYet'
    <2> SUFFICES ASSUME NEW x \in Events \ disturbed', NEW d \in Calls, On(d, x)', Unended(d)' PROVE ~Told(x)'
      BY DEF NotYet
    <2>1. CASE d = c
      BY <2>1, <1>2, <1>3, <1>7 DEF Safe, InHand, On, Told
    <2>2. CASE d # c
      BY <2>2, <1>2, <1>3, <1>8 DEF Safe, NotYet, Told, Unended
    <2> QED BY <2>1, <2>2
  <1>11. InHand'
    BY <1>3, <1>8 DEF Safe, InHand, Told
  <1> QED BY <1>6, <1>9, <1>10, <1>11 DEF Safe

\* A call sends its update, and is the only one to do so for an undisturbed event.
LEMMA SendSafe == ASSUME TypeOK, Safe, NEW c \in Calls, SendUpdate(c) PROVE Safe'
  <1> DEFINE e == call[c].event
             u == Sends[call[c].op]
  <1>1. c \in Open /\ call[c].pc = "open" /\ e \in Events /\ call[c] \in Call
    BY CallParts DEF SendUpdate, At
  <1>2. call' = [call EXCEPT ![c] = [call[c] EXCEPT !.pc = "sent"]]
    BY DEF SendUpdate
  <1>3. /\ call'[c].pc = "sent" /\ call'[c].op = call[c].op /\ call'[c].event = e
        /\ \A d \in Calls : d # c => call'[d] = call[d]
    BY <1>1, <1>2 DEF TypeOK, Call
  <1>4. Open' = Open
    BY <1>1, <1>3 DEF Open, Idle
  <1>5. updates' = [updates EXCEPT ![e] = @ \cup {u}] /\ updates \in [Events -> SUBSET Updates]
    BY DEF SendUpdate, TypeOK
  <1>6. inbox' = inbox /\ pending' = pending /\ disturbed' = disturbed
    BY DEF SendUpdate, session
  <1>7. late' = IF updates[e] \cap Terminal = {} THEN late ELSE late \cup {e}
    BY DEF SendUpdate
  <1> HIDE DEF e, u
  <1>8. updates'[e] = updates[e] \cup {u} /\ \A x \in Events : x # e => updates'[x] = updates[x]
    BY <1>1, <1>5
  <1>9. \A d \in Calls, x \in Events : On(d, x)' <=> On(d, x)
    BY <1>3, <1>4 DEF On, Open, e
  <1>10. ParkedKept'
    BY <1>6, <1>8 DEF Safe, ParkedKept
  <1>11. SentFirst'
    <2> SUFFICES ASSUME NEW d \in Open, call'[d].pc # "open" PROVE Sends[call'[d].op] \in updates'[call'[d].event]
      BY <1>4 DEF SentFirst
    <2>1. CASE d = c
      BY <2>1, <1>3, <1>8 DEF u
    <2>2. CASE d # c
      BY <2>2, <1>3, <1>8, CallParts DEF Safe, SentFirst, Open
    <2> QED BY <2>1, <2>2
  <1>12. AckedGone' /\ OneCall'
    BY <1>3, <1>4, <1>6, <1>9 DEF Safe, AckedGone, OneCall, Open
  <1>13. NotYet'
    <2> SUFFICES ASSUME NEW x \in Events \ disturbed, NEW d \in Calls, On(d, x), Unended(d)' PROVE ~Told(x)'
      BY <1>6, <1>9 DEF NotYet
    <2>1. CASE d = c
      <3>1. x = e /\ u \notin Terminal
        BY <2>1, <1>3 DEF On, Unended, e, u
      <3>2. ~Told(e)
        BY <3>1, <2>1, <1>1 DEF Safe, NotYet, Unended
      <3> QED BY <3>1, <3>2, <1>8 DEF Told
    <2>2. CASE d # c
      <3>1. x # e
        BY <2>2, <1>1 DEF Safe, OneCall, On, e
      <3>2. Unended(d)
        BY <2>2, <1>3 DEF Unended
      <3> QED BY <3>1, <3>2, <1>8 DEF Safe, NotYet, Told
    <2> QED BY <2>1, <2>2
  <1>14. InHand'
    <2> SUFFICES ASSUME NEW x \in Events \ disturbed, Told(x)'
                 PROVE  (\E d \in Calls : On(d, x)) \/ (x \notin inbox /\ x \notin pending)
      BY <1>6, <1>9 DEF InHand
    <2>1. CASE x = e
      BY <2>1, <1>1 DEF On, e
    <2>2. CASE x # e
      BY <2>2, <1>8 DEF Safe, InHand, Told
    <2> QED BY <2>1, <2>2
  <1>15. TerminalLast'
    <2>1. e \notin disturbed => ~Told(e)
      BY <1>1 DEF Safe, NotYet, On, Unended, e
    <2> QED BY <2>1, <1>6, <1>7 DEF Safe, TerminalLast, Told
  <1> QED BY <1>10, <1>11, <1>12, <1>13, <1>14, <1>15 DEF Safe

\* A call acknowledges its event after it has sent.
LEMMA AckSafe == ASSUME TypeOK, Safe, NEW c \in Calls, AckEvent(c) PROVE Safe'
  <1> DEFINE e == call[c].event
  <1>1. /\ c \in Open /\ call[c].pc = "sent" /\ call[c].op \in Operations \ {"request_authorization"}
        /\ e \in Events /\ call[c] \in Call
    BY CallParts DEF AckEvent, At
  <1>2. call' = [call EXCEPT ![c] = [call[c] EXCEPT !.pc = "acked"]]
    BY DEF AckEvent
  <1>3. /\ call'[c].pc = "acked" /\ call'[c].op = call[c].op /\ call'[c].event = e
        /\ \A d \in Calls : d # c => call'[d] = call[d]
    BY <1>1, <1>2 DEF TypeOK, Call
  <1>4. Open' = Open
    BY <1>1, <1>3 DEF Open, Idle
  <1>5. /\ updates' = updates /\ late' = late /\ inbox' = inbox \ {e}
        /\ pending' = pending /\ disturbed' = disturbed
    BY DEF AckEvent, session
  <1>6. Sends[call[c].op] \in updates[e] \ {"auth-required"}
    BY <1>1, OperationNames DEF Safe, SentFirst
  <1> HIDE DEF e
  <1>7. \A d \in Calls, x \in Events : On(d, x)' <=> On(d, x)
    BY <1>3, <1>4 DEF On, Open, e
  <1>8. ParkedKept'
    BY <1>5, <1>6 DEF Safe, ParkedKept
  <1>9. SentFirst' /\ AckedGone'
    BY <1>1, <1>3, <1>4, <1>5 DEF Safe, SentFirst, AckedGone, Open, e
  <1>10. \A d \in Calls : Unended(d)' => Unended(d)
    BY <1>1, <1>3 DEF Unended
  <1>11. OneCall' /\ NotYet' /\ InHand' /\ TerminalLast'
    BY <1>5, <1>7, <1>10 DEF Safe, OneCall, NotYet, InHand, TerminalLast, Told
  <1> QED BY <1>8, <1>9, <1>11 DEF Safe

\* The steps that end a call.
LEMMA CallEnds ==
    ASSUME TypeOK, Safe, NEW c \in Open, call' = [call EXCEPT ![c] = Idle],
           UNCHANGED <<inbox, updates, late, disturbed>>,
           pending' = pending \/ pending' = pending \ {call[c].event},
           \/ call[c].pc = "acked" /\ pending' = pending \ {call[c].event}
           \/ Unended(c)
    PROVE  Safe'
  <1>1. /\ call'[c] = Idle /\ \A d \in Calls : d # c => call'[d] = call[d]
        /\ c \in Calls /\ call[c].event \in Events
    BY CallParts DEF TypeOK, Open
  <1>2. Open' = Open \ {c}
    BY <1>1 DEF Open
  <1>3. \A d \in Calls, x \in Events : On(d, x)' <=> On(d, x) /\ d # c
    BY <1>1, <1>2 DEF On, Open
  <1>4. ParkedKept' /\ SentFirst' /\ AckedGone' /\ TerminalLast'
    BY <1>1, <1>2 DEF Safe, ParkedKept, SentFirst, AckedGone, TerminalLast, Open
  <1>5. OneCall' /\ NotYet'
    BY <1>1, <1>3 DEF Safe, OneCall, NotYet, Told, Unended
  <1>6. InHand'
    <2> SUFFICES ASSUME NEW x \in Events \ disturbed, Told(x)
                 PROVE  (\E d \in Calls : On(d, x) /\ d # c) \/ (x \notin inbox /\ x \notin pending')
      BY <1>3 DEF InHand, Told
    <2>1. CASE x # call[c].event
      BY <2>1, <1>1 DEF Safe, InHand, On
    <2>2. CASE x = call[c].event
      <3>1. On(c, x)
        BY <2>2 DEF On
      <3>2. ~Unended(c)
        BY <3>1, <1>1 DEF Safe, NotYet
      <3> QED BY <2>2, <3>2 DEF Safe, AckedGone
    <2> QED BY <2>1, <2>2
  <1> QED BY <1>4, <1>5, <1>6 DEF Safe

\* Every step keeps the invariant.
LEMMA SafeStep == ASSUME TypeOK, Safe, Next PROVE Safe'
  <1>1. CASE Activate \/ PollOnce \/ PushApprovals \/ EndRound
    BY <1>1, Aside DEF Activate, PollOnce, PushApprovals, EndRound, durable
  <1>2. CASE Refused
    BY <1>2, RegisterSafe, Aside DEF Refused, durable
  <1>3. CASE Crash
    BY <1>3, CrashSafe
  <1>4. ASSUME NEW e \in Events, ShowWork(e) PROVE Safe'
    BY <1>4, RegisterSafe, Aside DEF ShowWork, durable
  <1>5. ASSUME NEW h \in Holds, ShowHold(h) \/ ResolvedElsewhere(h) \/ ResolveHold(h) PROVE Safe'
    BY <1>5, Aside DEF ShowHold, ResolvedElsewhere, ResolveHold, durable, session
  <1>6. ASSUME NEW c \in Calls, SendUpdate(c) \/ AckEvent(c) PROVE Safe'
    BY <1>6, SendSafe, AckSafe
  <1>7. ASSUME NEW c \in Calls, Finish(c) PROVE Safe'
    BY <1>7, CallEnds DEF Finish, Forget, At, durable
  <1>8. ASSUME NEW c \in Calls, SendFails(c) PROVE Safe'
    BY <1>8, CallEnds DEF SendFails, At, Unended, durable, session
  <1>9. ASSUME NEW c \in Calls, NEW a \in Authorizations, RecordAuthorization(c, a) PROVE Safe'
    <2>1. c \in Open /\ call[c].op = "request_authorization"
      BY <1>9 DEF RecordAuthorization, At
    <2>2. Unended(c)
      BY <2>1 DEF Unended, Sends, Terminal
    <2> QED BY <1>9, <2>1, <2>2, CallEnds DEF RecordAuthorization, KeepEvent
  <1>10. ASSUME NEW c \in Calls, NEW op \in Operations, NEW e \in Events, Begin(c, op, e) PROVE Safe'
    BY <1>10, OpenSafe DEF Begin, durable, session
  <1>11. ASSUME NEW c \in Calls, NEW a \in Authorizations, NEW d \in {"approved", "rejected"},
                ResolveAuthorization(c, a, d)
         PROVE  Safe'
    <2>1. authorization[a].event \in Events
      BY <1>11, ResolveParts DEF ResolveAuthorization
    <2>2. UNCHANGED <<inbox, updates, late, pending>>
      BY <1>11 DEF ResolveAuthorization, session
    <2>3. CASE d = "rejected" /\ authorization[a].event \in pending
      BY <1>11, <2>1, <2>2, <2>3, OpenSafe, OperationNames DEF ResolveAuthorization
    <2>4. CASE ~(d = "rejected" /\ authorization[a].event \in pending)
      BY <1>11, <2>2, <2>4, Aside DEF ResolveAuthorization
    <2> QED BY <2>3, <2>4
  <1> QED BY Steps, <1>1, <1>2, <1>3, <1>4, <1>5, <1>6, <1>7, <1>8, <1>9, <1>10, <1>11

\* A step that changes nothing keeps the invariant.
LEMMA Stutters == ASSUME TypeOK, Safe, UNCHANGED vars PROVE TypeOK' /\ Safe'
  <1>1. Safe'
    BY Aside DEF vars, durable, session
  <1>2. TypeOK'
    BY DEF vars, durable, session, TypeOK, Open
  <1> QED BY <1>1, <1>2

-----------------------------------------------------------------------------
\* Every variable of the decisions model keeps its type, and the inductive invariant holds:
\* channel.ts and channel-adapter.ts for every number of events, calls and authorizations.
THEOREM Invariance == Spec => []Inv
  <1>1. Init => Inv
    BY InitType, InitSafe DEF Inv
  <1>2. Inv /\ [Next]_vars => Inv'
    BY TypeStep, SafeStep, Stutters DEF Inv
  <1> QED BY <1>1, <1>2, PTL DEF Spec

\* Every variable keeps its type.
THEOREM TypeCorrect == Spec => []TypeOK
  <1>1. Inv => TypeOK
    BY DEF Inv
  <1> QED BY <1>1, Invariance, PTL

\* No event is used up before its requester was told how it ended or what it waits for: a
\* request for an authorization (channel.ts:878-968) never acknowledges the work.
THEOREM Parked == Spec => []ParkedKept
  <1>1. Inv => ParkedKept
    BY DEF Inv, Safe
  <1> QED BY <1>1, Invariance, PTL

\* Unless calls met on it, a fault cut a call short or a stale snapshot brought it back, the
\* requester of an event hears nothing after the end of its task.
THEOREM TerminalIsLast == Spec => []TerminalLast
  <1>1. Inv => TerminalLast
    BY DEF Inv, Safe
  <1> QED BY <1>1, Invariance, PTL

\* A decision on record stands, whatever is decided later and whoever crashes: decide writes
\* pending rows only (application-repos.ts:325-358).
THEOREM DecisionsStand == Spec => DecisionStands
  <1>1. TypeOK /\ [Next]_vars =>
            [\A a \in Authorizations :
                authorization[a] # Unused /\ authorization[a].status # "pending" =>
                    authorization'[a] = authorization[a]]_vars
    <2> SUFFICES ASSUME TypeOK, Next, NEW b \in Authorizations,
                        authorization[b] # Unused, authorization[b].status # "pending"
                 PROVE  authorization'[b] = authorization[b]
      OBVIOUS
    <2>1. CASE authorization' = authorization
      BY <2>1
    <2>2. ASSUME NEW c \in Calls, NEW a \in Authorizations, RecordAuthorization(c, a)
          PROVE  authorization'[b] = authorization[b]
      BY <2>2 DEF RecordAuthorization, Free, TypeOK
    <2>3. ASSUME NEW c \in Calls, NEW a \in Authorizations, NEW d \in {"approved", "rejected"},
                 ResolveAuthorization(c, a, d)
          PROVE  authorization'[b] = authorization[b]
      <3>1. authorization' = [authorization EXCEPT ![a] = [authorization[a] EXCEPT !.status = d]]
        BY <2>3 DEF ResolveAuthorization
      <3>2. CASE a # b
        BY <3>1, <3>2 DEF TypeOK
      <3>3. CASE a = b
        <4>1. authorization[b] \in Row /\ authorization[b].status = d
          BY <2>3, <3>3, ResolveParts DEF ResolveAuthorization, Decidable
        <4>2. [authorization[b] EXCEPT !.status = d] = authorization[b]
          BY <4>1 DEF Row
        <4> QED BY <3>1, <3>3, <4>2 DEF TypeOK
      <3> QED BY <3>2, <3>3
    <2>4. \/ authorization' = authorization
          \/ \E c \in Calls, a \in Authorizations : RecordAuthorization(c, a)
          \/ \E c \in Calls, a \in Authorizations, d \in {"approved", "rejected"} : ResolveAuthorization(c, a, d)
      BY Steps DEF Activate, PollOnce, PushApprovals, EndRound, Refused, Crash, ShowWork, ShowHold,
                   ResolvedElsewhere, ResolveHold, SendUpdate, AckEvent, Finish, SendFails, Begin, durable
    <2> QED BY <2>1, <2>2, <2>3, <2>4
  <1> QED BY <1>1, TypeCorrect, PTL DEF Spec, DecisionStands

-----------------------------------------------------------------------------
(***************************************************************************)
(* The two reference applications.  None of the three properties is        *)
(* inductive: a state changes by what an event says, long after it was     *)
(* said.  CollaborationInv says that every event under way is true of the  *)
(* worker it is about, and that what it says stays true.                   *)
(***************************************************************************)
\* The events of request-response.
CallTypes == {"request.created", "response.created", "request.failed", "request.cancelled"}
Addressed == {"task.assigned", "review.requested", "request.created", "request.cancelled"}
Did(c, t) == \E w \in Workers : <<w, c, t>> \in done
AskedIn(w, c) == \E t \in Tasks : <<w, c, t>> \in asked

\* What an event says is true, of the worker it is about, and stays true.
Justified(p, c, e) ==
    /\ e \in Event /\ <<e.about, c, e.task>> \in asked
    /\ e.type \in CallTypes <=> c \in CallContexts
    /\ e.type \in Addressed => p = e.about
    /\ e.type = "task.completed" => <<e.about, c, e.task>> \in done
    /\ e.type \in {"review.requested", "review.approved"} => Did(c, e.task)
    /\ e.type = "review.approved" => phase[e.about][c] = "completed"
    /\ e.type = "response.created" => e.about \in Prompt \/ phase[e.about][c] = "completed"
    /\ e.type \in {"task.failed", "request.failed"} => phase[e.about][c] = "failed"

MailJustified ==
    /\ \A p \in People, c \in Contexts : \A i \in DOMAIN mailbox[p][c] : Justified(p, c, mailbox[p][c][i])
    /\ \A p \in People, c \in Contexts : \A i \in DOMAIN outbox[p][c] :
        Justified(outbox[p][c][i].to, c, outbox[p][c][i].event)

\* Only who was asked has work, and only a harness is waited for.
Asking ==
    /\ done \subseteq asked
    /\ \A w \in Workers, c \in Contexts, t \in Tasks :
           working[w][c][t] > 0 => w \notin Prompt /\ <<w, c, t>> \in asked
    /\ \A c \in TeamContexts, t \in Tasks : status[Manager][c][t] # "none" => <<to[c][t], c, t>> \in asked
    /\ \A c \in Contexts, t \in Tasks : status[Manager][c][t] = "approved" => Did(c, t)

\* A context ends at the manager as it ended at a worker asked in it, but for a worker that
\* answers at once, which keeps it open; it never fails.
Ending ==
    /\ \A c \in Contexts :
        /\ phase[Manager][c] = "completed"
              => \E w \in Workers : AskedIn(w, c) /\ (w \in Prompt \/ phase[w][c] = "completed")
        /\ phase[Manager][c] = "failed" => \E w \in Workers : AskedIn(w, c) /\ phase[w][c] = "failed"
    /\ \A w \in Prompt, c \in Contexts : phase[w][c] # "failed"
    /\ \A w \in Workers \ Prompt, c \in CallContexts, t \in Tasks : <<w, c, t>> \in done => phase[w][c] = "completed"

CollaborationInv == CollaborationTypeOK /\ MailJustified /\ Asking /\ Ending

\* What a step may do without making an event in flight untrue.
Later ==
    /\ asked \subseteq asked' /\ done \subseteq done'
    /\ \A p \in People, c \in Contexts : phase[p][c] # "open" => phase'[p][c] = phase[p][c]

\* What is in flight after a step was in flight before it, or what it says is true.
InboxFollows ==
    \A q \in People, d \in Contexts : \A i \in DOMAIN mailbox'[q][d] :
        \/ \E j \in DOMAIN mailbox[q][d] : mailbox'[q][d][i] = mailbox[q][d][j]
        \/ Justified(q, d, mailbox[q][d][i])'

OutboxFollows ==
    \A q \in People, d \in Contexts : \A i \in DOMAIN outbox'[q][d] :
        \/ \E j \in DOMAIN outbox[q][d] : outbox'[q][d][i] = outbox[q][d][j] /\ outbox[q][d][j].to \in People
        \/ Justified(outbox[q][d][i].to, d, outbox[q][d][i].event)'

-----------------------------------------------------------------------------
\* The manager is no worker.
LEMMA PeopleFacts ==
    /\ Manager \in People /\ Workers \subseteq People
    /\ People = Workers \cup {Manager} /\ Manager \notin Workers
    BY CollaborationAssumption DEF People

\* A conversation belongs to one of the two applications.
LEMMA ContextFacts ==
    /\ \A c \in Contexts : c \in TeamContexts <=> c \notin CallContexts
    /\ TeamContexts \subseteq Contexts /\ CallContexts \subseteq Contexts
    BY CollaborationAssumption DEF Contexts

\* What an event says stays true.
LEMMA JustifiedKept ==
    ASSUME Later, NEW p \in People, NEW c \in Contexts, NEW e, Justified(p, c, e)
    PROVE  Justified(p, c, e)'
<1>1. e.about \in People
    BY PeopleFacts DEF Justified, Event
<1>2. Did(c, e.task) => Did(c, e.task)'
    BY DEF Did, Later
<1>3. \A s \in Phases \ {"open"} : phase[e.about][c] = s => phase'[e.about][c] = s
    BY <1>1 DEF Later
<1> QED
    BY <1>2, <1>3 DEF Justified, Later, Phases

\* Events that were true, or are true of what just happened, are true.
LEMMA MailKept ==
    ASSUME MailJustified, Later, InboxFollows, OutboxFollows
    PROVE  MailJustified'
<1>1. ASSUME NEW q \in People, NEW d \in Contexts, NEW i \in DOMAIN mailbox'[q][d]
      PROVE  Justified(q, d, mailbox[q][d][i])'
    <2>1. CASE \E j \in DOMAIN mailbox[q][d] : mailbox'[q][d][i] = mailbox[q][d][j]
        <3>1. PICK j \in DOMAIN mailbox[q][d] : mailbox'[q][d][i] = mailbox[q][d][j]
            BY <2>1
        <3>2. Justified(q, d, mailbox[q][d][j])
            BY DEF MailJustified
        <3>3. ASSUME NEW x, x = mailbox[q][d][j] PROVE Justified(q, d, x)'
            BY <3>2, <3>3, JustifiedKept
        <3> QED
            BY <3>1, <3>3
    <2> QED
        BY <2>1 DEF InboxFollows
<1>2. ASSUME NEW q \in People, NEW d \in Contexts, NEW i \in DOMAIN outbox'[q][d]
      PROVE  Justified(outbox[q][d][i].to, d, outbox[q][d][i].event)'
    <2>1. CASE \E j \in DOMAIN outbox[q][d] : outbox'[q][d][i] = outbox[q][d][j] /\ outbox[q][d][j].to \in People
        <3>1. PICK j \in DOMAIN outbox[q][d] : outbox'[q][d][i] = outbox[q][d][j] /\ outbox[q][d][j].to \in People
            BY <2>1
        <3>2. Justified(outbox[q][d][j].to, d, outbox[q][d][j].event)
            BY DEF MailJustified
        <3>3. ASSUME NEW x, x = outbox[q][d][j] PROVE Justified(x.to, d, x.event)'
            BY <3>1, <3>2, <3>3, JustifiedKept
        <3> QED
            BY <3>1, <3>3
    <2> QED
        BY <2>1 DEF OutboxFollows
<1> QED
    BY <1>1, <1>2 DEF MailJustified

\* The next event of a context is read, and nothing is added to a mailbox.
LEMMA Received ==
    ASSUME CollaborationInv, NEW p \in People, NEW c \in Contexts, NEW types, Receives(p, c, types)
    PROVE  /\ Justified(p, c, Head(mailbox[p][c])) /\ Head(mailbox[p][c]).type \in types
           /\ mailbox' \in [People -> [Contexts -> Seq(Event)]]
           /\ InboxFollows
           /\ UNCHANGED <<asks, asked, notices, lost>>
<1> DEFINE s == mailbox[p][c]
<1>1. mailbox \in [People -> [Contexts -> Seq(Event)]]
    BY DEF CollaborationInv, CollaborationTypeOK
<1>2. /\ s # << >> /\ Head(s).type \in types /\ mailbox' = [mailbox EXCEPT ![p][c] = Tail(s)]
      /\ UNCHANGED <<asks, asked, notices, lost>>
    BY DEF Receives
<1>3. s \in Seq(Event)
    BY <1>1
<1>4. /\ Head(s) = s[1] /\ 1 \in DOMAIN s /\ Tail(s) \in Seq(Event)
      /\ \A i \in DOMAIN Tail(s) : i + 1 \in DOMAIN s /\ Tail(s)[i] = s[i + 1]
    <2> HIDE DEF s
    <2>1. Len(s) \in Nat \ {0} /\ DOMAIN s = 1..Len(s) /\ Head(s) = s[1]
        BY <1>2, <1>3
    <2>2. /\ Tail(s) \in Seq(Event) /\ DOMAIN Tail(s) = 1..(Len(s) - 1)
          /\ \A i \in 1..(Len(s) - 1) : Tail(s)[i] = s[i + 1]
        BY <1>2, <1>3
    <2> QED
        BY <2>1, <2>2
<1>5. /\ mailbox' \in [People -> [Contexts -> Seq(Event)]]
      /\ \A q \in People, d \in Contexts : mailbox'[q][d] = IF q = p /\ d = c THEN Tail(s) ELSE mailbox[q][d]
    <2> HIDE DEF s
    <2> QED
        BY <1>1, <1>2, <1>4
<1>6. Justified(p, c, Head(s))
    BY <1>4 DEF CollaborationInv, MailJustified
<1>7. \A q \in People, d \in Contexts : \A i \in DOMAIN mailbox'[q][d] :
        \E j \in DOMAIN mailbox[q][d] : mailbox'[q][d][i] = mailbox[q][d][j]
    <2> SUFFICES ASSUME NEW q \in People, NEW d \in Contexts, NEW i \in DOMAIN mailbox'[q][d]
                 PROVE  \E j \in DOMAIN mailbox[q][d] : mailbox'[q][d][i] = mailbox[q][d][j]
        OBVIOUS
    <2>1. CASE q = p /\ d = c
        <3>1. mailbox'[q][d] = Tail(s) /\ mailbox[q][d] = s
            BY <2>1, <1>5
        <3>2. mailbox'[q][d][i] = s[i + 1] /\ i + 1 \in DOMAIN s
            BY <3>1, <1>4
        <3> QED
            BY <3>1, <3>2
    <2>2. CASE ~(q = p /\ d = c)
        BY <2>2, <1>5
    <2> QED
        BY <2>1, <2>2
<1> QED
    BY <1>2, <1>5, <1>6, <1>7 DEF InboxFollows

\* Setting one cell of a table of people and contexts.
LEMMA CellSet ==
    ASSUME NEW S, NEW f \in [People -> [Contexts -> S]], NEW p \in People, NEW c \in Contexts, NEW x \in S,
           NEW g, g = [f EXCEPT ![p][c] = x]
    PROVE  /\ g \in [People -> [Contexts -> S]]
           /\ \A q \in People, d \in Contexts : g[q][d] = IF q = p /\ d = c THEN x ELSE f[q][d]
    OBVIOUS

\* An event is added to a mailbox.
Delivers(p, c, e) == mailbox' = [mailbox EXCEPT ![p][c] = Append(@, e)]

\* An event that is delivered stands at the end of one mailbox.
LEMMA Delivered ==
    ASSUME CollaborationTypeOK, NEW p \in People, NEW c \in Contexts, NEW e \in Event, Delivers(p, c, e)
    PROVE  /\ mailbox' \in [People -> [Contexts -> Seq(Event)]]
           /\ \A q \in People, d \in Contexts : \A i \in DOMAIN mailbox'[q][d] :
                \/ \E j \in DOMAIN mailbox[q][d] : mailbox'[q][d][i] = mailbox[q][d][j]
                \/ q = p /\ d = c /\ mailbox'[q][d][i] = e
<1> DEFINE s == mailbox[p][c]
<1>1. mailbox \in [People -> [Contexts -> Seq(Event)]] /\ s \in Seq(Event)
    BY DEF CollaborationTypeOK
<1>2. /\ Append(s, e) \in Seq(Event)
      /\ \A i \in DOMAIN Append(s, e) : (i \in DOMAIN s /\ Append(s, e)[i] = s[i]) \/ Append(s, e)[i] = e
    <2> HIDE DEF s
    <2>1. Len(s) \in Nat /\ DOMAIN s = 1..Len(s)
        BY <1>1
    <2>2. /\ Append(s, e) \in Seq(Event) /\ DOMAIN Append(s, e) = 1..(Len(s) + 1) /\ Append(s, e)[Len(s) + 1] = e
          /\ \A i \in 1..Len(s) : Append(s, e)[i] = s[i]
        BY <1>1
    <2> QED
        BY <2>1, <2>2
<1>3. mailbox' = [mailbox EXCEPT ![p][c] = Append(s, e)]
    BY DEF Delivers
<1> HIDE DEF s
<1>4. /\ mailbox' \in [People -> [Contexts -> Seq(Event)]]
      /\ \A q \in People, d \in Contexts : mailbox'[q][d] = IF q = p /\ d = c THEN Append(s, e) ELSE mailbox[q][d]
    <2>1. PICK x \in Seq(Event) : x = Append(s, e)
        BY <1>2
    <2>2. mailbox' = [mailbox EXCEPT ![p][c] = x]
        BY <2>1, <1>3
    <2>3. /\ mailbox' \in [People -> [Contexts -> Seq(Event)]]
          /\ \A q \in People, d \in Contexts : mailbox'[q][d] = IF q = p /\ d = c THEN x ELSE mailbox[q][d]
        BY <1>1, <2>2, CellSet
    <2> QED
        BY <2>1, <2>3
<1> QED
    <2> SUFFICES ASSUME NEW q \in People, NEW d \in Contexts, NEW i \in DOMAIN mailbox'[q][d]
                 PROVE  \/ \E j \in DOMAIN mailbox[q][d] : mailbox'[q][d][i] = mailbox[q][d][j]
                        \/ q = p /\ d = c /\ mailbox'[q][d][i] = e
        BY <1>4
    <2>1. CASE q = p /\ d = c
        BY <2>1, <1>2, <1>4 DEF s
    <2>2. CASE ~(q = p /\ d = c)
        BY <2>2, <1>4
    <2> QED
        BY <2>1, <2>2

\* Mails are emitted.
LEMMA Emitted ==
    ASSUME CollaborationTypeOK, NEW p \in People, NEW c \in Contexts, NEW mails \in Seq(Mail), Emit(p, c, mails)
    PROVE  /\ outbox' \in [People -> [Contexts -> Seq(Mail)]]
           /\ \A q \in People, d \in Contexts : \A i \in DOMAIN outbox'[q][d] :
                \/ \E j \in DOMAIN outbox[q][d] : outbox'[q][d][i] = outbox[q][d][j] /\ outbox[q][d][j].to \in People
                \/ d = c /\ \E k \in DOMAIN mails : outbox'[q][d][i] = mails[k]
<1> DEFINE s == outbox[p][c]
<1>1. outbox \in [People -> [Contexts -> Seq(Mail)]] /\ s \in Seq(Mail)
    BY DEF CollaborationTypeOK
<1>2. outbox' = [outbox EXCEPT ![p][c] = s \o mails]
    BY DEF Emit
<1> HIDE DEF s
<1>3. /\ s \o mails \in Seq(Mail)
      /\ \A i \in DOMAIN (s \o mails) :
            (i \in DOMAIN s /\ (s \o mails)[i] = s[i]) \/ \E k \in DOMAIN mails : (s \o mails)[i] = mails[k]
    <2>1. Len(s) \in Nat /\ DOMAIN s = 1..Len(s) /\ Len(mails) \in Nat /\ DOMAIN mails = 1..Len(mails)
        BY <1>1
    <2>2. /\ s \o mails \in Seq(Mail) /\ DOMAIN (s \o mails) = 1..(Len(s) + Len(mails))
          /\ \A i \in 1..Len(s) : (s \o mails)[i] = s[i]
          /\ \A i \in (Len(s) + 1)..(Len(s) + Len(mails)) : (s \o mails)[i] = mails[i - Len(s)]
        BY <1>1
    <2>3. \A i \in 1..(Len(s) + Len(mails)) :
            i \in 1..Len(s) \/ (i \in (Len(s) + 1)..(Len(s) + Len(mails)) /\ i - Len(s) \in 1..Len(mails))
        BY <2>1
    <2> QED
        BY <2>1, <2>2, <2>3
<1>4. /\ outbox' \in [People -> [Contexts -> Seq(Mail)]]
      /\ \A q \in People, d \in Contexts : outbox'[q][d] = IF q = p /\ d = c THEN s \o mails ELSE outbox[q][d]
    BY <1>1, <1>2, <1>3
<1>5. \A q \in People, d \in Contexts : \A j \in DOMAIN outbox[q][d] : outbox[q][d][j].to \in People
    <2> SUFFICES ASSUME NEW q \in People, NEW d \in Contexts, NEW j \in DOMAIN outbox[q][d]
                 PROVE  outbox[q][d][j].to \in People
        OBVIOUS
    <2>1. outbox[q][d] \in Seq(Mail)
        BY <1>1
    <2>2. outbox[q][d][j] \in Mail
        BY <2>1
    <2> QED
        BY <2>2 DEF Mail
<1> QED
    <2> SUFFICES ASSUME NEW q \in People, NEW d \in Contexts, NEW i \in DOMAIN outbox'[q][d]
                 PROVE  \/ \E j \in DOMAIN outbox[q][d] :
                            outbox'[q][d][i] = outbox[q][d][j] /\ outbox[q][d][j].to \in People
                        \/ d = c /\ \E k \in DOMAIN mails : outbox'[q][d][i] = mails[k]
        BY <1>4
    <2>1. CASE q = p /\ d = c
        <3>1. outbox'[q][d] = s \o mails
            BY <2>1, <1>4
        <3>2. (i \in DOMAIN s /\ (s \o mails)[i] = s[i]) \/ \E k \in DOMAIN mails : (s \o mails)[i] = mails[k]
            BY <3>1, <1>3
        <3>3. ASSUME i \in DOMAIN s, (s \o mails)[i] = s[i]
              PROVE  outbox'[q][d][i] = outbox[q][d][i] /\ outbox[q][d][i].to \in People
            BY <3>3, <3>1, <2>1, <1>5 DEF s
        <3> QED
            BY <3>1, <3>2, <3>3, <2>1 DEF s
    <2>2. CASE ~(q = p /\ d = c)
        <3>1. outbox'[q][d] = outbox[q][d]
            BY <2>2, <1>4
        <3> QED
            BY <3>1, <1>5
    <2> QED
        BY <2>1, <2>2

\* Mails are emitted, and what they say is true.
LEMMA EmittedTrue ==
    ASSUME CollaborationTypeOK, NEW p \in People, NEW c \in Contexts, NEW mails \in Seq(Mail), Emit(p, c, mails)
    PROVE  /\ outbox' \in [People -> [Contexts -> Seq(Mail)]]
           /\ (\A k \in DOMAIN mails : Justified(mails[k].to, c, mails[k].event)') => OutboxFollows
<1>1. /\ outbox' \in [People -> [Contexts -> Seq(Mail)]]
      /\ \A q \in People, d \in Contexts : \A i \in DOMAIN outbox'[q][d] :
            \/ \E j \in DOMAIN outbox[q][d] : outbox'[q][d][i] = outbox[q][d][j] /\ outbox[q][d][j].to \in People
            \/ d = c /\ \E k \in DOMAIN mails : outbox'[q][d][i] = mails[k]
    BY Emitted
<1>2. ASSUME \A k \in DOMAIN mails : Justified(mails[k].to, c, mails[k].event)'
      PROVE  OutboxFollows
    BY <1>1, <1>2 DEF OutboxFollows
<1> QED
    BY <1>1, <1>2

\* One mail, and two.
LEMMA OneMail ==
    ASSUME NEW type \in Types, NEW p \in People, NEW t \in Tasks, NEW w \in Workers
    PROVE  \E s \in Seq(Mail) :
              /\ s = Mailed(type, p, t, w)
              /\ \A k \in DOMAIN s : /\ s[k].to = p /\ s[k].event.type = type /\ s[k].event.task = t
                                     /\ s[k].event.about = w /\ s[k].event \in Event
<1> DEFINE e == [type |-> type, task |-> t, about |-> w]
<1> DEFINE m == [to |-> p, event |-> e]
<1>1. e \in Event /\ m \in Mail /\ m.to = p /\ m.event = e /\ e.type = type /\ e.task = t /\ e.about = w
    BY DEF Event, Mail
<1>2. Mailed(type, p, t, w) = <<m>>
    BY DEF Mailed
<1> HIDE DEF m, e
<1>3. <<m>> \in Seq(Mail) /\ \A k \in DOMAIN <<m>> : <<m>>[k] = m
    BY <1>1
<1> QED
    BY <1>1, <1>2, <1>3

\* A sequence of two parts has the mail of both.
LEMMA TwoMails ==
    ASSUME NEW r \in Seq(Mail), NEW s \in Seq(Mail)
    PROVE  /\ r \o s \in Seq(Mail)
           /\ \A k \in DOMAIN (r \o s) :
                (\E i \in DOMAIN r : (r \o s)[k] = r[i]) \/ \E i \in DOMAIN s : (r \o s)[k] = s[i]
<1>1. Len(s) \in Nat /\ DOMAIN s = 1..Len(s) /\ Len(r) \in Nat /\ DOMAIN r = 1..Len(r)
    OBVIOUS
<1>2. /\ r \o s \in Seq(Mail) /\ DOMAIN (r \o s) = 1..(Len(r) + Len(s))
      /\ \A i \in 1..Len(r) : (r \o s)[i] = r[i]
      /\ \A i \in (Len(r) + 1)..(Len(r) + Len(s)) : (r \o s)[i] = s[i - Len(r)]
    OBVIOUS
<1>3. \A i \in 1..(Len(r) + Len(s)) :
        i \in 1..Len(r) \/ (i \in (Len(r) + 1)..(Len(r) + Len(s)) /\ i - Len(r) \in 1..Len(s))
    BY <1>1
<1> QED
    BY <1>1, <1>2, <1>3

\* One status changes.
LEMMA BecomesFacts ==
    ASSUME CollaborationTypeOK, NEW p \in People, NEW c \in Contexts, NEW t \in Tasks,
           NEW s \in Statuses, Becomes(p, c, t, s)
    PROVE  /\ status' \in [People -> [Contexts -> [Tasks -> Statuses]]]
           /\ status'[p][c][t] = s
           /\ \A q \in People, d \in Contexts, u \in Tasks :
                q # p \/ d # c \/ u # t => status'[q][d][u] = status[q][d][u]
<1>1. status \in [People -> [Contexts -> [Tasks -> Statuses]]] /\ status' = [status EXCEPT ![p][c][t] = s]
    BY DEF CollaborationTypeOK, Becomes
<1>2. /\ status'[p][c] = [status[p][c] EXCEPT ![t] = s]
      /\ \A q \in People, d \in Contexts : q # p \/ d # c => status'[q][d] = status[q][d]
    BY <1>1
<1>3. \A q \in People, d \in Contexts : status'[q][d] \in [Tasks -> Statuses]
    BY <1>1, <1>2
<1>4. status' \in [People -> [Contexts -> [Tasks -> Statuses]]]
    BY <1>1
<1> QED
    BY <1>1, <1>2, <1>4

\* One task state ends, and none that has ended changes.
LEMMA EndsFacts ==
    ASSUME CollaborationTypeOK, NEW p \in People, NEW c \in Contexts, NEW s \in Phases, StillOpen(p, c), Ends(p, c, s)
    PROVE  /\ phase' \in [People -> [Contexts -> Phases]]
           /\ phase'[p][c] = s
           /\ \A q \in People, d \in Contexts : q # p \/ d # c => phase'[q][d] = phase[q][d]
           /\ \A q \in People, d \in Contexts : phase[q][d] # "open" => phase'[q][d] = phase[q][d]
<1>1. phase \in [People -> [Contexts -> Phases]] /\ phase' = [phase EXCEPT ![p][c] = s] /\ phase[p][c] = "open"
    BY DEF CollaborationTypeOK, Ends, StillOpen
<1> QED
    BY <1>1

\* An outbox nobody touches holds what it held.
LEMMA OutboxKept ==
    ASSUME CollaborationTypeOK, outbox' = outbox
    PROVE  OutboxFollows
<1>1. ASSUME NEW q \in People, NEW d \in Contexts, NEW j \in DOMAIN outbox[q][d] PROVE outbox[q][d][j].to \in People
    <2>1. outbox[q][d] \in Seq(Mail)
        BY DEF CollaborationTypeOK
    <2>2. outbox[q][d][j] \in Mail
        BY <2>1
    <2> QED
        BY <2>2 DEF Mail
<1> QED
    BY <1>1 DEF OutboxFollows

\* A step in which no task state changes keeps the ends in agreement.
LEMMA EndingKept ==
    ASSUME Ending, phase' = phase, asked \subseteq asked',
           \A w \in Workers \ Prompt, c \in CallContexts, t \in Tasks : <<w, c, t>> \in done' => <<w, c, t>> \in done
    PROVE  Ending'
<1>1. \A w \in Workers, c \in Contexts : AskedIn(w, c) => AskedIn(w, c)'
    BY DEF AskedIn
<1>2. \A c \in Contexts :
        /\ phase'[Manager][c] = "completed"
              => \E w \in Workers : AskedIn(w, c)' /\ (w \in Prompt \/ phase'[w][c] = "completed")
        /\ phase'[Manager][c] = "failed" => \E w \in Workers : AskedIn(w, c)' /\ phase'[w][c] = "failed"
    BY <1>1 DEF Ending
<1>3. \A w \in Prompt, c \in Contexts : phase'[w][c] # "failed"
    <2>1. \A w \in Prompt, c \in Contexts : phase[w][c] # "failed"
        BY DEF Ending
    <2> QED
        BY <2>1
<1>4. ASSUME NEW w \in Workers \ Prompt, NEW c \in CallContexts, NEW t \in Tasks, <<w, c, t>> \in done'
      PROVE  phase'[w][c] = "completed"
    BY <1>4 DEF Ending
<1> QED
    BY <1>2, <1>3, <1>4, Zenon DEF Ending

\* The context of the manager ends.
LEMMA ManagerEnds ==
    ASSUME CollaborationInv, NEW c \in Contexts, NEW s \in {"completed", "failed"},
           StillOpen(Manager, c), Ends(Manager, c, s),
           UNCHANGED <<asked, done>>, NEW w \in Workers, AskedIn(w, c),
           s = "completed" => w \in Prompt \/ phase[w][c] = "completed",
           s = "failed" => phase[w][c] = "failed"
    PROVE  Later /\ Ending' /\ phase' \in [People -> [Contexts -> Phases]]
<1>1. /\ phase' \in [People -> [Contexts -> Phases]]
      /\ phase'[Manager][c] = s
      /\ \A q \in People, d \in Contexts : q # Manager \/ d # c => phase'[q][d] = phase[q][d]
      /\ \A q \in People, d \in Contexts : phase[q][d] # "open" => phase'[q][d] = phase[q][d]
    <2>1. s \in Phases /\ Manager \in People /\ CollaborationTypeOK
        BY PeopleFacts DEF Phases, CollaborationInv
    <2> QED
        BY <2>1, EndsFacts
<1>2. \A v \in Workers, d \in Contexts : phase'[v][d] = phase[v][d] /\ (AskedIn(v, d)' <=> AskedIn(v, d))
    BY <1>1, PeopleFacts DEF AskedIn
<1>3. ASSUME NEW d \in Contexts
      PROVE  /\ phase'[Manager][d] = "completed"
                    => \E v \in Workers : AskedIn(v, d)' /\ (v \in Prompt \/ phase'[v][d] = "completed")
             /\ phase'[Manager][d] = "failed" => \E v \in Workers : AskedIn(v, d)' /\ phase'[v][d] = "failed"
    <2>1. CASE d = c
        BY <2>1, <1>1, <1>2
    <2>2. CASE d # c
        <3>1. phase'[Manager][d] = phase[Manager][d]
            BY <2>2, <1>1, PeopleFacts
        <3>2. /\ phase[Manager][d] = "completed"
                    => \E v \in Workers : AskedIn(v, d) /\ (v \in Prompt \/ phase[v][d] = "completed")
              /\ phase[Manager][d] = "failed" => \E v \in Workers : AskedIn(v, d) /\ phase[v][d] = "failed"
            BY DEF CollaborationInv, Ending
        <3> QED
            BY <3>1, <3>2, <1>2
    <2> QED
        BY <2>1, <2>2
<1>4. \A v \in Prompt, d \in Contexts : phase'[v][d] # "failed"
    <2>1. \A v \in Prompt, d \in Contexts : phase[v][d] # "failed"
        BY DEF CollaborationInv, Ending
    <2> QED
        BY <2>1, <1>2, CollaborationAssumption
<1>5. \A v \in Workers \ Prompt, d \in CallContexts, t \in Tasks : <<v, d, t>> \in done' => phase'[v][d] = "completed"
    <2>1. \A v \in Workers \ Prompt, d \in CallContexts, t \in Tasks :
              <<v, d, t>> \in done => phase[v][d] = "completed"
        BY DEF CollaborationInv, Ending
    <2> QED
        BY <2>1, <1>2, ContextFacts
<1>6. Ending'
    BY <1>3, <1>4, <1>5, Zenon DEF Ending
<1> QED
    BY <1>1, <1>6 DEF Later

\* The context of a worker ends.
LEMMA WorkerEnds ==
    ASSUME CollaborationInv, NEW w \in Workers, NEW c \in Contexts, NEW t \in Tasks, NEW s \in Phases,
           StillOpen(w, c), Ends(w, c, s), asked' = asked, s = "failed" => w \notin Prompt,
           done \subseteq done', done' \subseteq done \cup {<<w, c, t>>},
           c \in CallContexts => s = "completed" \/ done' = done
    PROVE  Later /\ Ending' /\ phase' \in [People -> [Contexts -> Phases]] /\ phase'[w][c] = s
<1>1. /\ phase' \in [People -> [Contexts -> Phases]]
      /\ phase'[w][c] = s
      /\ \A q \in People, d \in Contexts : q # w \/ d # c => phase'[q][d] = phase[q][d]
      /\ \A q \in People, d \in Contexts : phase[q][d] # "open" => phase'[q][d] = phase[q][d]
    <2>1. w \in People /\ CollaborationTypeOK
        BY PeopleFacts DEF CollaborationInv
    <2> QED
        BY <2>1, EndsFacts
<1>2. \A v \in Workers, d \in Contexts : AskedIn(v, d)' <=> AskedIn(v, d)
    BY DEF AskedIn
<1>3. ASSUME NEW d \in Contexts
      PROVE  /\ phase'[Manager][d] = "completed"
                    => \E v \in Workers : AskedIn(v, d)' /\ (v \in Prompt \/ phase'[v][d] = "completed")
             /\ phase'[Manager][d] = "failed" => \E v \in Workers : AskedIn(v, d)' /\ phase'[v][d] = "failed"
    <2>1. phase'[Manager][d] = phase[Manager][d]
        BY <1>1, PeopleFacts
    <2>2. \A v \in Workers : phase[v][d] # "open" => phase'[v][d] = phase[v][d]
        BY <1>1, PeopleFacts
    <2>3. /\ phase[Manager][d] = "completed"
                => \E v \in Workers : AskedIn(v, d) /\ (v \in Prompt \/ phase[v][d] = "completed")
          /\ phase[Manager][d] = "failed" => \E v \in Workers : AskedIn(v, d) /\ phase[v][d] = "failed"
        BY DEF CollaborationInv, Ending
    <2> QED
        BY <2>1, <2>2, <2>3, <1>2
<1>4. \A v \in Prompt, d \in Contexts : phase'[v][d] # "failed"
    <2> SUFFICES ASSUME NEW v \in Prompt, NEW d \in Contexts PROVE phase'[v][d] # "failed"
        OBVIOUS
    <2>1. phase[v][d] # "failed"
        BY DEF CollaborationInv, Ending
    <2>2. v \in People
        BY CollaborationAssumption, PeopleFacts
    <2> QED
        BY <2>1, <2>2, <1>1
<1>5. ASSUME NEW v \in Workers \ Prompt, NEW d \in CallContexts, NEW u \in Tasks, <<v, d, u>> \in done'
      PROVE  phase'[v][d] = "completed"
    <2>1. v \in People /\ d \in Contexts
        BY PeopleFacts, ContextFacts
    <2>2. CASE <<v, d, u>> \in done
        <3>1. phase[v][d] = "completed"
            BY <2>2 DEF CollaborationInv, Ending
        <3> QED
            BY <3>1, <2>1, <1>1
    <2>3. CASE <<v, d, u>> \notin done
        BY <2>3, <1>1, <1>5
    <2> QED
        BY <2>2, <2>3
<1>6. Ending'
    BY <1>3, <1>4, <1>5, Zenon DEF Ending
<1> QED
    BY <1>1, <1>6 DEF Later

\* The manager marks a task it has assigned, or a request.
LEMMA ManagerMarks ==
    ASSUME CollaborationInv, NEW c \in Contexts, NEW t \in Tasks, NEW s \in Statuses, Becomes(Manager, c, t, s),
           c \in CallContexts \/ status[Manager][c][t] # "none", s = "approved" => Did(c, t),
           UNCHANGED <<to, asked, done, working>>
    PROVE  Asking' /\ status' \in [People -> [Contexts -> [Tasks -> Statuses]]]
<1>1. /\ status' \in [People -> [Contexts -> [Tasks -> Statuses]]]
      /\ status'[Manager][c][t] = s
      /\ \A q \in People, d \in Contexts, u \in Tasks :
             q # Manager \/ d # c \/ u # t => status'[q][d][u] = status[q][d][u]
    <2>1. Manager \in People /\ CollaborationTypeOK
        BY PeopleFacts DEF CollaborationInv
    <2> QED
        BY <2>1, BecomesFacts
<1>2. ASSUME NEW d \in TeamContexts, NEW u \in Tasks, status'[Manager][d][u] # "none"
      PROVE  <<to'[d][u], d, u>> \in asked'
    <2>1. d \in Contexts /\ d \notin CallContexts /\ Manager \in People
        BY ContextFacts, PeopleFacts
    <2>2. status[Manager][d][u] # "none"
        BY <1>1, <1>2, <2>1
    <2> QED
        BY <2>2 DEF CollaborationInv, Asking
<1>3. ASSUME NEW d \in Contexts, NEW u \in Tasks, status'[Manager][d][u] = "approved"
      PROVE  Did(d, u)'
    <2>1. Did(d, u)' <=> Did(d, u)
        BY DEF Did
    <2> QED
        BY <2>1, <1>1, <1>3, PeopleFacts DEF CollaborationInv, Asking
<1>4. done' \subseteq asked'
    BY DEF CollaborationInv, Asking
<1>5. ASSUME NEW w \in Workers, NEW d \in Contexts, NEW u \in Tasks, working'[w][d][u] > 0
      PROVE  w \notin Prompt /\ <<w, d, u>> \in asked'
    BY <1>5 DEF CollaborationInv, Asking
<1> QED
    BY <1>1, <1>2, <1>3, <1>4, <1>5, Zenon DEF Asking

\* A worker marks a task.
LEMMA WorkerMarks ==
    ASSUME CollaborationInv, NEW w \in Workers, NEW c \in Contexts, NEW t \in Tasks, NEW s \in Statuses,
           Becomes(w, c, t, s), UNCHANGED <<to, asked>>, done \subseteq done', done' \subseteq asked,
           \A v \in Workers, d \in Contexts, u \in Tasks :
               working'[v][d][u] > 0 => v \notin Prompt /\ <<v, d, u>> \in asked
    PROVE  Asking' /\ status' \in [People -> [Contexts -> [Tasks -> Statuses]]]
<1>1. /\ status' \in [People -> [Contexts -> [Tasks -> Statuses]]]
      /\ \A q \in People, d \in Contexts, u \in Tasks : q # w \/ d # c \/ u # t => status'[q][d][u] = status[q][d][u]
    <2>1. w \in People /\ CollaborationTypeOK
        BY PeopleFacts DEF CollaborationInv
    <2> QED
        BY <2>1, BecomesFacts
<1>2. \A d \in Contexts, u \in Tasks : status'[Manager][d][u] = status[Manager][d][u]
    BY <1>1, PeopleFacts
<1>3. ASSUME NEW d \in TeamContexts, NEW u \in Tasks, status'[Manager][d][u] # "none"
      PROVE  <<to'[d][u], d, u>> \in asked'
    BY <1>2, <1>3, ContextFacts DEF CollaborationInv, Asking
<1>4. ASSUME NEW d \in Contexts, NEW u \in Tasks, status'[Manager][d][u] = "approved"
      PROVE  Did(d, u)'
    <2>1. Did(d, u) => Did(d, u)'
        BY DEF Did
    <2> QED
        BY <2>1, <1>2, <1>4 DEF CollaborationInv, Asking
<1> QED
    BY <1>1, <1>3, <1>4, Zenon DEF Asking

\* Somebody is asked for something.
LEMMA AskCollaboration ==
    ASSUME CollaborationInv, NEW w \in Workers, NEW c \in Contexts, NEW t \in Tasks, Ask(w, c, t)
    PROVE  CollaborationInv'
<1>1. /\ asked' = asked \cup {<<w, c, t>>} /\ asks' \in 0..MaxAsks
      /\ UNCHANGED <<stateVars, outbox, working, done, notices, lost>>
    BY CollaborationAssumption DEF Ask, CollaborationInv, CollaborationTypeOK
<1>2. Later
    BY <1>1 DEF Later, stateVars
<1>3. PICK p \in People, e \in Event :
        /\ Delivers(p, c, e) /\ e.about = w /\ e.task = t
        /\ \/ c \in TeamContexts /\ e.type = "task.requested"
           \/ c \notin TeamContexts /\ e.type = "request.created" /\ p = w
    <2>1. CASE c \in TeamContexts
        <3> DEFINE e == [type |-> "task.requested", task |-> t, about |-> w]
        <3>1. e \in Event /\ Delivers(Manager, c, e)
            BY <2>1 DEF Ask, Post, Delivers, Event, Types
        <3> QED
            BY <2>1, <3>1, PeopleFacts
    <2>2. CASE c \notin TeamContexts
        <3> DEFINE e == [type |-> "request.created", task |-> t, about |-> w]
        <3>1. e \in Event /\ Delivers(w, c, e)
            BY <2>2 DEF Ask, Post, Delivers, Event, Types
        <3> QED
            BY <2>2, <3>1, PeopleFacts
    <2> QED
        BY <2>1, <2>2
<1>4. Justified(p, c, e)'
    BY <1>1, <1>3, ContextFacts DEF Justified, CallTypes, Addressed
<1>5. /\ mailbox' \in [People -> [Contexts -> Seq(Event)]]
      /\ \A q \in People, d \in Contexts : \A i \in DOMAIN mailbox'[q][d] :
            \/ \E j \in DOMAIN mailbox[q][d] : mailbox'[q][d][i] = mailbox[q][d][j]
            \/ q = p /\ d = c /\ mailbox'[q][d][i] = e
    BY <1>3, Delivered DEF CollaborationInv
<1>6. InboxFollows
    BY <1>4, <1>5 DEF InboxFollows
<1>7. MailJustified'
    BY <1>1, <1>2, <1>6, MailKept, OutboxKept DEF CollaborationInv
<1>8. CollaborationTypeOK'
    <2>1. CollaborationTypeOK
        BY DEF CollaborationInv
    <2> QED
        BY <2>1, <1>1, <1>5 DEF CollaborationTypeOK, stateVars
<1>9. Asking' /\ Ending'
    BY <1>1, EndingKept DEF CollaborationInv, Asking, Did, stateVars
<1> QED
    BY <1>7, <1>8, <1>9 DEF CollaborationInv

\* Another client sends a status event, or cancels.
LEMMA NotifyCollaboration ==
    ASSUME CollaborationInv, NEW w \in Workers, NEW c \in Contexts, NEW t \in Tasks, Notify(w, c, t)
    PROVE  CollaborationInv'
<1>1. /\ <<w, c, t>> \in asked /\ notices' \in 0..MaxNotices
      /\ UNCHANGED <<stateVars, outbox, working, asks, asked, done, lost>>
    BY CollaborationAssumption DEF Notify, CollaborationInv, CollaborationTypeOK
<1>2. Later
    BY <1>1 DEF Later, stateVars
<1>3. PICK p \in People, e \in Event :
        /\ Delivers(p, c, e) /\ e.about = w /\ e.task = t
        /\ \/ c \in TeamContexts /\ e.type = "task.suspended"
           \/ c \notin TeamContexts /\ e.type = "request.cancelled" /\ p = w
    <2>1. CASE c \in TeamContexts
        <3> DEFINE e == [type |-> "task.suspended", task |-> t, about |-> w]
        <3>1. e \in Event /\ Delivers(Manager, c, e)
            BY <2>1 DEF Notify, Post, Delivers, Event, Types
        <3> QED
            BY <2>1, <3>1, PeopleFacts
    <2>2. CASE c \notin TeamContexts
        <3> DEFINE e == [type |-> "request.cancelled", task |-> t, about |-> w]
        <3>1. e \in Event /\ Delivers(w, c, e)
            BY <2>2 DEF Notify, Post, Delivers, Event, Types
        <3> QED
            BY <2>2, <3>1, PeopleFacts
    <2> QED
        BY <2>1, <2>2
<1>4. Justified(p, c, e)'
    BY <1>1, <1>3, ContextFacts DEF Justified, CallTypes, Addressed
<1>5. /\ mailbox' \in [People -> [Contexts -> Seq(Event)]]
      /\ \A q \in People, d \in Contexts : \A i \in DOMAIN mailbox'[q][d] :
            \/ \E j \in DOMAIN mailbox[q][d] : mailbox'[q][d][i] = mailbox[q][d][j]
            \/ q = p /\ d = c /\ mailbox'[q][d][i] = e
    BY <1>3, Delivered DEF CollaborationInv
<1>6. InboxFollows
    BY <1>4, <1>5 DEF InboxFollows
<1>7. MailJustified'
    BY <1>1, <1>2, <1>6, MailKept, OutboxKept DEF CollaborationInv
<1>8. CollaborationTypeOK'
    <2>1. CollaborationTypeOK
        BY DEF CollaborationInv
    <2> QED
        BY <2>1, <1>1, <1>5 DEF CollaborationTypeOK, stateVars
<1>9. Asking' /\ Ending'
    BY <1>1, EndingKept DEF CollaborationInv, Asking, Did, stateVars
<1> QED
    BY <1>7, <1>8, <1>9 DEF CollaborationInv

\* An event is taken that changes nothing but the status of the manager's tasks.
LEMMA IgnoredCollaboration ==
    ASSUME CollaborationInv, NEW p \in People, NEW c \in Contexts, IgnoreTerminal(p, c) \/ FailUnknown(p, c)
    PROVE  CollaborationInv'
<1>1. PICK types : Receives(p, c, types)
    BY DEF IgnoreTerminal, FailUnknown, Reduces
<1>2. UNCHANGED <<stateVars, outbox, working, done>>
    BY DEF IgnoreTerminal, FailUnknown
<1>3. /\ mailbox' \in [People -> [Contexts -> Seq(Event)]] /\ InboxFollows
      /\ UNCHANGED <<asks, asked, notices, lost>>
    BY <1>1, Received
<1>4. Later
    BY <1>2, <1>3 DEF Later, stateVars
<1>5. MailJustified'
    BY <1>2, <1>3, <1>4, MailKept, OutboxKept DEF CollaborationInv
<1>6. CollaborationTypeOK'
    BY <1>2, <1>3 DEF CollaborationInv, CollaborationTypeOK, stateVars
<1>7. Asking' /\ Ending'
    BY <1>2, <1>3, EndingKept DEF CollaborationInv, Asking, Did, stateVars
<1> QED
    BY <1>5, <1>6, <1>7 DEF CollaborationInv

\* The manager assigns a task that was requested.
LEMMA RequestedCollaboration ==
    ASSUME CollaborationInv, NEW c \in Contexts, TaskRequested(c)
    PROVE  CollaborationInv'
<1>1. /\ Receives(Manager, c, {"task.requested"})
      /\ UNCHANGED <<phase, working, done>>
    BY DEF TaskRequested, Reduces
<1>2. /\ Justified(Manager, c, Head(mailbox[Manager][c])) /\ Head(mailbox[Manager][c]).type \in {"task.requested"}
      /\ mailbox' \in [People -> [Contexts -> Seq(Event)]] /\ InboxFollows
      /\ UNCHANGED <<asks, asked, notices, lost>>
    BY <1>1, Received, PeopleFacts, Zenon
<1>3. PICK w \in Workers, t \in Tasks : Head(mailbox[Manager][c]).about = w /\ Head(mailbox[Manager][c]).task = t
    BY <1>2 DEF Justified, Event
<1>4. <<w, c, t>> \in asked /\ c \in TeamContexts
    BY <1>2, <1>3, ContextFacts DEF Justified, CallTypes
<1>5. /\ Becomes(Manager, c, t, "assigned") /\ to' = [to EXCEPT ![c][t] = w]
      /\ Emit(Manager, c, Mailed("task.assigned", w, t, w))
    BY <1>3 DEF TaskRequested
<1>6. /\ status' \in [People -> [Contexts -> [Tasks -> Statuses]]] /\ status'[Manager][c][t] = "assigned"
      /\ \A q \in People, d \in Contexts, u \in Tasks :
            q # Manager \/ d # c \/ u # t => status'[q][d][u] = status[q][d][u]
    <2>1. PICK s \in Statuses : s = "assigned"
        BY DEF Statuses
    <2>2. Manager \in People /\ CollaborationTypeOK /\ Becomes(Manager, c, t, s)
        BY <2>1, <1>5, PeopleFacts DEF CollaborationInv
    <2> QED
        BY <2>1, <2>2, BecomesFacts
<1>7. /\ to' \in [Contexts -> [Tasks -> Workers \cup {NoWorker}]] /\ to'[c][t] = w
      /\ \A d \in Contexts, u \in Tasks : d # c \/ u # t => to'[d][u] = to[d][u]
    BY <1>5 DEF CollaborationInv, CollaborationTypeOK
<1>8. Later
    BY <1>1, <1>2 DEF Later
<1>9. PICK mails \in Seq(Mail) :
        /\ mails = Mailed("task.assigned", w, t, w)
        /\ \A k \in DOMAIN mails :
               /\ mails[k].to = w /\ mails[k].event.type = "task.assigned" /\ mails[k].event.task = t
                                   /\ mails[k].event.about = w /\ mails[k].event \in Event
    <2>1. "task.assigned" \in Types /\ w \in People
        BY PeopleFacts DEF Types
    <2> QED
        BY <2>1, OneMail
<1>10. Emit(Manager, c, mails) /\ \A k \in DOMAIN mails : Justified(mails[k].to, c, mails[k].event)'
    BY <1>2, <1>4, <1>5, <1>9, ContextFacts DEF Justified, CallTypes, Addressed
<1>11. outbox' \in [People -> [Contexts -> Seq(Mail)]] /\ OutboxFollows
    BY <1>9, <1>10, EmittedTrue, PeopleFacts DEF CollaborationInv
<1>12. MailJustified'
    BY <1>2, <1>8, <1>11, MailKept DEF CollaborationInv
<1>13. CollaborationTypeOK'
    BY <1>1, <1>2, <1>6, <1>7, <1>11 DEF CollaborationInv, CollaborationTypeOK
<1>14. Asking'
    <2>1. \A d \in TeamContexts, u \in Tasks : status'[Manager][d][u] # "none" => <<to'[d][u], d, u>> \in asked'
        <3> SUFFICES ASSUME NEW d \in TeamContexts, NEW u \in Tasks, status'[Manager][d][u] # "none"
                     PROVE  <<to'[d][u], d, u>> \in asked'
            OBVIOUS
        <3>1. CASE d = c /\ u = t
            BY <3>1, <1>2, <1>4, <1>7
        <3>2. CASE ~(d = c /\ u = t)
            <4>1. d \in Contexts /\ Manager \in People
                BY ContextFacts, PeopleFacts
            <4>2. status'[Manager][d][u] = status[Manager][d][u] /\ to'[d][u] = to[d][u]
                BY <3>2, <4>1, <1>6, <1>7
            <4> QED
                BY <4>2, <1>2 DEF CollaborationInv, Asking
        <3> QED
            BY <3>1, <3>2
    <2>2. \A d \in Contexts, u \in Tasks : status'[Manager][d][u] = "approved" => Did(d, u)'
        BY <1>1, <1>6, PeopleFacts DEF CollaborationInv, Asking, Did
    <2> QED
        BY <2>1, <2>2, <1>1, <1>2 DEF CollaborationInv, Asking
<1>15. Ending'
    BY <1>1, <1>2, EndingKept DEF CollaborationInv
<1> QED
    BY <1>12, <1>13, <1>14, <1>15 DEF CollaborationInv

\* The manager notes the progress of a task.
LEMMA ProgressCollaboration ==
    ASSUME CollaborationInv, NEW c \in Contexts, TaskProgress(c)
    PROVE  CollaborationInv'
<1>1. /\ Receives(Manager, c, {"task.progress", "task.suspended"})
      /\ status[Manager][c][Head(mailbox[Manager][c]).task] # "none"
      /\ UNCHANGED <<to, phase, outbox, working, done>>
    BY DEF TaskProgress, Reduces
<1>2. /\ Justified(Manager, c, Head(mailbox[Manager][c]))
      /\ mailbox' \in [People -> [Contexts -> Seq(Event)]] /\ InboxFollows
      /\ UNCHANGED <<asks, asked, notices, lost>>
    BY <1>1, Received, PeopleFacts, Zenon
<1>3. PICK t \in Tasks : Head(mailbox[Manager][c]).task = t
    BY <1>2 DEF Justified, Event
<1>4. PICK s \in Statuses : Becomes(Manager, c, t, s) /\ s # "approved"
    BY <1>3 DEF TaskProgress, Statuses
<1>5. Asking' /\ status' \in [People -> [Contexts -> [Tasks -> Statuses]]]
    BY <1>1, <1>2, <1>3, <1>4, ManagerMarks
<1>6. Later
    BY <1>1, <1>2 DEF Later
<1>7. MailJustified'
    BY <1>1, <1>2, <1>6, MailKept, OutboxKept DEF CollaborationInv
<1>8. CollaborationTypeOK'
    BY <1>1, <1>2, <1>5 DEF CollaborationInv, CollaborationTypeOK
<1>9. Ending'
    BY <1>1, <1>2, EndingKept DEF CollaborationInv
<1> QED
    BY <1>5, <1>7, <1>8, <1>9 DEF CollaborationInv

\* The manager has a completed task reviewed, by the worker that it is assigned to.
LEMMA CompletedCollaboration ==
    ASSUME CollaborationInv, NEW c \in Contexts, TaskCompleted(c)
    PROVE  CollaborationInv'
<1>1. /\ Receives(Manager, c, {"task.completed"})
      /\ status[Manager][c][Head(mailbox[Manager][c]).task] # "none"
      /\ UNCHANGED <<to, phase, working, done>>
    BY DEF TaskCompleted, Reduces
<1>2. /\ Justified(Manager, c, Head(mailbox[Manager][c])) /\ Head(mailbox[Manager][c]).type \in {"task.completed"}
      /\ mailbox' \in [People -> [Contexts -> Seq(Event)]] /\ InboxFollows
      /\ UNCHANGED <<asks, asked, notices, lost>>
    BY <1>1, Received, PeopleFacts, Zenon
<1>3. PICK v \in Workers, t \in Tasks : Head(mailbox[Manager][c]).about = v /\ Head(mailbox[Manager][c]).task = t
    BY <1>2 DEF Justified, Event
<1>4. c \in TeamContexts /\ Did(c, t)
    BY <1>2, <1>3, ContextFacts DEF Justified, CallTypes, Did
<1>5. PICK w \in Workers : to[c][t] = w /\ <<w, c, t>> \in asked
    <2>1. <<to[c][t], c, t>> \in asked
        BY <1>1, <1>3, <1>4 DEF CollaborationInv, Asking
    <2>2. asked \subseteq Workers \X Contexts \X Tasks
        BY DEF CollaborationInv, CollaborationTypeOK
    <2> QED
        BY <2>1, <2>2
<1>6. Becomes(Manager, c, t, "completed") /\ Emit(Manager, c, Mailed("review.requested", w, t, w))
    BY <1>3, <1>5 DEF TaskCompleted
<1>7. PICK s \in Statuses : Becomes(Manager, c, t, s) /\ s # "approved"
    BY <1>6 DEF Statuses
<1>8. Asking' /\ status' \in [People -> [Contexts -> [Tasks -> Statuses]]]
    BY <1>1, <1>2, <1>3, <1>7, ManagerMarks
<1>9. Later
    BY <1>1, <1>2 DEF Later
<1>10. PICK mails \in Seq(Mail) :
        /\ mails = Mailed("review.requested", w, t, w)
        /\ \A k \in DOMAIN mails :
               /\ mails[k].to = w /\ mails[k].event.type = "review.requested" /\ mails[k].event.task = t
                                   /\ mails[k].event.about = w /\ mails[k].event \in Event
    <2>1. "review.requested" \in Types /\ w \in People
        BY PeopleFacts DEF Types
    <2> QED
        BY <2>1, OneMail
<1>11. Did(c, t)'
    BY <1>1, <1>4 DEF Did
<1>12. Emit(Manager, c, mails) /\ \A k \in DOMAIN mails : Justified(mails[k].to, c, mails[k].event)'
    BY <1>2, <1>4, <1>5, <1>6, <1>10, <1>11, ContextFacts DEF Justified, CallTypes, Addressed
<1>13. outbox' \in [People -> [Contexts -> Seq(Mail)]] /\ OutboxFollows
    BY <1>12, EmittedTrue, PeopleFacts DEF CollaborationInv
<1>14. MailJustified'
    BY <1>2, <1>9, <1>13, MailKept DEF CollaborationInv
<1>15. CollaborationTypeOK'
    BY <1>1, <1>2, <1>8, <1>13 DEF CollaborationInv, CollaborationTypeOK
<1>16. Ending'
    BY <1>1, <1>2, EndingKept DEF CollaborationInv
<1> QED
    BY <1>8, <1>14, <1>15, <1>16 DEF CollaborationInv

\* A failure, an approval or an answer ends the manager's context.
LEMMA EndedCollaboration ==
    ASSUME CollaborationInv, NEW c \in Contexts, TaskFailed(c) \/ ReviewApproved(c) \/ ResponseArrives(c)
    PROVE  CollaborationInv'
<1> DEFINE e == Head(mailbox[Manager][c])
<1>1. PICK types : Receives(Manager, c, types)
    BY DEF TaskFailed, ReviewApproved, ResponseArrives, Reduces
<1>2. /\ Justified(Manager, c, e)
      /\ mailbox' \in [People -> [Contexts -> Seq(Event)]] /\ InboxFollows
      /\ UNCHANGED <<asks, asked, notices, lost>>
    BY <1>1, Received, PeopleFacts, Zenon
<1>3. StillOpen(Manager, c) /\ UNCHANGED <<to, outbox, working, done>>
    BY DEF TaskFailed, ReviewApproved, ResponseArrives, Reduces
<1>4. PICK w \in Workers, t \in Tasks : e.about = w /\ e.task = t
    BY <1>2 DEF Justified, Event
<1>5. AskedIn(w, c)
    BY <1>2, <1>4 DEF Justified, AskedIn
<1>6. \E s \in Statuses, ending \in {"completed", "failed"} :
        /\ Becomes(Manager, c, t, s) /\ Ends(Manager, c, ending)
        /\ c \in CallContexts \/ status[Manager][c][t] # "none"
        /\ s = "approved" => Did(c, t)
        /\ ending = "completed" => w \in Prompt \/ phase[w][c] = "completed"
        /\ ending = "failed" => phase[w][c] = "failed"
    <2>1. CASE TaskFailed(c)
        <3>1. /\ e.type = "task.failed" /\ status[Manager][c][t] # "none"
              /\ Becomes(Manager, c, t, "failed") /\ Ends(Manager, c, "failed")
            BY <2>1, <1>4 DEF TaskFailed, Reduces, Receives
        <3>2. phase[w][c] = "failed"
            BY <3>1, <1>2, <1>4 DEF Justified
        <3> QED
            BY <3>1, <3>2 DEF Statuses
    <2>2. CASE ReviewApproved(c)
        <3>1. /\ e.type = "review.approved" /\ status[Manager][c][t] # "none"
              /\ Becomes(Manager, c, t, "approved") /\ Ends(Manager, c, "completed")
            BY <2>2, <1>4 DEF ReviewApproved, Reduces, Receives
        <3>2. phase[w][c] = "completed" /\ Did(c, t)
            BY <3>1, <1>2, <1>4 DEF Justified
        <3> QED
            BY <3>1, <3>2 DEF Statuses
    <2>3. CASE ResponseArrives(c)
        <3>1. e.type \in {"response.created", "request.failed"}
            BY <2>3 DEF ResponseArrives, Reduces, Receives
        <3>2. c \in CallContexts
            BY <3>1, <1>2 DEF Justified, CallTypes
        <3>3. CASE e.type = "response.created"
            <4>1. Becomes(Manager, c, t, "completed") /\ Ends(Manager, c, "completed")
                BY <2>3, <3>3, <1>4 DEF ResponseArrives
            <4>2. w \in Prompt \/ phase[w][c] = "completed"
                BY <3>3, <1>2, <1>4 DEF Justified
            <4> QED
                BY <4>1, <4>2, <3>2 DEF Statuses
        <3>4. CASE e.type = "request.failed"
            <4>1. Becomes(Manager, c, t, "failed") /\ Ends(Manager, c, "failed")
                BY <2>3, <3>4, <1>4 DEF ResponseArrives
            <4>2. phase[w][c] = "failed"
                BY <3>4, <1>2, <1>4 DEF Justified
            <4> QED
                BY <4>1, <4>2, <3>2 DEF Statuses
        <3> QED
            BY <3>1, <3>3, <3>4
    <2> QED
        BY <2>1, <2>2, <2>3
<1> HIDE DEF e
<1>7. PICK s \in Statuses, ending \in {"completed", "failed"} :
        /\ Becomes(Manager, c, t, s) /\ Ends(Manager, c, ending)
        /\ c \in CallContexts \/ status[Manager][c][t] # "none"
        /\ s = "approved" => Did(c, t)
        /\ ending = "completed" => w \in Prompt \/ phase[w][c] = "completed"
        /\ ending = "failed" => phase[w][c] = "failed"
    BY <1>6
<1>8. Asking' /\ status' \in [People -> [Contexts -> [Tasks -> Statuses]]]
    BY <1>2, <1>3, <1>7, ManagerMarks
<1>9. Later /\ Ending' /\ phase' \in [People -> [Contexts -> Phases]]
    BY <1>2, <1>3, <1>5, <1>7, ManagerEnds
<1>10. MailJustified'
    BY <1>2, <1>3, <1>9, MailKept, OutboxKept DEF CollaborationInv
<1>11. CollaborationTypeOK'
    BY <1>2, <1>3, <1>8, <1>9 DEF CollaborationInv, CollaborationTypeOK
<1> QED
    BY <1>8, <1>9, <1>10, <1>11 DEF CollaborationInv

\* What a worker finds at the head of its mailbox, it was asked for.
LEMMA WorkerReceives ==
    ASSUME CollaborationInv, NEW w \in Workers, NEW c \in Contexts, NEW type \in Addressed, Receives(w, c, {type})
    PROVE  \E t \in Tasks :
              /\ Head(mailbox[w][c]).task = t
              /\ <<w, c, t>> \in asked
              /\ type \in CallTypes <=> c \in CallContexts
              /\ type = "review.requested" => Did(c, t)
<1> DEFINE e == Head(mailbox[w][c])
<1>1. Justified(w, c, e) /\ e.type \in {type}
    BY Received, PeopleFacts, Zenon
<1> HIDE DEF e
<1>2. e.task \in Tasks /\ e.about = w
    BY <1>1 DEF Justified, Event
<1>3. /\ <<w, c, e.task>> \in asked
      /\ (type \in CallTypes <=> c \in CallContexts) /\ (type = "review.requested" => Did(c, e.task))
    BY <1>1, <1>2 DEF Justified
<1> QED
    BY <1>2, <1>3 DEF e

\* More work.
LEMMA WorkTaken ==
    ASSUME CollaborationInv, NEW w \in Workers \ Prompt, NEW c \in Contexts, NEW t \in Tasks, <<w, c, t>> \in asked,
           working' = [working EXCEPT ![w][c][t] = @ + 1]
    PROVE  /\ working' \in [Workers -> [Contexts -> [Tasks -> Nat]]]
           /\ \A v \in Workers, d \in Contexts, u \in Tasks :
                  working'[v][d][u] > 0 => v \notin Prompt /\ <<v, d, u>> \in asked
<1>1. working \in [Workers -> [Contexts -> [Tasks -> Nat]]]
    BY DEF CollaborationInv, CollaborationTypeOK
<1>2. /\ working'[w][c] = [working[w][c] EXCEPT ![t] = @ + 1]
      /\ \A v \in Workers, d \in Contexts : v # w \/ d # c => working'[v][d] = working[v][d]
    BY <1>1
<1>3. \A v \in Workers, d \in Contexts : working'[v][d] \in [Tasks -> Nat]
    BY <1>1, <1>2
<1>4. working' \in [Workers -> [Contexts -> [Tasks -> Nat]]]
    BY <1>1, <1>3
<1>5. \A v \in Workers, d \in Contexts, u \in Tasks : v # w \/ d # c \/ u # t => working'[v][d][u] = working[v][d][u]
    BY <1>1, <1>2
<1>6. \A v \in Workers, d \in Contexts, u \in Tasks : working[v][d][u] > 0 => v \notin Prompt /\ <<v, d, u>> \in asked
    BY DEF CollaborationInv, Asking
<1> QED
    BY <1>4, <1>5, <1>6

\* A worker starts on its task, or has the result at once.
LEMMA AssignedCollaboration ==
    ASSUME CollaborationInv, NEW w \in Workers, NEW c \in Contexts, TaskAssigned(w, c)
    PROVE  CollaborationInv'
<1>1. Receives(w, c, {"task.assigned"}) /\ UNCHANGED <<to, phase>>
    BY DEF TaskAssigned, Reduces
<1>2. /\ mailbox' \in [People -> [Contexts -> Seq(Event)]] /\ InboxFollows
      /\ UNCHANGED <<asks, asked, notices, lost>>
    BY <1>1, Received, PeopleFacts, Zenon
<1>3. PICK t \in Tasks :
        /\ Head(mailbox[w][c]).task = t
        /\ <<w, c, t>> \in asked
        /\ "task.assigned" \in CallTypes <=> c \in CallContexts
    <2>1. PICK type \in Addressed : type = "task.assigned"
        BY DEF Addressed
    <2>2. Receives(w, c, {type})
        BY <1>1, <2>1
    <2>3. PICK t \in Tasks :
            /\ Head(mailbox[w][c]).task = t
            /\ <<w, c, t>> \in asked
            /\ type \in CallTypes <=> c \in CallContexts
            /\ type = "review.requested" => Did(c, t)
        BY <2>2, WorkerReceives
    <2> QED
        BY <2>1, <2>3
<1>4. c \in TeamContexts
    BY <1>3, ContextFacts DEF CallTypes
<1>5. /\ Becomes(w, c, t, "in-progress")
      /\ Emit(w, c, Mailed("task.progress", Manager, t, w) \o
                    IF Answers(w) THEN Mailed("task.completed", Manager, t, w) ELSE << >>)
      /\ IF w \in Prompt THEN done' = done \cup {<<w, c, t>>} /\ UNCHANGED working
         ELSE working' = [working EXCEPT ![w][c][t] = @ + 1] /\ UNCHANGED done
    BY <1>3 DEF TaskAssigned
<1>6. PICK s \in Statuses : Becomes(w, c, t, s)
    BY <1>5 DEF Statuses
<1>7. /\ done \subseteq done' /\ done' \subseteq asked /\ (w \in Prompt => <<w, c, t>> \in done')
      /\ \A v \in Workers \ Prompt, d \in CallContexts, u \in Tasks : <<v, d, u>> \in done' => <<v, d, u>> \in done
    BY <1>3, <1>5 DEF CollaborationInv, Asking
<1>8. /\ working' \in [Workers -> [Contexts -> [Tasks -> Nat]]]
      /\ \A v \in Workers, d \in Contexts, u \in Tasks :
             working'[v][d][u] > 0 => v \notin Prompt /\ <<v, d, u>> \in asked
    <2>1. CASE w \in Prompt
        BY <2>1, <1>5 DEF CollaborationInv, CollaborationTypeOK, Asking
    <2>2. CASE w \notin Prompt
        <3>1. w \in Workers \ Prompt /\ working' = [working EXCEPT ![w][c][t] = @ + 1]
            BY <2>2, <1>5
        <3> QED
            BY <3>1, <1>3, WorkTaken
    <2> QED
        BY <2>1, <2>2
<1>9. Asking' /\ status' \in [People -> [Contexts -> [Tasks -> Statuses]]]
    BY <1>1, <1>2, <1>6, <1>7, <1>8, WorkerMarks
<1>10. Later
    BY <1>1, <1>2, <1>7 DEF Later
<1>11. Ending'
    BY <1>1, <1>2, <1>7, EndingKept DEF CollaborationInv
<1>12. PICK r \in Seq(Mail) :
        /\ r = Mailed("task.progress", Manager, t, w)
        /\ \A k \in DOMAIN r : /\ r[k].to = Manager /\ r[k].event.type = "task.progress" /\ r[k].event.task = t
                               /\ r[k].event.about = w /\ r[k].event \in Event
    <2>1. "task.progress" \in Types /\ Manager \in People
        BY PeopleFacts DEF Types
    <2> QED
        BY <2>1, OneMail
<1>13. PICK sent \in Seq(Mail) :
        /\ sent = IF Answers(w) THEN Mailed("task.completed", Manager, t, w) ELSE << >>
        /\ \A k \in DOMAIN sent :
               /\ sent[k].to = Manager /\ sent[k].event.type = "task.completed" /\ sent[k].event.task = t
                               /\ sent[k].event.about = w /\ sent[k].event \in Event /\ w \in Prompt
    <2>1. CASE Answers(w)
        <3>1. "task.completed" \in Types /\ Manager \in People /\ w \in Prompt
            BY <2>1, PeopleFacts DEF Types, Answers
        <3> QED
            BY <2>1, <3>1, OneMail
    <2>2. CASE ~Answers(w)
        <3>1. << >> \in Seq(Mail) /\ DOMAIN << >> = {}
            OBVIOUS
        <3> QED
            BY <2>2, <3>1
    <2> QED
        BY <2>1, <2>2
<1>14. \A k \in DOMAIN r : Justified(r[k].to, c, r[k].event)'
    BY <1>2, <1>3, <1>4, <1>12, ContextFacts DEF Justified, CallTypes, Addressed
<1>15. \A k \in DOMAIN sent : Justified(sent[k].to, c, sent[k].event)'
    BY <1>2, <1>3, <1>4, <1>7, <1>13, ContextFacts DEF Justified, CallTypes, Addressed
<1>16. outbox' \in [People -> [Contexts -> Seq(Mail)]] /\ OutboxFollows
    <2>1. PICK mails \in Seq(Mail) :
            /\ mails = r \o sent
            /\ \A k \in DOMAIN mails :
                   (\E i \in DOMAIN r : mails[k] = r[i]) \/ \E i \in DOMAIN sent : mails[k] = sent[i]
        BY TwoMails
    <2>2. Emit(w, c, mails)
        BY <2>1, <1>5, <1>12, <1>13
    <2>3. ASSUME NEW k \in DOMAIN mails PROVE Justified(mails[k].to, c, mails[k].event)'
        BY <2>1, <1>14, <1>15
    <2>4. w \in People /\ CollaborationTypeOK
        BY PeopleFacts DEF CollaborationInv
    <2> QED
        BY <2>2, <2>3, <2>4, EmittedTrue
<1>17. MailJustified'
    BY <1>2, <1>10, <1>16, MailKept DEF CollaborationInv
<1>18. CollaborationTypeOK'
    <2>1. done' \subseteq Workers \X Contexts \X Tasks
        BY <1>7 DEF CollaborationInv, CollaborationTypeOK
    <2> QED
        BY <2>1, <1>1, <1>2, <1>8, <1>9, <1>16 DEF CollaborationInv, CollaborationTypeOK
<1> QED
    BY <1>9, <1>11, <1>17, <1>18 DEF CollaborationInv

\* A worker approves what somebody has a result of.
LEMMA ReviewedCollaboration ==
    ASSUME CollaborationInv, NEW w \in Workers, NEW c \in Contexts, ReviewRequested(w, c)
    PROVE  CollaborationInv'
<1>1. /\ Receives(w, c, {"review.requested"}) /\ StillOpen(w, c)
      /\ Ends(w, c, "completed") /\ UNCHANGED <<to, working, done>>
    BY DEF ReviewRequested, Reduces
<1>2. /\ mailbox' \in [People -> [Contexts -> Seq(Event)]] /\ InboxFollows
      /\ UNCHANGED <<asks, asked, notices, lost>>
    BY <1>1, Received, PeopleFacts, Zenon
<1>3. PICK t \in Tasks :
        /\ Head(mailbox[w][c]).task = t
        /\ <<w, c, t>> \in asked
        /\ "review.requested" \in CallTypes <=> c \in CallContexts
        /\ Did(c, t)
    <2>1. PICK type \in Addressed : type = "review.requested"
        BY DEF Addressed
    <2>2. Receives(w, c, {type})
        BY <1>1, <2>1
    <2>3. PICK t \in Tasks :
            /\ Head(mailbox[w][c]).task = t
            /\ <<w, c, t>> \in asked
            /\ type \in CallTypes <=> c \in CallContexts
            /\ type = "review.requested" => Did(c, t)
        BY <2>2, WorkerReceives
    <2> QED
        BY <2>1, <2>3
<1>4. c \in TeamContexts /\ Did(c, t)'
    BY <1>1, <1>3, ContextFacts DEF CallTypes, Did
<1>5. Becomes(w, c, t, "approved") /\ Emit(w, c, Mailed("review.approved", Manager, t, w))
    BY <1>3 DEF ReviewRequested
<1>6. PICK s \in Statuses : Becomes(w, c, t, s)
    BY <1>5 DEF Statuses
<1>7. /\ \A v \in Workers, d \in Contexts, u \in Tasks :
             working'[v][d][u] > 0 => v \notin Prompt /\ <<v, d, u>> \in asked
      /\ done \subseteq done' /\ done' \subseteq asked
    BY <1>1 DEF CollaborationInv, Asking
<1>8. Asking' /\ status' \in [People -> [Contexts -> [Tasks -> Statuses]]]
    BY <1>1, <1>2, <1>6, <1>7, WorkerMarks
<1>9. Later /\ Ending' /\ phase' \in [People -> [Contexts -> Phases]] /\ phase'[w][c] = "completed"
    <2>1. PICK x \in Phases : x = "completed"
        BY DEF Phases
    <2> QED
        BY <2>1, <1>1, <1>2, WorkerEnds
<1>10. PICK mails \in Seq(Mail) :
        /\ mails = Mailed("review.approved", Manager, t, w)
        /\ \A k \in DOMAIN mails :
               /\ mails[k].to = Manager /\ mails[k].event.type = "review.approved" /\ mails[k].event.task = t
                                   /\ mails[k].event.about = w /\ mails[k].event \in Event
    <2>1. "review.approved" \in Types /\ Manager \in People
        BY PeopleFacts DEF Types
    <2> QED
        BY <2>1, OneMail
<1>11. Emit(w, c, mails) /\ \A k \in DOMAIN mails : Justified(mails[k].to, c, mails[k].event)'
    BY <1>2, <1>3, <1>4, <1>5, <1>9, <1>10, ContextFacts DEF Justified, CallTypes, Addressed
<1>12. outbox' \in [People -> [Contexts -> Seq(Mail)]] /\ OutboxFollows
    BY <1>11, EmittedTrue, PeopleFacts DEF CollaborationInv
<1>13. MailJustified'
    BY <1>2, <1>9, <1>12, MailKept DEF CollaborationInv
<1>14. CollaborationTypeOK'
    BY <1>1, <1>2, <1>8, <1>9, <1>12 DEF CollaborationInv, CollaborationTypeOK
<1> QED
    BY <1>8, <1>9, <1>13, <1>14 DEF CollaborationInv

\* The responder answers at once, or asks its harness.
LEMMA CreatedCollaboration ==
    ASSUME CollaborationInv, NEW w \in Workers, NEW c \in Contexts, RequestCreated(w, c)
    PROVE  CollaborationInv'
<1>1. Receives(w, c, {"request.created"}) /\ UNCHANGED <<to, phase>>
    BY DEF RequestCreated, Reduces
<1>2. /\ mailbox' \in [People -> [Contexts -> Seq(Event)]] /\ InboxFollows
      /\ UNCHANGED <<asks, asked, notices, lost>>
    BY <1>1, Received, PeopleFacts, Zenon
<1>3. PICK t \in Tasks :
        /\ Head(mailbox[w][c]).task = t
        /\ <<w, c, t>> \in asked
        /\ "request.created" \in CallTypes <=> c \in CallContexts
    <2>1. PICK type \in Addressed : type = "request.created"
        BY DEF Addressed
    <2>2. Receives(w, c, {type})
        BY <1>1, <2>1
    <2>3. PICK t \in Tasks :
            /\ Head(mailbox[w][c]).task = t
            /\ <<w, c, t>> \in asked
            /\ type \in CallTypes <=> c \in CallContexts
            /\ type = "review.requested" => Did(c, t)
        BY <2>2, WorkerReceives
    <2> QED
        BY <2>1, <2>3
<1>4. c \in CallContexts
    BY <1>3 DEF CallTypes
<1>5. Becomes(w, c, t, "pending")
    BY <1>3 DEF RequestCreated
<1>6. PICK s \in Statuses : Becomes(w, c, t, s)
    BY <1>5 DEF Statuses
<1>7. CASE w \in Prompt
    <2>1. /\ Emit(w, c, Mailed("response.created", Manager, t, w))
          /\ done' = done \cup {<<w, c, t>>} /\ UNCHANGED working
        BY <1>3, <1>7 DEF RequestCreated
    <2>2. /\ done \subseteq done' /\ done' \subseteq asked
          /\ \A v \in Workers \ Prompt, d \in CallContexts, u \in Tasks :
                 <<v, d, u>> \in done' => <<v, d, u>> \in done
          /\ \A v \in Workers, d \in Contexts, u \in Tasks :
                 working'[v][d][u] > 0 => v \notin Prompt /\ <<v, d, u>> \in asked
        BY <2>1, <1>3, <1>7 DEF CollaborationInv, Asking
    <2>3. Asking' /\ status' \in [People -> [Contexts -> [Tasks -> Statuses]]]
        BY <2>2, <1>1, <1>2, <1>6, WorkerMarks
    <2>4. Later
        BY <2>2, <1>1, <1>2 DEF Later
    <2>5. Ending'
        BY <2>2, <1>1, <1>2, EndingKept DEF CollaborationInv
    <2>6. PICK mails \in Seq(Mail) :
            /\ mails = Mailed("response.created", Manager, t, w)
            /\ \A k \in DOMAIN mails :
                   /\ mails[k].to = Manager /\ mails[k].event.type = "response.created" /\ mails[k].event.task = t
                                       /\ mails[k].event.about = w /\ mails[k].event \in Event
        <3>1. "response.created" \in Types /\ Manager \in People
            BY PeopleFacts DEF Types
        <3> QED
            BY <3>1, OneMail
    <2>7. Emit(w, c, mails) /\ \A k \in DOMAIN mails : Justified(mails[k].to, c, mails[k].event)'
        BY <2>1, <2>6, <1>2, <1>3, <1>4, <1>7 DEF Justified, CallTypes, Addressed
    <2>8. outbox' \in [People -> [Contexts -> Seq(Mail)]] /\ OutboxFollows
        BY <2>7, EmittedTrue, PeopleFacts DEF CollaborationInv
    <2>9. MailJustified'
        BY <2>4, <2>8, <1>2, MailKept DEF CollaborationInv
    <2>10. CollaborationTypeOK'
        <3>1. done' \subseteq Workers \X Contexts \X Tasks
            BY <2>2 DEF CollaborationInv, CollaborationTypeOK
        <3> QED
            BY <3>1, <2>1, <2>3, <2>8, <1>1, <1>2 DEF CollaborationInv, CollaborationTypeOK
    <2> QED
        BY <2>3, <2>5, <2>9, <2>10 DEF CollaborationInv
<1>8. CASE w \notin Prompt
    <2>1. working' = [working EXCEPT ![w][c][t] = @ + 1] /\ UNCHANGED <<outbox, done>>
        BY <1>3, <1>8 DEF RequestCreated
    <2>2. /\ working' \in [Workers -> [Contexts -> [Tasks -> Nat]]]
          /\ \A v \in Workers, d \in Contexts, u \in Tasks :
                 working'[v][d][u] > 0 => v \notin Prompt /\ <<v, d, u>> \in asked
        BY <2>1, <1>3, <1>8, WorkTaken
    <2>3. done \subseteq done' /\ done' \subseteq asked
        BY <2>1 DEF CollaborationInv, Asking
    <2>4. Asking' /\ status' \in [People -> [Contexts -> [Tasks -> Statuses]]]
        BY <2>2, <2>3, <1>1, <1>2, <1>6, WorkerMarks
    <2>5. Later
        BY <2>1, <1>1, <1>2 DEF Later
    <2>6. Ending'
        BY <2>1, <1>1, <1>2, EndingKept DEF CollaborationInv
    <2>7. MailJustified'
        BY <2>1, <2>5, <1>2, MailKept, OutboxKept DEF CollaborationInv
    <2>8. CollaborationTypeOK'
        BY <2>1, <2>2, <2>4, <1>1, <1>2 DEF CollaborationInv, CollaborationTypeOK
    <2> QED
        BY <2>4, <2>6, <2>7, <2>8 DEF CollaborationInv
<1> QED
    BY <1>7, <1>8

\* A cancelled request ends the responder's conversation.
LEMMA CancelledCollaboration ==
    ASSUME CollaborationInv, NEW w \in Workers, NEW c \in Contexts, RequestCancelled(w, c)
    PROVE  CollaborationInv'
<1>1. /\ Receives(w, c, {"request.cancelled"}) /\ StillOpen(w, c)
      /\ Ends(w, c, "canceled") /\ UNCHANGED <<to, outbox, working, done>>
    BY DEF RequestCancelled, Reduces
<1>2. /\ mailbox' \in [People -> [Contexts -> Seq(Event)]] /\ InboxFollows
      /\ UNCHANGED <<asks, asked, notices, lost>>
    BY <1>1, Received, PeopleFacts, Zenon
<1>3. PICK t \in Tasks : Head(mailbox[w][c]).task = t
    <2>1. PICK type \in Addressed : type = "request.cancelled"
        BY DEF Addressed
    <2>2. Receives(w, c, {type})
        BY <1>1, <2>1
    <2>3. \E t \in Tasks :
            /\ Head(mailbox[w][c]).task = t
            /\ <<w, c, t>> \in asked
            /\ type \in CallTypes <=> c \in CallContexts
            /\ type = "review.requested" => Did(c, t)
        BY <2>2, WorkerReceives
    <2> QED
        BY <2>3
<1>4. PICK s \in Statuses : Becomes(w, c, t, s)
    BY <1>3 DEF RequestCancelled, Statuses
<1>5. /\ \A v \in Workers, d \in Contexts, u \in Tasks :
             working'[v][d][u] > 0 => v \notin Prompt /\ <<v, d, u>> \in asked
      /\ done \subseteq done' /\ done' \subseteq asked
    BY <1>1 DEF CollaborationInv, Asking
<1>6. Asking' /\ status' \in [People -> [Contexts -> [Tasks -> Statuses]]]
    BY <1>1, <1>2, <1>4, <1>5, WorkerMarks
<1>7. Later /\ Ending' /\ phase' \in [People -> [Contexts -> Phases]]
    <2>1. PICK x \in Phases : x = "canceled"
        BY DEF Phases
    <2> QED
        BY <2>1, <1>1, <1>2, WorkerEnds
<1>8. MailJustified'
    BY <1>1, <1>2, <1>7, MailKept, OutboxKept DEF CollaborationInv
<1>9. CollaborationTypeOK'
    BY <1>1, <1>2, <1>6, <1>7 DEF CollaborationInv, CollaborationTypeOK
<1> QED
    BY <1>6, <1>7, <1>8, <1>9 DEF CollaborationInv

\* Work done.
LEMMA WorkDone ==
    ASSUME CollaborationInv, NEW w \in Workers, NEW c \in Contexts, NEW t \in Tasks, working[w][c][t] > 0,
           working' = [working EXCEPT ![w][c][t] = @ - 1]
    PROVE  /\ working' \in [Workers -> [Contexts -> [Tasks -> Nat]]]
           /\ \A v \in Workers, d \in Contexts, u \in Tasks :
                  working'[v][d][u] > 0 => v \notin Prompt /\ <<v, d, u>> \in asked
           /\ w \notin Prompt /\ <<w, c, t>> \in asked
<1>1. working \in [Workers -> [Contexts -> [Tasks -> Nat]]]
    BY DEF CollaborationInv, CollaborationTypeOK
<1>2. /\ working'[w][c] = [working[w][c] EXCEPT ![t] = @ - 1]
      /\ \A v \in Workers, d \in Contexts : v # w \/ d # c => working'[v][d] = working[v][d]
    BY <1>1
<1>3. \A v \in Workers, d \in Contexts : working'[v][d] \in [Tasks -> Nat]
    BY <1>1, <1>2
<1>4. working' \in [Workers -> [Contexts -> [Tasks -> Nat]]]
    BY <1>1, <1>3
<1>5. \A v \in Workers, d \in Contexts, u \in Tasks : v # w \/ d # c \/ u # t => working'[v][d][u] = working[v][d][u]
    BY <1>1, <1>2
<1>6. \A v \in Workers, d \in Contexts, u \in Tasks : working[v][d][u] > 0 => v \notin Prompt /\ <<v, d, u>> \in asked
    BY DEF CollaborationInv, Asking
<1> QED
    BY <1>4, <1>5, <1>6

\* A harness reports, and its worker answers unless the conversation has ended.
LEMMA OutcomeCollaboration ==
    ASSUME CollaborationInv, NEW w \in Workers, NEW c \in Contexts, NEW t \in Tasks, Outcome(w, c, t)
    PROVE  CollaborationInv'
<1>1. /\ working[w][c][t] > 0 /\ working' = [working EXCEPT ![w][c][t] = @ - 1]
      /\ UNCHANGED <<to, mailbox, asks, asked, notices, lost>>
    BY DEF Outcome
<1>2. /\ working' \in [Workers -> [Contexts -> [Tasks -> Nat]]]
      /\ \A v \in Workers, d \in Contexts, u \in Tasks :
             working'[v][d][u] > 0 => v \notin Prompt /\ <<v, d, u>> \in asked
      /\ w \notin Prompt /\ <<w, c, t>> \in asked
    BY <1>1, WorkDone
<1>3. InboxFollows
    BY <1>1 DEF InboxFollows
<1>4. CASE UNCHANGED <<status, phase, outbox, done>>
    <2>1. Later /\ Ending'
        BY <1>1, <1>4, EndingKept DEF CollaborationInv, Later
    <2>2. Asking'
        BY <1>1, <1>2, <1>4 DEF CollaborationInv, Asking, Did
    <2>3. MailJustified'
        BY <2>1, <1>3, <1>4, MailKept, OutboxKept DEF CollaborationInv
    <2>4. CollaborationTypeOK'
        BY <1>1, <1>2, <1>4 DEF CollaborationInv, CollaborationTypeOK
    <2> QED
        BY <2>1, <2>2, <2>3, <2>4 DEF CollaborationInv
<1>5. ASSUME NEW ok \in BOOLEAN, MayResume(w, c), done' = IF ok THEN done \cup {<<w, c, t>>} ELSE done,
             IF c \in TeamContexts THEN WorkerResume(w, c, t, ok) ELSE ResponderResume(w, c, t, ok)
      PROVE  CollaborationInv'
    <2>1. StillOpen(w, c)
        BY <1>5 DEF MayResume
    <2>2. /\ done \subseteq done' /\ done' \subseteq done \cup {<<w, c, t>>} /\ done' \subseteq asked
          /\ (ok => <<w, c, t>> \in done') /\ (~ok => done' = done)
        BY <1>2, <1>5 DEF CollaborationInv, Asking
    <2>3. PICK type \in Types :
            /\ Emit(w, c, Mailed(type, Manager, t, w))
            /\ type = IF c \in TeamContexts THEN IF ok THEN "task.completed" ELSE "task.failed"
                      ELSE IF ok THEN "response.created" ELSE "request.failed"
        BY <1>5 DEF WorkerResume, ResponderResume, Types
    <2>4. PICK s \in Statuses : Becomes(w, c, t, s)
        BY <1>5 DEF WorkerResume, ResponderResume, Statuses
    <2>5. Asking' /\ status' \in [People -> [Contexts -> [Tasks -> Statuses]]]
        BY <2>2, <2>4, <1>1, <1>2, WorkerMarks
    <2>6. /\ Later /\ Ending' /\ phase' \in [People -> [Contexts -> Phases]]
          /\ ~ok => phase'[w][c] = "failed"
          /\ ok /\ c \notin TeamContexts => phase'[w][c] = "completed"
        <3>1. CASE ok /\ c \in TeamContexts
            <4>1. phase' = phase
                BY <3>1, <1>5 DEF WorkerResume
            <4>2. Later
                BY <4>1, <2>2, <1>1 DEF Later
            <4>3. \A v \in Workers \ Prompt, d \in CallContexts, u \in Tasks :
                      <<v, d, u>> \in done' => <<v, d, u>> \in done
                BY <3>1, <2>2, ContextFacts
            <4>4. Ending'
                BY <4>1, <4>3, <1>1, EndingKept DEF CollaborationInv
            <4> QED
                BY <3>1, <4>1, <4>2, <4>4 DEF CollaborationInv, CollaborationTypeOK
        <3>2. CASE ok /\ c \notin TeamContexts
            <4>1. PICK x \in Phases : x = "completed" /\ Ends(w, c, x)
                BY <3>2, <1>5 DEF ResponderResume, Phases
            <4> QED
                BY <3>2, <4>1, <2>1, <2>2, <1>1, WorkerEnds
        <3>3. CASE ~ok
            <4>1. PICK x \in Phases : x = "failed" /\ Ends(w, c, x)
                BY <3>3, <1>5 DEF WorkerResume, ResponderResume, Phases
            <4> QED
                BY <3>3, <4>1, <2>1, <2>2, <1>1, <1>2, WorkerEnds
        <3> QED
            BY <3>1, <3>2, <3>3
    <2>7. PICK mails \in Seq(Mail) :
            /\ mails = Mailed(type, Manager, t, w)
            /\ \A k \in DOMAIN mails :
                   /\ mails[k].to = Manager /\ mails[k].event.type = type /\ mails[k].event.task = t
                                       /\ mails[k].event.about = w /\ mails[k].event \in Event
        BY OneMail, PeopleFacts
    <2>8. \A k \in DOMAIN mails : Justified(mails[k].to, c, mails[k].event)'
        <3>1. /\ type \notin Addressed /\ type \notin {"review.requested", "review.approved"}
              /\ (type \in CallTypes <=> c \in CallContexts)
            BY <2>3, ContextFacts DEF Addressed, CallTypes
        <3>2. type = "task.completed" => <<w, c, t>> \in done'
            BY <2>2, <2>3
        <3>3. type = "response.created" => phase'[w][c] = "completed"
            BY <2>3, <2>6
        <3>4. type \in {"task.failed", "request.failed"} => phase'[w][c] = "failed"
            BY <2>3, <2>6
        <3> QED
            BY <2>7, <3>1, <3>2, <3>3, <3>4, <1>1, <1>2 DEF Justified
    <2>9. outbox' \in [People -> [Contexts -> Seq(Mail)]] /\ OutboxFollows
        <3>1. Emit(w, c, mails) /\ w \in People /\ CollaborationTypeOK
            BY <2>3, <2>7, PeopleFacts DEF CollaborationInv
        <3> QED
            BY <3>1, <2>8, EmittedTrue
    <2>10. MailJustified'
        BY <2>6, <2>9, <1>3, MailKept DEF CollaborationInv
    <2>11. CollaborationTypeOK'
        <3>1. done' \subseteq Workers \X Contexts \X Tasks
            BY <2>2 DEF CollaborationInv, CollaborationTypeOK
        <3> QED
            BY <3>1, <2>5, <2>6, <2>9, <1>1, <1>2 DEF CollaborationInv, CollaborationTypeOK
    <2> QED
        BY <2>5, <2>6, <2>10, <2>11 DEF CollaborationInv
<1> QED
    BY <1>4, <1>5 DEF Outcome

\* The next mail leaves the outbox.
Leaves(p, c) == outbox' = [outbox EXCEPT ![p][c] = Tail(@)]

\* What leaves an outbox is true.
LEMMA Mailing ==
    ASSUME CollaborationInv, NEW p \in People, NEW c \in Contexts, outbox[p][c] # << >>, Leaves(p, c)
    PROVE  /\ Head(outbox[p][c]).to \in People /\ Head(outbox[p][c]).event \in Event
           /\ Justified(Head(outbox[p][c]).to, c, Head(outbox[p][c]).event)
           /\ outbox' \in [People -> [Contexts -> Seq(Mail)]] /\ OutboxFollows
<1> DEFINE s == outbox[p][c]
<1>1. outbox \in [People -> [Contexts -> Seq(Mail)]] /\ s \in Seq(Mail) /\ s # << >>
    BY DEF CollaborationInv, CollaborationTypeOK
<1>2. outbox' = [outbox EXCEPT ![p][c] = Tail(s)]
    BY DEF Leaves
<1> HIDE DEF s
<1>3. /\ Head(s) = s[1] /\ 1 \in DOMAIN s /\ Head(s) \in Mail /\ Tail(s) \in Seq(Mail)
      /\ \A i \in DOMAIN Tail(s) : i + 1 \in DOMAIN s /\ Tail(s)[i] = s[i + 1]
    <2>1. Len(s) \in Nat \ {0} /\ DOMAIN s = 1..Len(s) /\ Head(s) = s[1] /\ Head(s) \in Mail
        BY <1>1
    <2>2. /\ Tail(s) \in Seq(Mail) /\ DOMAIN Tail(s) = 1..(Len(s) - 1)
          /\ \A i \in 1..(Len(s) - 1) : Tail(s)[i] = s[i + 1]
        BY <1>1
    <2> QED
        BY <2>1, <2>2
<1>4. /\ outbox' \in [People -> [Contexts -> Seq(Mail)]]
      /\ \A q \in People, d \in Contexts : outbox'[q][d] = IF q = p /\ d = c THEN Tail(s) ELSE outbox[q][d]
    <2>1. PICK x \in Seq(Mail) : x = Tail(s) /\ outbox' = [outbox EXCEPT ![p][c] = x]
        BY <1>2, <1>3
    <2> QED
        BY <1>1, <2>1, CellSet
<1>5. Justified(Head(s).to, c, Head(s).event)
    BY <1>3 DEF CollaborationInv, MailJustified, s
<1>6. \A q \in People, d \in Contexts : \A j \in DOMAIN outbox[q][d] : outbox[q][d][j].to \in People
    <2> SUFFICES ASSUME NEW q \in People, NEW d \in Contexts, NEW j \in DOMAIN outbox[q][d]
                 PROVE  outbox[q][d][j].to \in People
        OBVIOUS
    <2>1. outbox[q][d] \in Seq(Mail)
        BY <1>1
    <2>2. outbox[q][d][j] \in Mail
        BY <2>1
    <2> QED
        BY <2>2 DEF Mail
<1>7. ASSUME NEW q \in People, NEW d \in Contexts, NEW i \in DOMAIN outbox'[q][d]
      PROVE  \E j \in DOMAIN outbox[q][d] : outbox'[q][d][i] = outbox[q][d][j]
    <2>1. CASE q = p /\ d = c
        BY <2>1, <1>3, <1>4 DEF s
    <2>2. CASE ~(q = p /\ d = c)
        BY <2>2, <1>4
    <2> QED
        BY <2>1, <2>2
<1>8. OutboxFollows
    BY <1>6, <1>7 DEF OutboxFollows
<1> QED
    BY <1>3, <1>4, <1>5, <1>8 DEF Mail, s

\* An effect is published, and delivered to whom it is for.
LEMMA PublishCollaboration ==
    ASSUME CollaborationInv, NEW p \in People, NEW c \in Contexts, Publish(p, c)
    PROVE  CollaborationInv'
<1>1. /\ outbox[p][c] # << >> /\ Leaves(p, c)
      /\ Delivers(Head(outbox[p][c]).to, c, Head(outbox[p][c]).event)
      /\ UNCHANGED <<stateVars, working, asks, asked, done, notices, lost>>
    BY DEF Publish, Delivers, Leaves
<1>2. /\ Head(outbox[p][c]).to \in People /\ Head(outbox[p][c]).event \in Event
      /\ Justified(Head(outbox[p][c]).to, c, Head(outbox[p][c]).event)
      /\ outbox' \in [People -> [Contexts -> Seq(Mail)]] /\ OutboxFollows
    BY <1>1, Mailing
<1>3. Later
    BY <1>1 DEF Later, stateVars
<1>4. PICK q \in People, e \in Event : Delivers(q, c, e) /\ Justified(q, c, e)
    BY <1>1, <1>2
<1>5. Justified(q, c, e)'
    BY <1>3, <1>4, JustifiedKept
<1>6. /\ mailbox' \in [People -> [Contexts -> Seq(Event)]]
      /\ \A r \in People, d \in Contexts : \A i \in DOMAIN mailbox'[r][d] :
            \/ \E j \in DOMAIN mailbox[r][d] : mailbox'[r][d][i] = mailbox[r][d][j]
            \/ r = q /\ d = c /\ mailbox'[r][d][i] = e
    <2>1. CollaborationTypeOK /\ Delivers(q, c, e)
        BY <1>4 DEF CollaborationInv
    <2> QED
        BY <2>1, Delivered
<1>7. InboxFollows
    BY <1>5, <1>6 DEF InboxFollows
<1>8. MailJustified'
    BY <1>2, <1>3, <1>7, MailKept DEF CollaborationInv
<1>9. CollaborationTypeOK'
    BY <1>1, <1>2, <1>6 DEF CollaborationInv, CollaborationTypeOK, stateVars
<1>10. Asking' /\ Ending'
    BY <1>1, EndingKept DEF CollaborationInv, Asking, Did, stateVars
<1> QED
    BY <1>8, <1>9, <1>10 DEF CollaborationInv

\* An effect that cannot be published is lost.
LEMMA PublishFailsCollaboration ==
    ASSUME CollaborationInv, NEW p \in People, NEW c \in Contexts, PublishFails(p, c)
    PROVE  CollaborationInv'
<1>1. /\ outbox[p][c] # << >> /\ Leaves(p, c)
      /\ lost' = lost \cup {c}
      /\ UNCHANGED <<stateVars, mailbox, working, asks, asked, done, notices>>
    BY DEF PublishFails, Leaves
<1>2. outbox' \in [People -> [Contexts -> Seq(Mail)]] /\ OutboxFollows
    BY <1>1, Mailing
<1>3. Later /\ InboxFollows
    BY <1>1 DEF Later, InboxFollows, stateVars
<1>4. MailJustified'
    BY <1>2, <1>3, MailKept DEF CollaborationInv
<1>5. CollaborationTypeOK'
    BY <1>1, <1>2 DEF CollaborationInv, CollaborationTypeOK, stateVars
<1>6. Asking' /\ Ending'
    BY <1>1, EndingKept DEF CollaborationInv, Asking, Did, stateVars
<1> QED
    BY <1>4, <1>5, <1>6 DEF CollaborationInv

-----------------------------------------------------------------------------
\* The invariant holds before anything is asked.
LEMMA CollaborationInvInit == CollaborationInit => CollaborationInv
<1> SUFFICES ASSUME CollaborationInit PROVE CollaborationInv
    OBVIOUS
<1> USE DEF CollaborationInit
<1>1. CollaborationTypeOK
    <2>1. << >> \in Seq(Mail) /\ << >> \in Seq(Event) /\ "none" \in Statuses /\ "open" \in Phases
        BY DEF Statuses, Phases
    <2>2. asks \in 0..MaxAsks /\ notices \in 0..MaxNotices
        BY CollaborationAssumption
    <2> QED
        BY <2>1, <2>2 DEF CollaborationTypeOK
<1>2. \A p \in People, c \in Contexts : mailbox[p][c] = << >> /\ outbox[p][c] = << >> /\ phase[p][c] = "open"
    OBVIOUS
<1>3. MailJustified
    BY <1>2 DEF MailJustified
<1>4. Asking
    BY PeopleFacts, ContextFacts DEF Asking
<1>5. Ending
    BY <1>2, PeopleFacts, CollaborationAssumption DEF Ending
<1> QED
    BY <1>1, <1>3, <1>4, <1>5 DEF CollaborationInv

\* Every step keeps the invariant.
LEMMA CollaborationInvNext == CollaborationInv /\ [CollaborationNext]_collaborationVars => CollaborationInv'
<1> SUFFICES ASSUME CollaborationInv, [CollaborationNext]_collaborationVars PROVE CollaborationInv'
    OBVIOUS
<1>1. ASSUME NEW c \in Contexts, NEW p \in People, Pump(p, c) PROVE CollaborationInv'
    <2>1. CASE IgnoreTerminal(p, c) \/ FailUnknown(p, c)
        BY <2>1, IgnoredCollaboration
    <2>2. CASE ManagerStep(c)
        BY <2>2, RequestedCollaboration, ProgressCollaboration, CompletedCollaboration, EndedCollaboration
        DEF ManagerStep
    <2>3. CASE p # Manager /\ WorkerStep(p, c)
        <3>1. p \in Workers
            BY <2>3, PeopleFacts
        <3> QED
            BY <2>3, <3>1, AssignedCollaboration, ReviewedCollaboration, CreatedCollaboration, CancelledCollaboration
            DEF WorkerStep
    <2> QED
        BY <1>1, <2>1, <2>2, <2>3 DEF Pump
<1>2. ASSUME NEW c \in Contexts, NEW p \in People, Publish(p, c) \/ PublishFails(p, c) PROVE CollaborationInv'
    BY <1>2, PublishCollaboration, PublishFailsCollaboration
<1>3. ASSUME NEW c \in Contexts, NEW w \in Workers, NEW t \in Tasks, Ask(w, c, t) \/ Notify(w, c, t) \/ Outcome(w, c, t)
      PROVE  CollaborationInv'
    BY <1>3, AskCollaboration, NotifyCollaboration, OutcomeCollaboration
<1>4. CASE UNCHANGED collaborationVars
    <2>1. UNCHANGED <<stateVars, outbox, mailbox, working, asks, asked, done, notices, lost>>
        BY <1>4 DEF collaborationVars
    <2>2. Later /\ InboxFollows
        BY <2>1 DEF Later, InboxFollows, stateVars
    <2>3. MailJustified'
        BY <2>1, <2>2, MailKept, OutboxKept DEF CollaborationInv
    <2>4. CollaborationTypeOK'
        BY <2>1 DEF CollaborationInv, CollaborationTypeOK, stateVars
    <2>5. Asking' /\ Ending'
        BY <2>1, EndingKept DEF CollaborationInv, Asking, Did, stateVars
    <2> QED
        BY <2>3, <2>4, <2>5 DEF CollaborationInv
<1> QED
    BY <1>1, <1>2, <1>3, <1>4 DEF CollaborationNext

\* The invariant of the two applications holds in every reachable state.
LEMMA CollaborationInvHolds == CollaborationSpec => []CollaborationInv
<1>1. CollaborationInit => CollaborationInv
    BY CollaborationInvInit
<1>2. CollaborationInv /\ [CollaborationNext]_collaborationVars => CollaborationInv'
    BY CollaborationInvNext
<1> QED
    BY <1>1, <1>2, PTL DEF CollaborationSpec

\* The manager approves a task only if it was done: by the one worker asked for it, if there
\* was one, whatever was lost and however often it was asked for.
THEOREM ApprovedWasDoneHolds == CollaborationSpec => []ApprovedWasDone
<1>1. CollaborationInv => ApprovedWasDone
    <2> SUFFICES ASSUME CollaborationInv, NEW w \in Workers, NEW c \in TeamContexts, NEW t \in Tasks,
                        status[Manager][c][t] = "approved", {x \in AskedFor(c) : x[3] = t} = {<<w, c, t>>}
                 PROVE  <<w, c, t>> \in done
        BY DEF ApprovedWasDone
    <2>1. Did(c, t)
        BY ContextFacts DEF CollaborationInv, Asking
    <2>2. PICK v \in Workers : <<v, c, t>> \in done
        BY <2>1 DEF Did
    <2>3. <<v, c, t>> \in {x \in AskedFor(c) : x[3] = t}
        BY <2>2 DEF CollaborationInv, Asking, AskedFor
    <2> QED
        BY <2>2, <2>3
<1> QED
    BY <1>1, CollaborationInvHolds, PTL

\* Manager and worker never end a conversation of the two differently, one as completed and
\* the other as failed, in whatever order reviews, results and failures arrive.
THEOREM EndsAgreeHolds == CollaborationSpec => []EndsAgree
<1>1. CollaborationInv => EndsAgree
    <2> SUFFICES ASSUME CollaborationInv, NEW w \in Workers, NEW c \in Contexts, \A x \in AskedFor(c) : x[1] = w,
                        {phase[Manager][c], phase[w][c]} = {"completed", "failed"}
                 PROVE  FALSE
        BY DEF EndsAgree
    <2>1. \A v \in Workers : AskedIn(v, c) => v = w
        <3> SUFFICES ASSUME NEW v \in Workers, NEW t \in Tasks, <<v, c, t>> \in asked PROVE v = w
            BY DEF AskedIn
        <3>1. <<v, c, t>> \in AskedFor(c)
            BY DEF AskedFor
        <3>2. <<v, c, t>>[1] = w
            BY <3>1
        <3> QED
            BY <3>2
    <2>2. /\ phase[Manager][c] = "completed"
                => \E v \in Workers : AskedIn(v, c) /\ (v \in Prompt \/ phase[v][c] = "completed")
          /\ phase[Manager][c] = "failed" => \E v \in Workers : AskedIn(v, c) /\ phase[v][c] = "failed"
        BY DEF CollaborationInv, Ending
    <2>3. w \in Prompt => phase[w][c] # "failed"
        BY DEF CollaborationInv, Ending
    <2> QED
        BY <2>1, <2>2, <2>3
<1> QED
    BY <1>1, CollaborationInvHolds, PTL

\* A responder that asks a harness publishes no response in a conversation that was cancelled.
THEOREM CancelledUnansweredHolds == CollaborationSpec => []CancelledUnanswered
<1>1. CollaborationInv => CancelledUnanswered
    BY DEF CollaborationInv, Ending, CancelledUnanswered
<1> QED
    BY <1>1, CollaborationInvHolds, PTL
=============================================================================
