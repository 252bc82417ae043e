---------------------------- MODULE TaskDecisions ----------------------------
(***************************************************************************)
(* What a person and a harness decide about the work of one channel: the   *)
(* agent_comm tool of a session (channel.ts), the A2A updates it sends to  *)
(* the requester (a2a/channel-adapter.ts), the authorizations on record    *)
(* (store/application-repos.ts) and the messages a local home holds.       *)
(*                                                                         *)
(* The inbox, the authorizations and the updates sent are durable.  A      *)
(* session knows an event by pendingEvents, in memory; its tool calls run  *)
(* side by side and await between their steps.                             *)
(***************************************************************************)
EXTENDS Naturals, Sequences, FiniteSets

CONSTANTS
    Events,         \* work events of the channel
    Calls,          \* tool calls open at the same time
    Authorizations, \* authorization ids
    Holds,          \* messages held by the home of the channel
    MaxFaults       \* bound on crashes, failed sends and refused notifications

ASSUME DecisionsAssumption == MaxFaults \in Nat

VARIABLES
    inbox,         \* unread work
    authorization, \* task_authorizations, and no status for an unused id
    updates,       \* the kinds of update sent to the requester of each event
    late,          \* history: events whose requester heard more after the task had ended
    held,          \* messages the home holds
    active,        \* the channel is in activeChannels
    pump,          \* where pollOnce is, and what is left of its snapshot
    pending,       \* pendingEvents
    announced,     \* announcedEvents
    approvals,     \* announcedApprovals
    call,          \* tool calls
    disturbed,     \* history: events two calls met on, or a fault or a stale offer interrupted
    faults

durable == <<inbox, authorization, updates, late, held>>
session == <<active, pump, pending, announced, approvals>>
vars == <<durable, session, call, disturbed, faults>>

\* The update each operation sends.  (reply sends its answer before the completion, which
\* is ChannelPump's subject.)
Sends == [complete              |-> "completed",
          request_input         |-> "input-required",
          request_authorization |-> "auth-required",
          reject                |-> "rejected"]

Operations == DOMAIN Sends
Updates == {Sends[op] : op \in Operations}
Terminal == {"completed", "rejected"}

Idle == [pc |-> "idle"]
Call == [pc : {"open", "sent", "acked"}, op : Operations, event : Events]
Open == {c \in Calls : call[c] # Idle}

Unused == [status |-> "unused"]
Row == [event : Events, status : {"pending", "approved", "rejected"}]

TypeOK ==
    /\ inbox \subseteq Events
    /\ authorization \in [Authorizations -> Row \cup {Unused}]
    /\ updates \in [Events -> SUBSET Updates]
    /\ late \subseteq Events
    /\ held \subseteq Holds
    /\ active \in BOOLEAN
    /\ pump \in [pc : {"idle", "inbox", "approvals"}, rest : SUBSET (Events \cup Holds)]
    /\ pending \subseteq Events /\ announced \subseteq Events
    /\ approvals \subseteq Holds
    /\ call \in [Calls -> Call \cup {Idle}]
    /\ disturbed \subseteq Events
    /\ faults \in 0..MaxFaults

\* The work and the held messages reached the profile while no session was on.
Asleep == [pc |-> "idle", rest |-> {}]

Init ==
    /\ inbox = Events
    /\ authorization = [a \in Authorizations |-> Unused]
    /\ updates = [e \in Events |-> {}]
    /\ late = {}
    /\ held = Holds
    /\ active = FALSE /\ pump = Asleep
    /\ pending = {} /\ announced = {} /\ approvals = {}
    /\ call = [c \in Calls |-> Idle]
    /\ disturbed = {} /\ faults = 0

Fault == faults < MaxFaults /\ faults' = faults + 1

-----------------------------------------------------------------------------
(***************************************************************************)
(* The pump: one round shows the unread work, then the held messages.      *)
(***************************************************************************)
\* A session starts without active channels; share, connect and activate make one active.
Activate ==
    /\ ~active /\ active' = TRUE
    /\ UNCHANGED <<durable, pump, pending, announced, approvals, call, disturbed, faults>>

PollOnce ==
    /\ active /\ pump.pc = "idle"
    /\ pump' = [pc |-> "inbox", rest |-> inbox]
    /\ UNCHANGED <<durable, active, pending, announced, approvals, call, disturbed, faults>>

\* The snapshot may be stale: work that was answered since is registered again.
Register(e) ==
    /\ pending' = pending \cup {e}
    /\ disturbed' = IF e \in inbox THEN disturbed ELSE disturbed \cup {e}

ShowWork(e) ==
    /\ pump.pc = "inbox" /\ e \in pump.rest
    /\ pump' = [pump EXCEPT !.rest = @ \ {e}]
    /\ IF e \in announced THEN UNCHANGED <<pending, disturbed>> ELSE Register(e)
    /\ announced' = announced \cup {e}
    /\ UNCHANGED <<durable, active, approvals, call, faults>>

PushApprovals ==
    /\ pump.pc = "inbox" /\ pump.rest = {}
    /\ pump' = [pc |-> "approvals", rest |-> held \ approvals]
    /\ UNCHANGED <<durable, active, pending, announced, approvals, call, disturbed, faults>>

ShowHold(h) ==
    /\ pump.pc = "approvals" /\ h \in pump.rest
    /\ pump' = [pump EXCEPT !.rest = @ \ {h}]
    /\ approvals' = approvals \cup {h}
    /\ UNCHANGED <<durable, active, pending, announced, call, disturbed, faults>>

\* pollOnce clears its polling flag whatever happened.
EndRound ==
    /\ pump.pc = "approvals" /\ pump.rest = {}
    /\ pump' = Asleep
    /\ UNCHANGED <<durable, active, pending, announced, approvals, call, disturbed, faults>>

\* notify throws: the rest of the round is dropped, held messages included.
\* Mutant of AfterRefusal: the polling flag stays set.
AfterRefusalStuck == [pc |-> "polling", rest |-> {}]

AfterRefusal == Asleep

Refused ==
    /\ pump.rest # {} /\ Fault
    /\ \/ pump.pc = "inbox" /\ \E e \in Events \ announced : e \in pump.rest /\ Register(e)
       \/ pump.pc = "approvals" /\ UNCHANGED <<pending, disturbed>>
    /\ pump' = AfterRefusal
    /\ UNCHANGED <<durable, active, announced, approvals, call>>

-----------------------------------------------------------------------------
(***************************************************************************)
(* Tool calls on an event.                                                 *)
(***************************************************************************)
OpenCall(c, op, e) ==
    /\ call[c] = Idle
    /\ call' = [call EXCEPT ![c] = [pc |-> "open", op |-> op, event |-> e]]
    /\ disturbed' = IF \E d \in Open : call[d].event = e THEN disturbed \cup {e} ELSE disturbed

Free == {a \in Authorizations : authorization[a] = Unused}

\* complete, request_input and request_task_authorization look the event up in
\* pendingEvents.  The bound on authorizations is a bound on the requests for one.
Begin(c, op, e) ==
    /\ e \in pending /\ op # "reject"
    /\ op = "request_authorization" =>
        Cardinality({d \in Open : call[d].op = op}) < Cardinality(Free)
    /\ OpenCall(c, op, e)
    /\ UNCHANGED <<durable, session, faults>>

At(c, pc, ops) == c \in Open /\ call[c].pc = pc /\ call[c].op \in ops

\* engine.send: the update is in the outbox or at the home.
SendUpdate(c) ==
    /\ At(c, "open", Operations)
    /\ LET e == call[c].event
       IN  /\ updates' = [updates EXCEPT ![e] = @ \cup {Sends[call[c].op]}]
           /\ late' = IF updates[e] \cap Terminal = {} THEN late ELSE late \cup {e}
    /\ call' = [call EXCEPT ![c].pc = "sent"]
    /\ UNCHANGED <<inbox, authorization, held, session, disturbed, faults>>

\* The home refuses the update, of a paused channel for one: the tool call ends in an error.
SendFails(c) ==
    /\ At(c, "open", Operations) /\ Fault
    /\ call' = [call EXCEPT ![c] = Idle]
    /\ UNCHANGED <<durable, session, disturbed>>

\* request_task_authorization puts the request on record after it was sent, and keeps the
\* event unread and registered.
\* Mutants of KeepEvent: the event is acknowledged; it is forgotten, as request_input does.
KeepEventAcked(e) == inbox' = inbox \ {e} /\ UNCHANGED pending
KeepEventForgotten(e) == pending' = pending \ {e} /\ UNCHANGED inbox

KeepEvent(e) == UNCHANGED <<inbox, pending>>

RecordAuthorization(c, a) ==
    /\ At(c, "sent", {"request_authorization"}) /\ a \in Free
    /\ authorization' = [authorization EXCEPT ![a] = [event |-> call[c].event, status |-> "pending"]]
    /\ KeepEvent(call[c].event)
    /\ call' = [call EXCEPT ![c] = Idle]
    /\ UNCHANGED <<updates, late, held, active, pump, announced, approvals, disturbed, faults>>

\* The other operations acknowledge the event and then forget it.
AckEvent(c) ==
    /\ At(c, "sent", Operations \ {"request_authorization"})
    /\ inbox' = inbox \ {call[c].event}
    /\ call' = [call EXCEPT ![c].pc = "acked"]
    /\ UNCHANGED <<authorization, updates, late, held, session, disturbed, faults>>

\* Mutant of Forget: the event stays registered.
ForgetKeeping(e) == announced' = announced \ {e} /\ UNCHANGED pending

Forget(e) == pending' = pending \ {e} /\ announced' = announced \ {e}

Finish(c) ==
    /\ At(c, "acked", Operations)
    /\ Forget(call[c].event)
    /\ call' = [call EXCEPT ![c] = Idle]
    /\ UNCHANGED <<durable, active, pump, approvals, disturbed, faults>>

-----------------------------------------------------------------------------
(***************************************************************************)
(* Decisions.                                                              *)
(***************************************************************************)
\* decide: the row is written while it is pending; the same decision again is no error.
Decidable(a, decision) == authorization[a] # Unused /\ authorization[a].status \in {"pending", decision}

\* A rejection is sent to the requester if this session has the event registered.
ResolveAuthorization(c, a, decision) ==
    /\ call[c] = Idle
    /\ Decidable(a, decision)
    /\ authorization' = [authorization EXCEPT ![a].status = decision]
    /\ IF decision = "rejected" /\ authorization[a].event \in pending
       THEN OpenCall(c, "reject", authorization[a].event)
       ELSE UNCHANGED <<call, disturbed>>
    /\ UNCHANGED <<inbox, updates, late, held, session, faults>>

\* resolve_delivery_hold: deliverHeld or dropHeld at the home, once it is announced here.
ResolveHold(h) ==
    /\ active /\ h \in approvals /\ h \in held
    /\ held' = held \ {h}
    /\ approvals' = approvals \ {h}
    /\ UNCHANGED <<inbox, authorization, updates, late, active, pump, pending, announced, call,
                   disturbed, faults>>

\* The command line of the same profile, or another profile of the home, resolves it.
ResolvedElsewhere(h) ==
    /\ h \in held /\ held' = held \ {h}
    /\ UNCHANGED <<inbox, authorization, updates, late, session, call, disturbed, faults>>

\* The process of the session dies and another one is started.
Crash ==
    /\ Fault
    /\ active' = FALSE /\ pump' = Asleep
    /\ pending' = {} /\ announced' = {} /\ approvals' = {}
    /\ call' = [c \in Calls |-> Idle]
    /\ disturbed' = disturbed \cup {call[c].event : c \in Open}
    /\ UNCHANGED durable

PumpStep ==
    \/ PollOnce \/ PushApprovals \/ EndRound
    \/ \E e \in Events : ShowWork(e)
    \/ \E h \in Holds : ShowHold(h)

CallStep(c) ==
    \/ SendUpdate(c) \/ AckEvent(c) \/ Finish(c)
    \/ \E a \in Authorizations : RecordAuthorization(c, a)

Next ==
    \/ Activate \/ PumpStep \/ Refused \/ Crash
    \/ \E c \in Calls :
        \/ CallStep(c) \/ SendFails(c)
        \/ \E op \in Operations, e \in Events : Begin(c, op, e)
        \/ \E a \in Authorizations, d \in {"approved", "rejected"} : ResolveAuthorization(c, a, d)
    \/ \E h \in Holds : ResolvedElsewhere(h) \/ ResolveHold(h)

\* The pump ticks while the process lives, and an open call goes on.
Fairness == WF_vars(PumpStep) /\ \A c \in Calls : WF_vars(CallStep(c))

Spec == Init /\ [][Next]_vars
FairSpec == Spec /\ Fairness
-----------------------------------------------------------------------------
(***************************************************************************)
(* Properties.                                                             *)
(***************************************************************************)
\* The work stays unread until the requester was told how it ended, or what input it waits
\* for: a request for an authorization, decided or not, never uses the event up.
ParkedKept == \A e \in Events \ inbox : updates[e] \ {"auth-required"} # {}

\* A completion or a rejection is the last update of its task, unless calls met on the
\* event, a stale snapshot showed it again or a fault cut a call short.
TerminalLast == late \subseteq disturbed

\* A decision on record stands.
DecisionStands ==
    [][\A a \in Authorizations :
        authorization[a] # Unused /\ authorization[a].status # "pending" =>
            authorization'[a] = authorization[a]]_vars

\* Approved work whose task has not ended comes back to an active session, after a restart
\* too, so that somebody can go on with it.
ApprovedResumes ==
    \A a \in Authorizations, e \in Events :
        authorization[a] = [event |-> e, status |-> "approved"] /\ e \in inbox /\ active
            ~> e \in pending \/ e \notin inbox \/ ~active

\* What the home holds is shown to the person, unless somebody resolves it first: a refused
\* notification delays it and no more.
HoldsShown ==
    \A h \in Holds : h \in held /\ active ~> h \in approvals \/ h \notin held \/ ~active
=============================================================================
