------------------------------ MODULE ChannelPump ------------------------------
(***************************************************************************)
(* The channel bridge of one process (channel.ts): the pump that carries   *)
(* the unread inbox of one active channel through the application runtime  *)
(* to the ingress adapter, and the calls with which the harness answers.   *)
(*                                                                         *)
(* The pump works through a snapshot of the inbox and awaits in between;   *)
(* answers run beside it.  The inbox, its consumed marks and the           *)
(* application events on record are durable; everything else is lost when  *)
(* the process dies.                                                       *)
(***************************************************************************)
EXTENDS Naturals, FiniteSets, Sequences

CONSTANTS
    Last,        \* the channel carries messages with seq 1..Last for this profile
    Settings,    \* pairs of kinds and adapter to start from
    Cap,         \* MAX_PENDING_EVENTS, which is also the inbox cap
    QueueCap,    \* maxQueueSize of the polling adapter
    MaxCrashes   \* bound on crashes

(***************************************************************************)
(* work      a request: only an answer acknowledges it                     *)
(* info      a message of another agent: acknowledged once offered         *)
(* artifact  an artifact update: the same, but reply refuses it            *)
(* silent    a task snapshot, a terminal update, an event of a finished    *)
(*           application task                                              *)
(* reduced   an application event its consumer handles by itself           *)
(* decision  an application event the harness has to decide, or one        *)
(*           without a consumer                                            *)
(* approval  an application event that asks for an authorization           *)
(***************************************************************************)
Application == {"reduced", "decision", "approval"}
Kinds == {"work", "info", "artifact", "silent"} \cup Application

\* push shows approvals to a person, webhook does not, process answers while the event
\* is being delivered, poll is the queue a harness reads.
Adapters == {"push", "webhook", "process", "poll"}

Events == 1..Last

ASSUME PumpAssumption ==
    /\ Last \in Nat
    /\ Settings \subseteq [kind : [Events -> Kinds], adapter : Adapters]
    /\ Cap \in Nat \ {0}
    /\ QueueCap \in Nat \ {0}
    /\ MaxCrashes \in Nat

VARIABLES
    kind,       \* what every event is
    adapter,    \* the ingress of this process
    arrived,    \* the last event stored in the inbox
    inbox,      \* unread rows of the channel
    consumed,   \* events acknowledged
    recorded,   \* application events in the application store
    pump,       \* where pushInbox is, and what is left of its snapshot
    pending,    \* pendingEvents, in insertion order
    announced,  \* announcedEvents
    queue,      \* the polling adapter's entries
    call,       \* answers the harness has started
    offered,    \* history: events the harness was shown
    answered,   \* history: events whose answer was sent
    crashes     \* number of crashes so far

settings == <<kind, adapter>>
durable == <<arrived, inbox, consumed, recorded>>
session == <<pump, pending, announced, queue, call>>
history == <<offered, answered, crashes>>
vars == <<settings, durable, session, history>>

PumpSteps == {"idle", "scan", "processed", "offering"}
Resting == [pc |-> "idle", rest |-> {}, first |-> FALSE, accepts |-> FALSE]
Scanning(rest) == [pc |-> "scan", rest |-> rest, first |-> FALSE, accepts |-> FALSE]

TypeOK ==
    /\ [kind |-> kind, adapter |-> adapter] \in Settings
    /\ arrived \in 0..Last
    /\ inbox \subseteq Events /\ Cardinality(inbox) <= Cap
    /\ consumed \subseteq Events
    /\ recorded \subseteq Events
    /\ pump \in [pc : PumpSteps, rest : SUBSET Events, first : BOOLEAN, accepts : BOOLEAN]
    /\ pending \in Seq(Events) /\ Len(pending) <= Cap
    /\ announced \subseteq Events
    /\ queue \in [Events -> {"out", "ready", "leased"}]
    /\ Cardinality({e \in Events : queue[e] # "out"}) <= QueueCap
    /\ call \in [Events -> {"none", "open", "sent", "acked"}]
    /\ offered \subseteq Events /\ answered \subseteq Events
    /\ crashes \in 0..MaxCrashes

Init ==
    /\ \E s \in Settings : kind = s.kind /\ adapter = s.adapter
    /\ arrived = 0 /\ inbox = {}
    /\ consumed = {} /\ recorded = {}
    /\ pump = Resting
    /\ pending = <<>>
    /\ announced = {}
    /\ queue = [e \in Events |-> "out"]
    /\ call = [e \in Events |-> "none"]
    /\ offered = {} /\ answered = {}
    /\ crashes = 0

-----------------------------------------------------------------------------
Has(s, e) == \E i \in DOMAIN s : s[i] = e

Without(s, e) == SelectSeq(s, LAMBDA x : x # e)

\* engine.ack
Ack(e) ==
    /\ consumed' = consumed \cup {e}
    /\ inbox' = inbox \ {e}

\* A sync stores a message: over the cap the oldest unread row gives way.
Arrive(e) ==
    /\ e = arrived + 1
    /\ arrived' = e
    /\ inbox' = (inbox \cup {e})
                  \ {o \in inbox : Cardinality(inbox) = Cap /\ \A i \in inbox : o <= i}
    /\ UNCHANGED <<settings, consumed, recorded, session, history>>

-----------------------------------------------------------------------------
(***************************************************************************)
(* pushInbox, one step per stretch without an await.                       *)
(***************************************************************************)
Current(e) == e \in pump.rest /\ \A o \in pump.rest : e <= o

\* The loop goes on with the next event of the snapshot.
Continue(e) == pump' = Scanning(pump.rest \ {e})

PumpRead ==
    /\ pump.pc = "idle" /\ inbox # {}
    /\ pump' = Scanning(inbox)
    /\ UNCHANGED <<settings, durable, pending, announced, queue, call, history>>

PumpEnd ==
    /\ pump.pc = "scan" /\ pump.rest = {}
    /\ pump' = Resting
    /\ UNCHANGED <<settings, durable, pending, announced, queue, call, history>>

Skips(e) == e \in announced /\ adapter # "poll"

PumpSkip(e) ==
    /\ pump.pc = "scan" /\ Current(e) /\ Skips(e)
    /\ Continue(e)
    /\ UNCHANGED <<settings, durable, pending, announced, queue, call, history>>

Due(e) == pump.pc = "scan" /\ Current(e) /\ ~Skips(e)

PumpSilent(e) ==
    /\ Due(e) /\ kind[e] = "silent"
    /\ Ack(e)
    /\ Continue(e)
    /\ UNCHANGED <<settings, arrived, recorded, pending, announced, queue, call, history>>

\* applicationRuntime.process has committed; executing the effects awaits.
PumpProcess(e) ==
    /\ Due(e) /\ kind[e] \in Application
    /\ recorded' = recorded \cup {e}
    /\ pump' = [pump EXCEPT !.pc = "processed", !.first = e \notin recorded]
    /\ UNCHANGED <<settings, arrived, inbox, consumed, pending, announced, queue, call, history>>

\* Only the first processing can leave nothing for the harness: a duplicate has no effects.
Settled(e) ==
    /\ pump.first
    /\ \/ kind[e] = "reduced"
       \/ kind[e] = "approval" /\ adapter # "push"

PumpSettle(e) ==
    /\ pump.pc = "processed" /\ Current(e) /\ Settled(e)
    /\ Ack(e)
    /\ announced' = IF kind[e] = "approval" THEN announced \cup {e} ELSE announced
    /\ Continue(e)
    /\ UNCHANGED <<settings, arrived, recorded, pending, queue, call, history>>

\* addPendingEvent: over the cap the oldest entry gives way.
Registered(e) ==
    IF Has(pending, e) THEN pending
    ELSE Append(IF Len(pending) < Cap THEN pending ELSE Tail(pending), e)

\* Mutant of Register: an event that gave way stays announced.
RegisterForgets(e) == pending' = Registered(e) /\ UNCHANGED announced

Register(e) ==
    /\ pending' = Registered(e)
    /\ announced' = {a \in announced : Has(pending, a) => Has(Registered(e), a)}

ToOffer(e) ==
    \/ Due(e) /\ kind[e] \in {"work", "info", "artifact"}
    \/ pump.pc = "processed" /\ Current(e) /\ ~Settled(e)

Offering(accepts) == pump' = [pump EXCEPT !.pc = "offering", !.accepts = accepts]

\* deliver shows the event to the harness, which may start on it before deliver returns.
PumpShow(e) ==
    /\ adapter # "poll" /\ ToOffer(e)
    /\ Register(e)
    /\ Offering(TRUE)
    /\ offered' = offered \cup {e}
    /\ UNCHANGED <<settings, durable, queue, call, answered, crashes>>

\* deliver does not reach the harness.
PumpMiss(e) ==
    /\ adapter # "poll" /\ ToOffer(e)
    /\ Register(e)
    /\ Offering(FALSE)
    /\ UNCHANGED <<settings, durable, queue, call, history>>

Entries == {e \in Events : queue[e] # "out"}

\* The polling adapter's deliver: a known id is accepted, a full queue defers.
PumpEnqueue(e) ==
    /\ adapter = "poll" /\ ToOffer(e)
    /\ Register(e)
    /\ LET room == e \in Entries \/ Cardinality(Entries) < QueueCap
       IN  /\ Offering(room)
           /\ queue' = IF room /\ e \notin Entries THEN [queue EXCEPT ![e] = "ready"] ELSE queue
    /\ UNCHANGED <<settings, durable, call, history>>

\* A process is accepted only after its outcome was sent or resumed the application.
RunEnded(e) ==
    adapter = "process" => call[e] = "none"

OutcomeTaken(e) ==
    adapter = "process" => (kind[e] \in Application \/ e \in consumed)

\* Mutant of AckedOnceOffered: every message is acknowledged once it was offered.
AckedOnceOfferedAll(e) == kind[e] \in {"work", "info", "artifact"} \cup Application

AckedOnceOffered(e) == kind[e] \in {"info", "artifact"} \cup Application

\* Mutant of PumpAccepted: the result of deliver is not looked at.
PumpAcceptedUnchecked(e) ==
    /\ pump.pc = "offering" /\ Current(e)
    /\ RunEnded(e) /\ OutcomeTaken(e)
    /\ announced' = IF adapter # "poll" /\ Has(pending, e) THEN announced \cup {e} ELSE announced
    /\ IF AckedOnceOffered(e)
       THEN Ack(e) /\ pending' = Without(pending, e)
       ELSE UNCHANGED <<consumed, inbox, pending>>
    /\ Continue(e)
    /\ UNCHANGED <<settings, arrived, recorded, queue, call, history>>

PumpAccepted(e) ==
    /\ pump.pc = "offering" /\ Current(e) /\ pump.accepts
    /\ RunEnded(e) /\ OutcomeTaken(e)
    /\ announced' = IF adapter # "poll" /\ Has(pending, e) THEN announced \cup {e} ELSE announced
    /\ IF AckedOnceOffered(e)
       THEN Ack(e) /\ pending' = Without(pending, e)
       ELSE UNCHANGED <<consumed, inbox, pending>>
    /\ Continue(e)
    /\ UNCHANGED <<settings, arrived, recorded, queue, call, history>>

\* Mutant of PumpRefused: the loop goes on with the next event.
PumpRefusedContinues(e) ==
    /\ pump.pc = "offering" /\ Current(e)
    /\ adapter = "poll" => ~pump.accepts
    /\ RunEnded(e)
    /\ Continue(e)
    /\ UNCHANGED <<settings, durable, pending, announced, queue, call, history>>

\* deliver failed, or its answer was lost: notify throws and the snapshot is abandoned.
PumpRefused(e) ==
    /\ pump.pc = "offering" /\ Current(e)
    /\ adapter = "poll" => ~pump.accepts
    /\ RunEnded(e)
    /\ pump' = Resting
    /\ UNCHANGED <<settings, durable, pending, announced, queue, call, history>>

PumpStep ==
    \/ PumpRead \/ PumpEnd
    \/ \E e \in Events :
        \/ PumpSkip(e) \/ PumpSilent(e) \/ PumpProcess(e) \/ PumpSettle(e)
        \/ PumpShow(e) \/ PumpMiss(e) \/ PumpEnqueue(e) \/ PumpAccepted(e) \/ PumpRefused(e)

-----------------------------------------------------------------------------
(***************************************************************************)
(* The harness: reading the polling queue, and reply, respond, complete    *)
(* and request_input, which all send first, then acknowledge, then forget. *)
(***************************************************************************)
Poll(e) ==
    /\ queue[e] = "ready"
    /\ queue' = [queue EXCEPT ![e] = "leased"]
    /\ offered' = offered \cup {e}
    /\ UNCHANGED <<settings, durable, pump, pending, announced, call, answered, crashes>>

\* nack, or the lease runs out.
Release(e) ==
    /\ queue[e] = "leased"
    /\ queue' = [queue EXCEPT ![e] = "ready"]
    /\ UNCHANGED <<settings, durable, pump, pending, announced, call, history>>

QueueAck(e) ==
    /\ queue[e] # "out" /\ e \in offered
    /\ queue' = [queue EXCEPT ![e] = "out"]
    /\ UNCHANGED <<settings, durable, pump, pending, announced, call, history>>

\* A process answers through its outcome, while deliver is waiting for it.
MayAnswer(e) == adapter = "process" => (pump.pc = "offering" /\ Current(e) /\ pump.accepts)

AnswerBegin(e) ==
    /\ e \in offered /\ call[e] = "none"
    /\ Has(pending, e)
    /\ MayAnswer(e)
    /\ call' = [call EXCEPT ![e] = "open"]
    /\ UNCHANGED <<settings, durable, pump, pending, announced, queue, history>>

\* A process's outcome is always sent with reply, which refuses an artifact update.
Sendable(e) == ~(adapter = "process" /\ kind[e] = "artifact")

AnswerSend(e) ==
    /\ call[e] = "open" /\ Sendable(e)
    /\ call' = [call EXCEPT ![e] = "sent"]
    /\ answered' = answered \cup {e}
    /\ UNCHANGED <<settings, durable, pump, pending, announced, queue, offered, crashes>>

\* The home could not be reached, or reply refuses the event.
AnswerFail(e) ==
    /\ call[e] = "open"
    /\ call' = [call EXCEPT ![e] = "none"]
    /\ UNCHANGED <<settings, durable, pump, pending, announced, queue, history>>

AnswerAck(e) ==
    /\ call[e] = "sent"
    /\ Ack(e)
    /\ call' = [call EXCEPT ![e] = "acked"]
    /\ UNCHANGED <<settings, arrived, recorded, pump, pending, announced, queue, history>>

AnswerFinish(e) ==
    /\ call[e] = "acked"
    /\ call' = [call EXCEPT ![e] = "none"]
    /\ pending' = Without(pending, e)
    /\ announced' = announced \ {e}
    /\ UNCHANGED <<settings, durable, pump, queue, history>>

\* The process dies and another one starts.
Crash ==
    /\ crashes < MaxCrashes
    /\ crashes' = crashes + 1
    /\ pump' = Resting
    /\ pending' = <<>>
    /\ announced' = {}
    /\ queue' = [e \in Events |-> "out"]
    /\ call' = [e \in Events |-> "none"]
    /\ UNCHANGED <<settings, durable, offered, answered>>

HarnessStep(e) ==
    \/ Poll(e) \/ Release(e) \/ QueueAck(e)
    \/ AnswerBegin(e) \/ AnswerSend(e) \/ AnswerFail(e) \/ AnswerAck(e) \/ AnswerFinish(e)

Next ==
    \/ PumpStep
    \/ \E e \in Events : Arrive(e) \/ HarnessStep(e)
    \/ Crash

Spec == Init /\ [][Next]_vars

\* The pump's timer is set again after every round; the harness reads its queue, clears it
\* and answers what it was shown; a started answer ends; and an ingress and a home that
\* are tried again and again do not fail for ever.
Fairness ==
    /\ WF_vars(PumpStep)
    /\ SF_vars(\E e \in Events : PumpShow(e))
    /\ SF_vars(\E e \in Events : PumpAccepted(e))
    /\ SF_vars(\E e \in Events : AnswerBegin(e))
    /\ SF_vars(\E e \in Events : AnswerSend(e))
    /\ \A e \in Events :
        /\ WF_vars(Poll(e)) /\ WF_vars(QueueAck(e))
        /\ WF_vars(AnswerBegin(e))
        /\ WF_vars(AnswerSend(e) \/ AnswerFail(e))
        /\ WF_vars(AnswerAck(e)) /\ WF_vars(AnswerFinish(e))

FairSpec == Spec /\ Fairness

-----------------------------------------------------------------------------
(***************************************************************************)
(* Properties.                                                             *)
(***************************************************************************)

\* A request is acknowledged only after its answer was sent, whatever crashes.
WorkAnswered == \A e \in consumed : kind[e] = "work" => e \in answered

\* What the harness has to see is acknowledged only after it was shown, unless it sits in
\* the memory of the polling adapter.
NothingLost ==
    \A e \in consumed :
        kind[e] \in {"info", "artifact", "decision"} /\ adapter # "poll" => e \in offered

\* The harness is shown the events of a channel in their order: a refused event holds up
\* the later ones.
OffersInOrder ==
    adapter # "poll" =>
        \A i \in inbox, j \in offered : i < j => i \in offered

\* Every unread event is dealt with, provided ingress, harness and home do their part.
InboxDrains == \A e \in Events : e \in inbox ~> e \notin inbox
=============================================================================
