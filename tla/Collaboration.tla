--------------------------- MODULE Collaboration ---------------------------
(***************************************************************************)
(* The two reference applications, manager-workers and request-response    *)
(* (applications/*/src/index.ts), each participant reducing what it has    *)
(* received (its mailbox) with its own ApplicationRuntime.                 *)
(*                                                                         *)
(* A context is one conversation: every participant keeps a state and a    *)
(* task state of it, and once the task state is terminal its runtime       *)
(* ignores what still arrives.  A reduction and the commit of its effects  *)
(* are one step (AppRuntime looks inside); the effects are published one   *)
(* by one, and a publish that fails is never repeated.                     *)
(*                                                                         *)
(* One process of a participant reads the channel in its order, so the     *)
(* mail of a context arrives in the order it was published.                *)
(*                                                                         *)
(* team.started and worker.registered are left out: the first names an     *)
(* alias that the configuration names too, and nothing reads the status    *)
(* the manager keeps of its workers.                                       *)
(***************************************************************************)
EXTENDS Integers, Sequences

CONSTANTS
    Manager, Workers,
    TeamContexts, CallContexts, \* conversations of manager-workers and of request-response
    Tasks,
    Prompt,     \* workers configured with autoResult or staticResponse; the others ask a harness
    MaxAsks,    \* bound on task.requested and request.created events
    MaxNotices, \* bound on the status events other clients send, and on cancellations
    NoWorker

People == Workers \cup {Manager}
Contexts == TeamContexts \cup CallContexts

ASSUME CollaborationAssumption ==
    /\ Manager \notin Workers /\ NoWorker \notin People
    /\ Prompt \subseteq Workers /\ TeamContexts \cap CallContexts = {}
    /\ MaxAsks \in Nat /\ MaxNotices \in Nat

VARIABLES
    status,  \* application states: tasks[id].status, or requests[id].status
    to,      \* the manager's tasks[id].assignedTo
    phase,   \* task states: "open" stands for the three that are not terminal
    outbox,  \* publish effects not yet executed
    mailbox, \* application events not yet reduced
    working, \* events handed to a harness that has not reported yet
    asks,    \* how often somebody was asked for something
    asked,   \* history: who was ever asked for what
    done,    \* history: what a worker has a result of
    notices, \* how many notices were sent
    lost     \* history: contexts in which a publish failed

stateVars == <<status, to, phase>>
collaborationVars == <<stateVars, outbox, mailbox, working, asks, asked, done, notices, lost>>

Statuses ==
    {"none", "assigned", "in-progress", "suspended", "pending", "completed", "failed", "approved", "cancelled"}
Phases == {"open", "completed", "failed", "canceled"}
\* task.suspended stands for task.input-required, task.authorization-required and
\* review.changes-requested, which only set the task's status.
Types ==
    {"task.requested", "task.assigned", "task.progress", "task.suspended", "task.completed", "task.failed",
     "review.requested", "review.approved",
     "request.created", "response.created", "request.failed", "request.cancelled"}
Event == [type : Types, task : Tasks, about : Workers]
Mail == [to : People, event : Event]

CollaborationTypeOK ==
    /\ status \in [People -> [Contexts -> [Tasks -> Statuses]]]
    /\ to \in [Contexts -> [Tasks -> Workers \cup {NoWorker}]]
    /\ phase \in [People -> [Contexts -> Phases]]
    /\ outbox \in [People -> [Contexts -> Seq(Mail)]]
    /\ mailbox \in [People -> [Contexts -> Seq(Event)]]
    /\ working \in [Workers -> [Contexts -> [Tasks -> Nat]]]
    /\ asks \in 0..MaxAsks
    /\ asked \subseteq Workers \X Contexts \X Tasks
    /\ done \subseteq Workers \X Contexts \X Tasks
    /\ notices \in 0..MaxNotices
    /\ lost \subseteq Contexts

CollaborationInit ==
    /\ status = [p \in People |-> [c \in Contexts |-> [t \in Tasks |-> "none"]]]
    /\ to = [c \in Contexts |-> [t \in Tasks |-> NoWorker]]
    /\ phase = [p \in People |-> [c \in Contexts |-> "open"]]
    /\ outbox = [p \in People |-> [c \in Contexts |-> << >>]]
    /\ mailbox = [p \in People |-> [c \in Contexts |-> << >>]]
    /\ working = [w \in Workers |-> [c \in Contexts |-> [t \in Tasks |-> 0]]]
    /\ asks = 0
    /\ asked = {}
    /\ done = {}
    /\ notices = 0
    /\ lost = {}

-----------------------------------------------------------------------------
Post(p, c, type, t, w) ==
    mailbox' = [mailbox EXCEPT ![p][c] = Append(@, [type |-> type, task |-> t, about |-> w])]

\* Clients: somebody asks for a task or a response, posts a status event that no reducer
\* publishes, or cancels a request.
Ask(w, c, t) ==
    /\ asks < MaxAsks
    /\ asks' = asks + 1
    /\ asked' = asked \cup {<<w, c, t>>}
    /\ IF c \in TeamContexts THEN Post(Manager, c, "task.requested", t, w) ELSE Post(w, c, "request.created", t, w)
    /\ UNCHANGED <<stateVars, outbox, working, done, notices, lost>>

Notify(w, c, t) ==
    /\ notices < MaxNotices /\ <<w, c, t>> \in asked
    /\ notices' = notices + 1
    /\ IF c \in TeamContexts THEN Post(Manager, c, "task.suspended", t, w)
       ELSE Post(w, c, "request.cancelled", t, w)
    /\ UNCHANGED <<stateVars, outbox, working, asks, asked, done, lost>>

-----------------------------------------------------------------------------
\* The runtime: an event is reduced unless the task state is terminal.
\* Mutant of StillOpen: the task state is not looked at.
OpenAlways(p, c) == TRUE

StillOpen(p, c) == phase[p][c] = "open"

Receives(p, c, types) ==
    /\ mailbox[p][c] # << >> /\ Head(mailbox[p][c]).type \in types
    /\ mailbox' = [mailbox EXCEPT ![p][c] = Tail(@)]
    /\ UNCHANGED <<asks, asked, notices, lost>>

Reduces(p, c, types) == StillOpen(p, c) /\ Receives(p, c, types)

IgnoreTerminal(p, c) ==
    /\ ~StillOpen(p, c) /\ Receives(p, c, Types)
    /\ UNCHANGED <<stateVars, outbox, working, done>>

\* A reducer that does not know the task throws: the event is recorded as failed.
NamesTask == Types \ {"task.requested", "task.assigned", "request.created",
                      "response.created", "request.failed", "request.cancelled"}

FailUnknown(p, c) ==
    /\ Reduces(p, c, NamesTask)
    /\ status[p][c][Head(mailbox[p][c]).task] = "none"
    /\ UNCHANGED <<stateVars, outbox, working, done>>

Becomes(p, c, t, s) == status' = [status EXCEPT ![p][c][t] = s]
Ends(p, c, s) == phase' = [phase EXCEPT ![p][c] = s]
Mailed(type, p, t, w) == <<[to |-> p, event |-> [type |-> type, task |-> t, about |-> w]]>>

\* Mutant of Emit: the journal keeps one effect of a reduction.
EmitOne(p, c, mails) == outbox' = [outbox EXCEPT ![p][c] = @ \o SubSeq(mails, 1, 1)]

Emit(p, c, mails) == outbox' = [outbox EXCEPT ![p][c] = @ \o mails]

TaskRequested(c) ==
    LET e == Head(mailbox[Manager][c])
    IN  /\ Reduces(Manager, c, {"task.requested"})
        /\ Becomes(Manager, c, e.task, "assigned")
        /\ to' = [to EXCEPT ![c][e.task] = e.about]
        /\ Emit(Manager, c, Mailed("task.assigned", e.about, e.task, e.about))
        /\ UNCHANGED <<phase, working, done>>

\* The worker reports progress, and the result at once or the harness's later.
\* Mutant of Answers: the result is published before there is one.
AnswersAtOnce(w) == TRUE

Answers(w) == w \in Prompt

TaskAssigned(w, c) ==
    LET e == Head(mailbox[w][c])
    IN  /\ Reduces(w, c, {"task.assigned"})
        /\ Becomes(w, c, e.task, "in-progress")
        /\ Emit(w, c, Mailed("task.progress", Manager, e.task, w) \o
                      IF Answers(w) THEN Mailed("task.completed", Manager, e.task, w) ELSE << >>)
        /\ IF w \in Prompt THEN done' = done \cup {<<w, c, e.task>>} /\ UNCHANGED working
           ELSE working' = [working EXCEPT ![w][c][e.task] = @ + 1] /\ UNCHANGED done
        /\ UNCHANGED <<to, phase>>

TaskProgress(c) ==
    LET e == Head(mailbox[Manager][c])
    IN  /\ Reduces(Manager, c, {"task.progress", "task.suspended"})
        /\ status[Manager][c][e.task] # "none"
        /\ Becomes(Manager, c, e.task, IF e.type = "task.progress" THEN "in-progress" ELSE "suspended")
        /\ UNCHANGED <<to, phase, outbox, working, done>>

\* The harness reports: resume.
\* Mutant of MayResume: as if the harness could report after the context has ended.
MayResumeLate(w, c) == TRUE

MayResume(w, c) == StillOpen(w, c)

\* resume of manager-workers: the manager hears of it, a failure ends the worker's context.
WorkerResume(w, c, t, ok) ==
    /\ Becomes(w, c, t, IF ok THEN "completed" ELSE "failed")
    /\ IF ok THEN UNCHANGED phase ELSE Ends(w, c, "failed")
    /\ Emit(w, c, Mailed(IF ok THEN "task.completed" ELSE "task.failed", Manager, t, w))

\* resume of request-response: who asked hears of it, either way the context ends.
ResponderResume(w, c, t, ok) ==
    /\ Becomes(w, c, t, IF ok THEN "completed" ELSE "failed")
    /\ Ends(w, c, IF ok THEN "completed" ELSE "failed")
    /\ Emit(w, c, Mailed(IF ok THEN "response.created" ELSE "request.failed", Manager, t, w))

Outcome(w, c, t) ==
    /\ working[w][c][t] > 0
    /\ working' = [working EXCEPT ![w][c][t] = @ - 1]
    /\ UNCHANGED <<to, mailbox, asks, asked, notices, lost>>
    /\ \/ ~MayResume(w, c) /\ UNCHANGED <<status, phase, outbox, done>>
       \/ \E ok \in BOOLEAN :
            /\ MayResume(w, c)
            /\ done' = IF ok THEN done \cup {<<w, c, t>>} ELSE done
            /\ IF c \in TeamContexts THEN WorkerResume(w, c, t, ok) ELSE ResponderResume(w, c, t, ok)

TaskCompleted(c) ==
    LET e == Head(mailbox[Manager][c])
    IN  /\ Reduces(Manager, c, {"task.completed"})
        /\ status[Manager][c][e.task] # "none"
        /\ Becomes(Manager, c, e.task, "completed")
        /\ Emit(Manager, c, Mailed("review.requested", to[c][e.task], e.task, to[c][e.task]))
        /\ UNCHANGED <<to, phase, working, done>>

TaskFailed(c) ==
    LET e == Head(mailbox[Manager][c])
    IN  /\ Reduces(Manager, c, {"task.failed"})
        /\ status[Manager][c][e.task] # "none"
        /\ Becomes(Manager, c, e.task, "failed")
        /\ Ends(Manager, c, "failed")
        /\ UNCHANGED <<to, outbox, working, done>>

ReviewRequested(w, c) ==
    LET e == Head(mailbox[w][c])
    IN  /\ Reduces(w, c, {"review.requested"})
        /\ status[w][c][e.task] # "none"
        /\ Becomes(w, c, e.task, "approved")
        /\ Ends(w, c, "completed")
        /\ Emit(w, c, Mailed("review.approved", Manager, e.task, w))
        /\ UNCHANGED <<to, working, done>>

ReviewApproved(c) ==
    LET e == Head(mailbox[Manager][c])
    IN  /\ Reduces(Manager, c, {"review.approved"})
        /\ status[Manager][c][e.task] # "none"
        /\ Becomes(Manager, c, e.task, "approved")
        /\ Ends(Manager, c, "completed")
        /\ UNCHANGED <<to, outbox, working, done>>

\* request-response at the responder ...
RequestCreated(w, c) ==
    LET e == Head(mailbox[w][c])
    IN  /\ Reduces(w, c, {"request.created"})
        /\ Becomes(w, c, e.task, "pending")
        /\ IF w \in Prompt
           THEN /\ Emit(w, c, Mailed("response.created", Manager, e.task, w))
                /\ done' = done \cup {<<w, c, e.task>>} /\ UNCHANGED working
           ELSE /\ working' = [working EXCEPT ![w][c][e.task] = @ + 1]
                /\ UNCHANGED <<outbox, done>>
        /\ UNCHANGED <<to, phase>>

RequestCancelled(w, c) ==
    /\ Reduces(w, c, {"request.cancelled"})
    /\ Becomes(w, c, Head(mailbox[w][c]).task, "cancelled")
    /\ Ends(w, c, "canceled")
    /\ UNCHANGED <<to, outbox, working, done>>

\* ... and at the one who asked.
ResponseArrives(c) ==
    LET e == Head(mailbox[Manager][c])
        s == IF e.type = "response.created" THEN "completed" ELSE "failed"
    IN  /\ Reduces(Manager, c, {"response.created", "request.failed"})
        /\ Becomes(Manager, c, e.task, s)
        /\ Ends(Manager, c, s)
        /\ UNCHANGED <<to, outbox, working, done>>

-----------------------------------------------------------------------------
\* executePendingEffects: in the order of the journal; a failed effect is not tried again.
Publish(p, c) ==
    /\ outbox[p][c] # << >>
    /\ outbox' = [outbox EXCEPT ![p][c] = Tail(@)]
    /\ LET m == Head(outbox[p][c]) IN mailbox' = [mailbox EXCEPT ![m.to][c] = Append(@, m.event)]
    /\ UNCHANGED <<stateVars, working, asks, asked, done, notices, lost>>

PublishFails(p, c) ==
    /\ outbox[p][c] # << >>
    /\ outbox' = [outbox EXCEPT ![p][c] = Tail(@)]
    /\ lost' = lost \cup {c}
    /\ UNCHANGED <<stateVars, mailbox, working, asks, asked, done, notices>>

ManagerStep(c) ==
    \/ TaskRequested(c) \/ TaskProgress(c) \/ TaskCompleted(c)
    \/ TaskFailed(c) \/ ReviewApproved(c) \/ ResponseArrives(c)

WorkerStep(w, c) ==
    TaskAssigned(w, c) \/ ReviewRequested(w, c) \/ RequestCreated(w, c) \/ RequestCancelled(w, c)

\* What a pump does with the next event of a context.
Pump(p, c) ==
    \/ IgnoreTerminal(p, c) \/ FailUnknown(p, c)
    \/ p = Manager /\ ManagerStep(c)
    \/ p # Manager /\ WorkerStep(p, c)

CollaborationNext ==
    \E c \in Contexts :
        \/ \E p \in People : Pump(p, c) \/ Publish(p, c) \/ PublishFails(p, c)
        \/ \E w \in Workers :
            \E t \in Tasks : Ask(w, c, t) \/ Notify(w, c, t) \/ Outcome(w, c, t)

\* A daemon polls for ever and executes what is pending after each reduction, and a harness
\* reports on every event it accepted.
CollaborationFairness ==
    /\ \A p \in People, c \in Contexts :
        /\ WF_collaborationVars(Pump(p, c))
        /\ WF_collaborationVars(Publish(p, c) \/ PublishFails(p, c))
    /\ \A w \in Workers, c \in Contexts, t \in Tasks : WF_collaborationVars(Outcome(w, c, t))

CollaborationSpec == CollaborationInit /\ [][CollaborationNext]_collaborationVars
CollaborationFairSpec == CollaborationSpec /\ CollaborationFairness
-----------------------------------------------------------------------------
(***************************************************************************)
(* Properties.                                                             *)
(***************************************************************************)
AskedFor(c) == {x \in asked : x[2] = c}

\* A task that only one worker was ever asked for is approved at the manager only if that
\* worker has a result, however often it was asked for and whatever was lost.
ApprovedWasDone ==
    \A w \in Workers, c \in TeamContexts, t \in Tasks :
        status[Manager][c][t] = "approved" /\ {x \in AskedFor(c) : x[3] = t} = {<<w, c, t>>} => <<w, c, t>> \in done

\* In a context only one worker was asked in, manager and worker never end differently: one as
\* completed and the other as failed, whatever the order of reviews, results and failures.
EndsAgree ==
    \A w \in Workers, c \in Contexts :
        (\A x \in AskedFor(c) : x[1] = w) => {phase[Manager][c], phase[w][c]} # {"completed", "failed"}

\* A responder with a harness answers no request after the conversation was cancelled: one that
\* ended as canceled has published no response.
CancelledUnanswered ==
    \A w \in Workers \ Prompt, c \in CallContexts :
        phase[w][c] = "canceled" => \A t \in Tasks : <<w, c, t>> \notin done

\* Unless a publish failed, whoever asked learns how it ended, or the responder was cancelled.
AskedEnds ==
    \A c \in Contexts :
        AskedFor(c) # {} ~> \/ phase[Manager][c] # "open" \/ c \in lost
                            \/ \E w \in Workers : phase[w][c] = "canceled"
=============================================================================
