----------------------------- MODULE AppRuntime -----------------------------
(***************************************************************************)
(* ApplicationRuntime (client-sdk/src/runtime.ts) over the profile's store *)
(* (agent-comm/src/store/application-repos.ts).                            *)
(*                                                                         *)
(* process and resume read the application state, await the consumer, and  *)
(* then commit state and effects in one transaction; executePendingEffects *)
(* lists the pending effects once and awaits each in turn.  Calls overlap: *)
(* the pump processes events while the harness reports outcomes.  The      *)
(* statements between two awaits of one call are one step.                 *)
(*                                                                         *)
(* The consumer is application code: it may return any task state and any  *)
(* of the effects, or throw.  What it makes of the state is abstracted to  *)
(* the set of inputs the state reflects.                                   *)
(***************************************************************************)
EXTENDS Integers, FiniteSets

CONSTANTS
    Events,     \* messages that carry an application event
    Contexts,
    ContextOf,  \* ContextOf[e]: the state key of e
    Supported,  \* the events some registered consumer accepts
    Calls,      \* calls that may be in flight in one process
    Procs,      \* processes on one profile store
    MaxEffects, \* bound on the effects of one reduction
    MaxStarts   \* bound on the runtimes started

ASSUME AppAssumption ==
    /\ ContextOf \in [Events -> Contexts]
    /\ Supported \subseteq Events
    /\ MaxEffects \in Nat /\ MaxStarts \in Nat \ {0}

VARIABLES
    record,   \* application_events: what became of each input, "none" when it has no row
    reflects, \* application_states.state_json: the inputs a context's state was computed from
    task,     \* application_states.task_state, "active" before the first commit
    effect,   \* application_effects.status, "none" when there is no row
    by,       \* application_effects.runtime_instance_id of executing effects (of others nobody reads it)
    attempts, \* application_effects.attempts
    instance, \* the runtime instance each process is, 0 when it is down
    starts,   \* how many runtimes were started: instance ids are never reused
    call,     \* what each call in flight is doing
    overlapped, \* history: some call has begun while another one was in flight
    shared    \* history: some runtime has been started while another process had one

vars == <<record, reflects, task, effect, by, attempts, instance, starts, call, overlapped, shared>>
storeVars == <<record, reflects, task, effect, by, attempts>>

\* An input is an event, or the harness outcome that resumes it (messageId:harness-outcome).
Inputs == Events \X {"event", "outcome"}
Received(e) == <<e, "event">>
OutcomeOf(e) == <<e, "outcome">>
Context(i) == ContextOf[i[1]]

\* The two waiting states behave as active does, the other terminal ones as completed.
TaskStates == {"active", "completed"}
Terminal == {"completed"}
Kinds == {"publish", "request-input"}
Effects == Inputs \X Kinds

Idle == [pc |-> "idle"]
Handling == [pc : {"handling"}, input : Inputs, reflects : SUBSET Inputs, task : TaskStates \ Terminal]
Executing == [pc : {"executing"}, todo : SUBSET Effects, now : Effects]

TypeOK ==
    /\ record \in [Inputs -> {"none", "reduced", "unsupported", "ignored-terminal", "failed"}]
    /\ reflects \in [Contexts -> SUBSET Inputs]
    /\ task \in [Contexts -> TaskStates]
    /\ effect \in [Effects -> {"none", "pending", "executing", "applied", "failed", "needs-reconciliation"}]
    /\ by \in [Effects -> 0..starts] /\ attempts \in [Effects -> Nat]
    /\ instance \in [Procs -> 0..starts] /\ starts \in 0..MaxStarts
    /\ call \in [Procs -> [Calls -> {Idle} \cup Handling \cup Executing]]
    /\ overlapped \in BOOLEAN /\ shared \in BOOLEAN

Init ==
    /\ record = [i \in Inputs |-> "none"]
    /\ reflects = [c \in Contexts |-> {}]
    /\ task = [c \in Contexts |-> "active"]
    /\ effect = [x \in Effects |-> "none"]
    /\ by = [x \in Effects |-> 0] /\ attempts = [x \in Effects |-> 0]
    /\ instance = [p \in Procs |-> 0] /\ starts = 0
    /\ call = [p \in Procs |-> [t \in Calls |-> Idle]]
    /\ overlapped = FALSE /\ shared = FALSE

-----------------------------------------------------------------------------
\* The constructor: executing effects of every other instance are interrupted ones.
\* Mutant of Interrupted: the effects are executed again.
InterruptedAgain(s, id) == IF s = "executing" /\ id # starts + 1 THEN "pending" ELSE s

Interrupted(s, id) == IF s = "executing" /\ id # starts + 1 THEN "needs-reconciliation" ELSE s

StartRuntime(p) ==
    /\ instance[p] = 0 /\ starts < MaxStarts
    /\ starts' = starts + 1
    /\ shared' = (shared \/ \E q \in Procs : instance[q] # 0)
    /\ instance' = [instance EXCEPT ![p] = starts + 1]
    /\ effect' = [x \in Effects |-> Interrupted(effect[x], by[x])]
    /\ by' = [x \in Effects |-> IF effect'[x] = "executing" THEN by[x] ELSE 0]
    /\ UNCHANGED <<record, reflects, task, attempts, call, overlapped>>

Down(p) ==
    /\ instance' = [instance EXCEPT ![p] = 0]
    /\ call' = [call EXCEPT ![p] = [t \in Calls |-> Idle]]

Crash(p) ==
    /\ instance[p] # 0
    /\ Down(p)
    /\ UNCHANGED <<storeVars, starts, overlapped, shared>>

\* Nothing serialises the calls: the pump and the harness's outcome handler both call in.
MayBegin(p, t) ==
    /\ instance[p] # 0 /\ call[p][t] = Idle
    /\ overlapped' = (overlapped \/ \E q \in Procs, u \in Calls : call[q][u] # Idle)

\* Mutant of Await: the consumer is not given the stored state.
AwaitAfresh(p, t, i) ==
    call' = [call EXCEPT ![p][t] = [pc |-> "handling", input |-> i, reflects |-> {}, task |-> task[Context(i)]]]

\* The state is read before the await; its result is committed after it.
Await(p, t, i) ==
    call' = [call EXCEPT ![p][t] = [pc |-> "handling", input |-> i,
                                    reflects |-> reflects[Context(i)], task |-> task[Context(i)]]]

\* Mutant of Record: the row is replaced.
RecordOver(i, s) == record' = [record EXCEPT ![i] = s]

\* ON CONFLICT(message_id) DO NOTHING.
Record(i, s) == record' = [record EXCEPT ![i] = IF @ = "none" THEN s ELSE @]

\* process, up to the await.  An input that has a record is only answered again.
Process(p, t, e) ==
    LET i == Received(e)
    IN  /\ MayBegin(p, t)
        /\ record[i] = "none"
        /\ \/ /\ e \notin Supported
              /\ Record(i, "unsupported") /\ UNCHANGED call
           \/ /\ e \in Supported /\ task[Context(i)] \in Terminal
              /\ Record(i, "ignored-terminal") /\ UNCHANGED call
           \/ /\ e \in Supported /\ task[Context(i)] \notin Terminal
              /\ Await(p, t, i) /\ UNCHANGED record
        /\ UNCHANGED <<reflects, task, effect, by, attempts, instance, starts, shared>>

\* resume, up to the await.
\* Mutant of MayResume: a terminal task is resumed too.
MayResumeAny(e) == record[Received(e)] = "reduced" /\ record[OutcomeOf(e)] = "none"

MayResume(e) ==
    /\ record[Received(e)] = "reduced"
    /\ task[ContextOf[e]] \notin Terminal
    /\ record[OutcomeOf(e)] = "none"

Resume(p, t, e) ==
    /\ MayBegin(p, t)
    /\ MayResume(e)
    /\ Await(p, t, OutcomeOf(e))
    /\ UNCHANGED <<storeVars, instance, starts, shared>>

FirstCommit(i) == record[i] = "none"

\* commitReduction: event, state and effects in one transaction, unless the input has a row.
\* Of resume, a second statement (here "answers") then settles the question its event left open.
Commit(h, ts, kinds, answers) ==
    LET i == h.input
        new == IF FirstCommit(i) THEN {i} \X kinds ELSE {}
        open == IF answers /\ i[2] = "outcome" THEN {<<Received(i[1]), "request-input">>} ELSE {}
        settled == {x \in open : effect[x] = "pending"}
    IN  /\ Record(i, "reduced")
        /\ reflects' = IF FirstCommit(i) THEN [reflects EXCEPT ![Context(i)] = h.reflects \cup {i}] ELSE reflects
        /\ task' = IF FirstCommit(i) THEN [task EXCEPT ![Context(i)] = ts] ELSE task
        /\ effect' = [x \in Effects |-> IF x \in new THEN "pending" ELSE IF x \in settled THEN "applied" ELSE effect[x]]

\* The consumer's answer: process and resume after the await.
HandlerReturns(p, t) ==
    /\ call[p][t].pc = "handling"
    /\ \E ts \in TaskStates, kinds \in {k \in SUBSET Kinds : Cardinality(k) <= MaxEffects} :
        \/ /\ Commit(call[p][t], ts, kinds, TRUE)
           /\ call' = [call EXCEPT ![p][t] = Idle] /\ UNCHANGED instance
        \/ Commit(call[p][t], ts, kinds, FALSE) /\ Down(p)
    /\ UNCHANGED <<by, attempts, starts, overlapped, shared>>

HandlerThrows(p, t) ==
    /\ call[p][t].pc = "handling"
    /\ Record(call[p][t].input, "failed")
    /\ call' = [call EXCEPT ![p][t] = Idle]
    /\ UNCHANGED <<reflects, task, effect, by, attempts, instance, starts, overlapped, shared>>

-----------------------------------------------------------------------------
\* executePendingEffects with the executor of the channel bridge, which publishes.
\* Mutant of Pending: effects with an unknown outcome are listed too.
PendingOrUnknown == {x \in Effects : effect[x] \in {"pending", "needs-reconciliation"} /\ x[2] = "publish"}

Pending == {x \in Effects : effect[x] = "pending" /\ x[2] = "publish"}

Mark(p, x, status) ==
    /\ effect' = [effect EXCEPT ![x] = status]
    /\ by' = [by EXCEPT ![x] = IF status = "executing" THEN instance[p] ELSE 0]

\* The list is read once; an effect is marked and executed whatever became of it since.
Begin(p, t, x, todo) ==
    call' = [call EXCEPT ![p][t] = [pc |-> "executing", todo |-> todo \ {x}, now |-> x]]

ExecutePending(p, t) ==
    /\ MayBegin(p, t)
    /\ \E x \in Pending :
        /\ Mark(p, x, "executing") /\ Begin(p, t, x, Pending)
        /\ attempts' = [attempts EXCEPT ![x] = @ + 1]
    /\ UNCHANGED <<record, reflects, task, instance, starts, shared>>

\* The executor is done or has failed; the next effect of the list starts at once.
Executed(p, t, status) ==
    LET c == call[p][t]
    IN  /\ c.pc = "executing"
        /\ IF c.todo = {}
           THEN /\ Mark(p, c.now, status)
                /\ call' = [call EXCEPT ![p][t] = Idle]
                /\ UNCHANGED attempts
           ELSE \E x \in c.todo :
                /\ effect' = [effect EXCEPT ![c.now] = status, ![x] = "executing"]
                /\ by' = [by EXCEPT ![c.now] = 0, ![x] = instance[p]]
                /\ Begin(p, t, x, c.todo)
                /\ attempts' = [attempts EXCEPT ![x] = @ + 1]
        /\ UNCHANGED <<record, reflects, task, instance, starts, overlapped, shared>>

CallStep(p, t) ==
    \/ HandlerReturns(p, t) \/ HandlerThrows(p, t)
    \/ Executed(p, t, "applied") \/ Executed(p, t, "failed")

Next ==
    \E p \in Procs :
        \/ StartRuntime(p) \/ Crash(p)
        \/ \E t \in Calls :
            \/ CallStep(p, t) \/ ExecutePending(p, t)
            \/ \E e \in Events : Process(p, t, e) \/ Resume(p, t, e)

Spec == Init /\ [][Next]_vars
-----------------------------------------------------------------------------
(***************************************************************************)
(* Properties.                                                             *)
(***************************************************************************)

\* commitReduction is one transaction: the state reflects only inputs whose row says
\* reduced, and a journaled effect has such an input too.
JournalMatches ==
    /\ \A c \in Contexts : \A i \in reflects[c] : record[i] = "reduced" /\ Context(i) = c
    /\ \A x \in Effects : effect[x] # "none" => record[x[1]] = "reduced"

\* What became of an input is decided once: redelivery, a crash or a second process never
\* changes its row, and never journals its effects again.
DecidedOnce ==
    [][\A i \in Inputs : record[i] # "none" =>
        /\ record'[i] = record[i]
        /\ \A x \in {i} \X Kinds : effect'[x] = "none" <=> effect[x] = "none"]_vars

\* An outcome is only reduced after the event it resumes.
OutcomeAfterEvent == \A e \in Events : record[OutcomeOf(e)] # "none" => record[Received(e)] = "reduced"

\* As long as one process at a time has a runtime, no effect whose outcome is unknown is
\* executed again: it waits for reconciliation.  (A second process may still hold it in the
\* list it read before the first one began it and crashed.)
NoBlindRetry ==
    [][~shared' => \A x \in Effects :
        effect[x] = "needs-reconciliation" => attempts'[x] = attempts[x]]_vars

\* As long as no calls have overlapped nothing is executed twice.
ExecutedOnce == ~overlapped => \A x \in Effects : attempts[x] <= 1

\* As long as no calls have overlapped the state reflects every input that was reduced.
ReductionsKept == ~overlapped => \A i \in Inputs : record[i] = "reduced" => i \in reflects[Context(i)]

\* As long as no calls have overlapped a terminal task state is absorbing.
SerialAbsorbing ==
    [][~overlapped' => \A c \in Contexts : task[c] \in Terminal => task'[c] = task[c]]_vars
=============================================================================
