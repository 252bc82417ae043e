-------------------------- MODULE AppRuntimeSafety --------------------------
(***************************************************************************)
(* Proofs about AppRuntime, for any number of events, processes and calls. *)
(*                                                                         *)
(* JournalMatches and OutcomeAfterEvent are not inductive: a call that     *)
(* awaits its consumer carries inputs, and a call that executes carries    *)
(* effects, that a later step writes.  CallsSound says what the rows keep  *)
(* true of them meanwhile.  With calls that do not overlap a second        *)
(* invariant, SerialInv, says that what the call in flight read is still   *)
(* what is stored, and that its input has no row.                          *)
(***************************************************************************)
EXTENDS AppRuntime, TLAPS

\* What a call read before its await still has its rows.
CallsSound ==
    \A p \in Procs, t \in Calls :
        /\ call[p][t].pc = "handling" =>
            /\ \A j \in call[p][t].reflects : record[j] = "reduced" /\ Context(j) = Context(call[p][t].input)
            /\ call[p][t].input[2] = "outcome" => record[Received(call[p][t].input[1])] = "reduced"
        /\ call[p][t].pc = "executing" =>
            \A x \in call[p][t].todo \cup {call[p][t].now} : effect[x] # "none"

\* The inductive invariant.
SafeInv == TypeOK /\ JournalMatches /\ OutcomeAfterEvent /\ CallsSound

\* An input names an event, and both inputs of that event are inputs.
LEMMA InputShape ==
    ASSUME NEW i \in Inputs
    PROVE  /\ i[1] \in Events /\ i = <<i[1], i[2]>>
           /\ Context(i) \in Contexts
           /\ Received(i[1]) \in Inputs /\ OutcomeOf(i[1]) \in Inputs
BY AppAssumption DEF Inputs, Context, Received, OutcomeOf, AppAssumption

\* An effect names the input that returned it.
LEMMA EffectShape ==
    ASSUME NEW x \in Effects
    PROVE  x[1] \in Inputs /\ x[2] \in Kinds /\ x = <<x[1], x[2]>>
BY DEF Effects

\* The invariant holds before the first runtime starts.
LEMMA InitSafe == Init => SafeInv
<1> SUFFICES ASSUME Init PROVE SafeInv
  OBVIOUS
<1>1. TypeOK
  <2>1. overlapped \in BOOLEAN /\ shared \in BOOLEAN BY Zenon DEF Init
  <2> QED BY <2>1, AppAssumption DEF Init, TypeOK, TaskStates, AppAssumption, Idle
<1>2. JournalMatches /\ OutcomeAfterEvent
  BY InputShape DEF Init, JournalMatches, OutcomeAfterEvent, Received, OutcomeOf, Inputs
<1>3. CallsSound
  BY DEF Init, CallsSound, Idle
<1> QED BY <1>1, <1>2, <1>3 DEF SafeInv

\* A call in flight has the fields of what it is doing.
LEMMA CallTypes ==
    ASSUME TypeOK, NEW p \in Procs, NEW t \in Calls
    PROVE  /\ call[p][t] \in {Idle} \cup Handling \cup Executing
           /\ call[p][t].pc = "handling" => call[p][t] \in Handling
           /\ call[p][t].pc = "executing" => call[p][t] \in Executing
BY DEF TypeOK, Idle, Handling, Executing

\* Starting a runtime keeps the types.
LEMMA TypeStart ==
    ASSUME TypeOK, NEW p \in Procs, StartRuntime(p)
    PROVE  TypeOK'
<1>1. starts' = starts + 1 /\ starts' \in 0..MaxStarts /\ starts \in Nat
  BY AppAssumption DEF TypeOK, StartRuntime, AppAssumption
<1>2. instance' \in [Procs -> 0..starts']
  BY <1>1 DEF TypeOK, StartRuntime
<1>3. effect' \in [Effects -> {"none", "pending", "executing", "applied", "failed", "needs-reconciliation"}]
  BY DEF TypeOK, StartRuntime, Interrupted
<1>4. by' \in [Effects -> 0..starts']
  BY <1>1 DEF TypeOK, StartRuntime
<1> QED BY <1>1, <1>2, <1>3, <1>4 DEF TypeOK, StartRuntime, Handling, Executing

\* A process that goes down leaves well-typed calls.
LEMMA TypeDown ==
    ASSUME TypeOK, NEW p \in Procs, Down(p)
    PROVE  instance' \in [Procs -> 0..starts] /\ call' \in [Procs -> [Calls -> {Idle} \cup Handling \cup Executing]]
<1>1. starts \in Nat BY DEF TypeOK
<1> QED BY <1>1 DEF TypeOK, Down, Idle

\* A crash keeps the types.
LEMMA TypeCrash ==
    ASSUME TypeOK, NEW p \in Procs, Crash(p)
    PROVE  TypeOK'
BY TypeDown DEF TypeOK, Crash, storeVars, Handling, Executing

\* Recording an input keeps the rows' type.
LEMMA TypeRecord ==
    ASSUME TypeOK, NEW i \in Inputs, NEW s \in {"reduced", "unsupported", "ignored-terminal", "failed"}, Record(i, s)
    PROVE  record' \in [Inputs -> {"none", "reduced", "unsupported", "ignored-terminal", "failed"}]
BY DEF TypeOK, Record

\* A call that awaits its consumer is well typed: no consumer is asked about a terminal task.
LEMMA TypeAwait ==
    ASSUME TypeOK, NEW p \in Procs, NEW t \in Calls, NEW i \in Inputs, task[Context(i)] \notin Terminal, Await(p, t, i)
    PROVE  call' \in [Procs -> [Calls -> {Idle} \cup Handling \cup Executing]]
<1>1. reflects[Context(i)] \in SUBSET Inputs /\ task[Context(i)] \in TaskStates \ Terminal
  BY InputShape DEF TypeOK
<1>2. [pc |-> "handling", input |-> i, reflects |-> reflects[Context(i)], task |-> task[Context(i)]] \in Handling
  BY <1>1 DEF Handling
<1> QED BY <1>2 DEF TypeOK, Await

\* A call that begins keeps the flag's type.
LEMMA TypeFlag ==
    ASSUME NEW p \in Procs, NEW t \in Calls, MayBegin(p, t)
    PROVE  overlapped' \in BOOLEAN
BY Zenon DEF MayBegin

\* process keeps the types.
LEMMA TypeProcess ==
    ASSUME TypeOK, NEW p \in Procs, NEW t \in Calls, NEW e \in Events, Process(p, t, e)
    PROVE  TypeOK'
<1>0. Received(e) \in Inputs BY DEF Received, Inputs
<1>1. record' \in [Inputs -> {"none", "reduced", "unsupported", "ignored-terminal", "failed"}]
  BY <1>0, TypeRecord DEF Process, TypeOK
<1>2. call' \in [Procs -> [Calls -> {Idle} \cup Handling \cup Executing]]
  BY <1>0, TypeAwait DEF Process, TypeOK
<1>3. overlapped' \in BOOLEAN BY TypeFlag DEF Process
<1> QED BY <1>1, <1>2, <1>3 DEF TypeOK, Process, Handling, Executing

\* resume keeps the types.
LEMMA TypeResume ==
    ASSUME TypeOK, NEW p \in Procs, NEW t \in Calls, NEW e \in Events, Resume(p, t, e)
    PROVE  TypeOK'
<1>0. OutcomeOf(e) \in Inputs /\ Context(OutcomeOf(e)) = ContextOf[e] BY DEF OutcomeOf, Inputs, Context
<1>2. call' \in [Procs -> [Calls -> {Idle} \cup Handling \cup Executing]]
  BY <1>0, TypeAwait DEF Resume, TypeOK, MayResume
<1>3. overlapped' \in BOOLEAN BY TypeFlag DEF Resume
<1> QED BY <1>2, <1>3 DEF TypeOK, Resume, storeVars, Handling, Executing

\* The commit after the consumer's answer keeps the types.
LEMMA TypeReturns ==
    ASSUME TypeOK, NEW p \in Procs, NEW t \in Calls, HandlerReturns(p, t)
    PROVE  TypeOK'
<1>0. call[p][t] \in Handling BY CallTypes DEF HandlerReturns
<1> DEFINE i == call[p][t].input
<1>1. i \in Inputs /\ call[p][t].reflects \in SUBSET Inputs BY <1>0 DEF Handling
<1>2. PICK ts \in TaskStates, kinds \in SUBSET Kinds, a \in BOOLEAN : Commit(call[p][t], ts, kinds, a)
  BY DEF HandlerReturns
<1>3. record' \in [Inputs -> {"none", "reduced", "unsupported", "ignored-terminal", "failed"}]
  BY <1>1, <1>2, TypeRecord DEF Commit
<1>4. reflects' \in [Contexts -> SUBSET Inputs] /\ task' \in [Contexts -> TaskStates]
  BY <1>1, <1>2, InputShape DEF Commit, TypeOK
<1>5. effect' \in [Effects -> {"none", "pending", "executing", "applied", "failed", "needs-reconciliation"}]
  BY <1>2 DEF Commit, TypeOK
<1>6. call' \in [Procs -> [Calls -> {Idle} \cup Handling \cup Executing]] /\ instance' \in [Procs -> 0..starts]
  <2>1. (call' = [call EXCEPT ![p][t] = Idle] /\ instance' = instance) \/ Down(p)
    BY DEF HandlerReturns
  <2>2. CASE call' = [call EXCEPT ![p][t] = Idle] /\ instance' = instance
    BY <2>2 DEF TypeOK
  <2> QED BY <2>1, <2>2, TypeDown
<1> QED BY <1>3, <1>4, <1>5, <1>6 DEF TypeOK, HandlerReturns, Handling, Executing

\* A consumer that throws keeps the types.
LEMMA TypeThrows ==
    ASSUME TypeOK, NEW p \in Procs, NEW t \in Calls, HandlerThrows(p, t)
    PROVE  TypeOK'
<1>0. call[p][t].input \in Inputs BY CallTypes DEF HandlerThrows, Handling
<1>1. record' \in [Inputs -> {"none", "reduced", "unsupported", "ignored-terminal", "failed"}]
  BY <1>0, TypeRecord DEF HandlerThrows
<1>2. call' \in [Procs -> [Calls -> {Idle} \cup Handling \cup Executing]]
  BY DEF HandlerThrows, TypeOK
<1> QED BY <1>1, <1>2 DEF TypeOK, HandlerThrows, Handling, Executing

\* A call that begins an effect is well typed.
LEMMA TypeBegin ==
    ASSUME TypeOK, NEW p \in Procs, NEW t \in Calls, NEW x \in Effects, NEW todo \in SUBSET Effects, Begin(p, t, x, todo)
    PROVE  call' \in [Procs -> [Calls -> {Idle} \cup Handling \cup Executing]]
<1>1. [pc |-> "executing", todo |-> todo \ {x}, now |-> x] \in Executing
  BY DEF Executing
<1> QED BY <1>1 DEF Begin, TypeOK

\* markEffect keeps the types.
LEMMA TypeMark ==
    ASSUME TypeOK, NEW p \in Procs, NEW x \in Effects, NEW s \in {"executing", "applied", "failed"}, Mark(p, x, s)
    PROVE  /\ effect' \in [Effects -> {"none", "pending", "executing", "applied", "failed", "needs-reconciliation"}]
           /\ by' \in [Effects -> 0..starts]
<1>1. starts \in Nat /\ instance[p] \in 0..starts BY DEF TypeOK
<1> QED BY <1>1 DEF Mark, TypeOK

\* Listing the pending effects keeps the types.
LEMMA TypeExecute ==
    ASSUME TypeOK, NEW p \in Procs, NEW t \in Calls, ExecutePending(p, t)
    PROVE  TypeOK'
<1>1. PICK x \in Pending : Mark(p, x, "executing") /\ Begin(p, t, x, Pending) /\ attempts' = [attempts EXCEPT ![x] = @ + 1]
  BY DEF ExecutePending
<1>2. x \in Effects /\ Pending \in SUBSET Effects BY DEF Pending
<1>3. attempts' \in [Effects -> Nat] BY <1>1, <1>2 DEF TypeOK
<1>4. overlapped' \in BOOLEAN BY TypeFlag DEF ExecutePending
<1> QED BY <1>1, <1>2, <1>3, <1>4, TypeMark, TypeBegin DEF TypeOK, ExecutePending, Handling, Executing

\* The end of one execution, and the start of the next, keeps the types.
LEMMA TypeExecuted ==
    ASSUME TypeOK, NEW p \in Procs, NEW t \in Calls, NEW s \in {"applied", "failed"}, Executed(p, t, s)
    PROVE  TypeOK'
<1>0. call[p][t].now \in Effects /\ call[p][t].todo \in SUBSET Effects
  BY CallTypes DEF Executed, Executing
<1>1. CASE call[p][t].todo = {}
  <2>1. Mark(p, call[p][t].now, s) /\ call' = [call EXCEPT ![p][t] = Idle] /\ attempts' = attempts
    BY <1>1 DEF Executed
  <2>2. call' \in [Procs -> [Calls -> {Idle} \cup Handling \cup Executing]]
    BY <2>1 DEF TypeOK
  <2> QED BY <2>1, <2>2, <1>0, TypeMark DEF TypeOK, Executed, Handling, Executing
<1>2. CASE call[p][t].todo # {}
  <2>1. PICK x \in call[p][t].todo :
            /\ effect' = [effect EXCEPT ![call[p][t].now] = s, ![x] = "executing"]
            /\ by' = [by EXCEPT ![call[p][t].now] = 0, ![x] = instance[p]]
            /\ Begin(p, t, x, call[p][t].todo)
            /\ attempts' = [attempts EXCEPT ![x] = @ + 1]
    BY <1>2 DEF Executed
  <2>2. x \in Effects BY <1>0
  <2>3. instance[p] \in 0..starts /\ starts \in Nat BY DEF TypeOK
  <2>4. effect' \in [Effects -> {"none", "pending", "executing", "applied", "failed", "needs-reconciliation"}]
    BY <2>1, <2>2, <1>0 DEF TypeOK
  <2>5. by' \in [Effects -> 0..starts] /\ attempts' \in [Effects -> Nat]
    BY <2>1, <2>2, <2>3, <1>0 DEF TypeOK
  <2>6. call' \in [Procs -> [Calls -> {Idle} \cup Handling \cup Executing]]
    BY <2>1, <2>2, <1>0, TypeBegin
  <2> QED BY <2>4, <2>5, <2>6 DEF TypeOK, Executed, Handling, Executing
<1> QED BY <1>1, <1>2

\* Every step keeps the types.
LEMMA TypeNext ==
    ASSUME TypeOK, [Next]_vars
    PROVE  TypeOK'
<1>1. CASE UNCHANGED vars BY <1>1 DEF vars, TypeOK, Handling, Executing
<1>2. CASE Next
  BY <1>2, TypeStart, TypeCrash, TypeProcess, TypeResume, TypeReturns, TypeThrows, TypeExecute, TypeExecuted DEF Next, CallStep
<1> QED BY <1>1, <1>2

\* ON CONFLICT DO NOTHING: a row of application_events never changes.
LEMMA RecordKept ==
    ASSUME TypeOK, [Next]_vars, NEW i \in Inputs, record[i] # "none"
    PROVE  record'[i] = record[i]
<1>1. CASE UNCHANGED vars BY <1>1 DEF vars
<1>2. CASE \E p \in Procs : StartRuntime(p) \/ Crash(p)
  BY <1>2 DEF StartRuntime, Crash, storeVars
<1>3. CASE \E p \in Procs, t \in Calls : ExecutePending(p, t) \/ Executed(p, t, "applied") \/ Executed(p, t, "failed")
  BY <1>3 DEF ExecutePending, Executed
<1>4. CASE \E p \in Procs, t \in Calls, e \in Events : Resume(p, t, e)
  BY <1>4 DEF Resume, storeVars
<1>6. CASE \E p \in Procs, t \in Calls, e \in Events : Process(p, t, e)
  <2>1. PICK p \in Procs, t \in Calls, e \in Events : Process(p, t, e) BY <1>6
  <2>2. Received(e) \in Inputs BY DEF Received, Inputs
  <2> QED BY <2>1, <2>2 DEF Process, Record, TypeOK, Await
<1>7. CASE \E p \in Procs, t \in Calls : HandlerReturns(p, t) \/ HandlerThrows(p, t)
  <2>1. PICK p \in Procs, t \in Calls : HandlerReturns(p, t) \/ HandlerThrows(p, t) BY <1>7
  <2>2. call[p][t].input \in Inputs
    BY <2>1, CallTypes DEF HandlerReturns, HandlerThrows, Handling
  <2> QED BY <2>1, <2>2 DEF HandlerReturns, HandlerThrows, Commit, Record, TypeOK
<1> QED BY <1>1, <1>2, <1>3, <1>4, <1>6, <1>7 DEF Next, CallStep

\* An input that has a row gets no more effects, and loses none.
LEMMA EffectsKept ==
    ASSUME TypeOK, [Next]_vars, NEW x \in Effects, record[x[1]] # "none" , CallsSound
    PROVE  effect'[x] = "none" <=> effect[x] = "none"
<1>1. CASE UNCHANGED vars BY <1>1 DEF vars
<1>2. CASE \E p \in Procs : StartRuntime(p) \/ Crash(p)
  BY <1>2 DEF StartRuntime, Crash, storeVars, Interrupted, TypeOK
<1>4. CASE \E p \in Procs, t \in Calls, e \in Events : Resume(p, t, e) \/ Process(p, t, e)
  BY <1>4 DEF Resume, Process, storeVars
<1>5. CASE \E p \in Procs, t \in Calls : HandlerThrows(p, t)
  BY <1>5 DEF HandlerThrows
<1>6. CASE \E p \in Procs, t \in Calls : HandlerReturns(p, t)
  <2>1. PICK p \in Procs, t \in Calls : HandlerReturns(p, t) BY <1>6
  <2>2. PICK ts \in TaskStates, kinds \in SUBSET Kinds, a \in BOOLEAN : Commit(call[p][t], ts, kinds, a)
    BY <2>1 DEF HandlerReturns
  <2>3. \A k \in {call[p][t].input} \X kinds : k[1] = call[p][t].input
    OBVIOUS
  <2> QED BY <2>2, <2>3 DEF Commit, FirstCommit
<1>7. CASE \E p \in Procs, t \in Calls : ExecutePending(p, t)
  BY <1>7 DEF ExecutePending, Mark, Pending, TypeOK
<1>8. CASE \E p \in Procs, t \in Calls : Executed(p, t, "applied") \/ Executed(p, t, "failed")
  <2>1. PICK p \in Procs, t \in Calls, s \in {"applied", "failed"} : Executed(p, t, s) BY <1>8
  <2>2. \A y \in call[p][t].todo \cup {call[p][t].now} : effect[y] # "none"
    BY <2>1 DEF CallsSound, Executed
  <2> QED BY <2>1, <2>2 DEF Executed, Mark, TypeOK
<1> QED BY <1>1, <1>2, <1>4, <1>5, <1>6, <1>7, <1>8 DEF Next, CallStep

\* Every step keeps state, rows and journal in agreement.
LEMMA JournalNext ==
    ASSUME SafeInv, [Next]_vars
    PROVE  JournalMatches'
<1> USE DEF SafeInv
<1>0. \A i \in Inputs : record[i] = "reduced" => record'[i] = "reduced"
  BY RecordKept
<1>a. TypeOK' BY TypeNext
<1>1. CASE reflects' = reflects /\ \A x \in Effects : effect'[x] # "none" => effect[x] # "none"
  <2>1. \A c \in Contexts : \A i \in reflects[c] : i \in Inputs BY DEF TypeOK
  <2>2. \A x \in Effects : x[1] \in Inputs BY EffectShape
  <2> QED BY <1>1, <1>0, <2>1, <2>2 DEF JournalMatches
<1>2. CASE UNCHANGED vars BY <1>1, <1>2 DEF vars
<1>3. CASE \E p \in Procs : StartRuntime(p) \/ Crash(p)
  BY <1>1, <1>3 DEF StartRuntime, Crash, storeVars, Interrupted, TypeOK
<1>4. CASE \E p \in Procs, t \in Calls, e \in Events : Resume(p, t, e) \/ Process(p, t, e)
  BY <1>1, <1>4 DEF Resume, Process, storeVars
<1>5. CASE \E p \in Procs, t \in Calls : HandlerThrows(p, t)
  BY <1>1, <1>5 DEF HandlerThrows
<1>7. CASE \E p \in Procs, t \in Calls : ExecutePending(p, t)
  BY <1>1, <1>7 DEF ExecutePending, Mark, Pending, TypeOK
<1>8. CASE \E p \in Procs, t \in Calls : Executed(p, t, "applied") \/ Executed(p, t, "failed")
  <2>1. PICK p \in Procs, t \in Calls, s \in {"applied", "failed"} : Executed(p, t, s) BY <1>8
  <2>2. \A y \in call[p][t].todo \cup {call[p][t].now} : effect[y] # "none"
    BY <2>1 DEF CallsSound, Executed
  <2> QED BY <1>1, <2>1, <2>2 DEF Executed, Mark, TypeOK
<1>6. CASE \E p \in Procs, t \in Calls : HandlerReturns(p, t)
  <2>1. PICK p \in Procs, t \in Calls : HandlerReturns(p, t) BY <1>6
  <2> DEFINE h == call[p][t]
             i == h.input
  <2>2. PICK ts \in TaskStates, kinds \in SUBSET Kinds, a \in BOOLEAN : Commit(h, ts, kinds, a)
    BY <2>1 DEF HandlerReturns
  <2>3. i \in Inputs /\ Context(i) \in Contexts
    BY <2>1, CallTypes, InputShape DEF HandlerReturns, Handling
  <2>4. \A j \in h.reflects : record[j] = "reduced" /\ Context(j) = Context(i) /\ j \in Inputs
    BY <2>1, CallTypes DEF CallsSound, HandlerReturns, Handling
  <2>5. CASE record[i] = "none"
    <3>1. record'[i] = "reduced"
      BY <2>2, <2>3, <2>5 DEF Commit, Record, TypeOK
    <3>2. reflects' = [reflects EXCEPT ![Context(i)] = h.reflects \cup {i}]
      BY <2>2, <2>5 DEF Commit, FirstCommit
    <3>3. ASSUME NEW c \in Contexts, NEW j \in reflects'[c] PROVE record'[j] = "reduced" /\ Context(j) = c
      <4>1. CASE c = Context(i)
        BY <4>1, <3>1, <3>2, <3>3, <2>3, <2>4, <1>0 DEF TypeOK
      <4>2. CASE c # Context(i)
        BY <4>2, <3>2, <3>3, <1>0, <2>3 DEF JournalMatches, TypeOK
      <4> QED BY <4>1, <4>2
    <3>4. ASSUME NEW x \in Effects, effect'[x] # "none" PROVE record'[x[1]] = "reduced"
      <4>1. x \in {i} \X kinds \/ effect[x] # "none"
        BY <2>2, <3>4 DEF Commit, FirstCommit
      <4>2. CASE x \in {i} \X kinds
        <5>1. x[1] = i BY <4>2
        <5> QED BY <5>1, <3>1
      <4>3. CASE effect[x] # "none"
        BY <4>3, <1>0, EffectShape DEF JournalMatches
      <4> QED BY <4>1, <4>2, <4>3
    <3> QED BY <3>3, <3>4 DEF JournalMatches, Context
  <2>6. CASE record[i] # "none"
    BY <1>1, <2>2, <2>6 DEF Commit, FirstCommit
  <2> QED BY <2>5, <2>6
<1> QED BY <1>2, <1>3, <1>4, <1>5, <1>6, <1>7, <1>8 DEF Next, CallStep

\* Every step keeps an outcome's row behind the row of its event.
LEMMA OutcomeNext ==
    ASSUME SafeInv, [Next]_vars
    PROVE  OutcomeAfterEvent'
<1> USE DEF SafeInv
<1> SUFFICES ASSUME NEW e \in Events, record'[OutcomeOf(e)] # "none" PROVE record'[Received(e)] = "reduced"
  BY DEF OutcomeAfterEvent, OutcomeOf, Received
<1>0. OutcomeOf(e) \in Inputs /\ Received(e) \in Inputs /\ OutcomeOf(e)[1] = e /\ OutcomeOf(e)[2] = "outcome"
  BY DEF OutcomeOf, Received, Inputs
<1>1. record[Received(e)] = "reduced" => record'[Received(e)] = "reduced"
  BY <1>0, RecordKept
<1>2. CASE record[OutcomeOf(e)] # "none"
  BY <1>1, <1>2 DEF OutcomeAfterEvent
<1>3. CASE record[OutcomeOf(e)] = "none"
  <2>1. ~UNCHANGED record BY <1>3
  <2>2. PICK p \in Procs, t \in Calls : HandlerReturns(p, t) \/ HandlerThrows(p, t) \/ \E f \in Events : Process(p, t, f)
    BY <2>1 DEF Next, CallStep, vars, StartRuntime, Crash, storeVars, ExecutePending, Executed, Resume
  <2>3. ASSUME NEW f \in Events, Process(p, t, f) PROVE record'[OutcomeOf(e)] = record[OutcomeOf(e)]
    <3>1. Received(f) \in Inputs /\ Received(f) # OutcomeOf(e)
      BY DEF Received, OutcomeOf, Inputs
    <3> QED BY <2>3, <3>1, <1>0 DEF Process, Record, TypeOK, Await
  <2>4. HandlerReturns(p, t) \/ HandlerThrows(p, t)
    BY <2>2, <2>3, <1>3
  <2>5. call[p][t].input \in Inputs /\ call[p][t].pc = "handling"
    BY <2>4, CallTypes DEF HandlerReturns, HandlerThrows, Handling
  <2>6. call[p][t].input = OutcomeOf(e)
    BY <2>4, <2>5, <1>0, <1>3 DEF HandlerReturns, HandlerThrows, Commit, Record, TypeOK
  <2> QED BY <2>5, <2>6, <1>0, <1>1 DEF CallsSound
<1> QED BY <1>2, <1>3

\* CallsSound of one call.
CallSound(c) ==
    /\ c.pc = "handling" =>
        /\ \A j \in c.reflects : record[j] = "reduced" /\ Context(j) = Context(c.input)
        /\ c.input[2] = "outcome" => record[Received(c.input[1])] = "reduced"
    /\ c.pc = "executing" => \A x \in c.todo \cup {c.now} : effect[x] # "none"

\* Every step keeps what the calls in flight carry backed by rows.
LEMMA CallsNext ==
    ASSUME SafeInv, [Next]_vars
    PROVE  CallsSound'
<1> USE DEF SafeInv
<1> SUFFICES ASSUME NEW p \in Procs, NEW t \in Calls PROVE CallSound(call[p][t])'
  BY DEF CallsSound, CallSound, Context
<1>0. \A i \in Inputs : record[i] = "reduced" => record'[i] = "reduced"
  BY RecordKept
<1>1. \A x \in Effects : effect[x] # "none" => effect'[x] # "none"
  BY EffectsKept, EffectShape DEF JournalMatches
<1>2. ASSUME NEW c \in {Idle} \cup Handling \cup Executing, CallSound(c), call'[p][t] = c
      PROVE  CallSound(call[p][t])'
  <2>1. c.pc = "handling" => c \in Handling BY DEF Idle, Handling, Executing
  <2>2. c.pc = "executing" => c \in Executing BY DEF Idle, Handling, Executing
  <2>3. c.pc = "handling" => c.reflects \in SUBSET Inputs /\ c.input \in Inputs
    BY <2>1 DEF Handling
  <2>4. c.pc = "executing" => c.todo \in SUBSET Effects /\ c.now \in Effects
    BY <2>2 DEF Executing
  <2>5. c.pc = "handling" => Received(c.input[1]) \in Inputs
    BY <2>3, InputShape
  <2> QED BY <1>0, <1>1, <1>2, <2>3, <2>4, <2>5 DEF CallSound, Context
<1>3. CallSound(call[p][t]) /\ call[p][t] \in {Idle} \cup Handling \cup Executing
  BY CallTypes DEF CallsSound, CallSound
<1>4. CASE call'[p][t] = call[p][t] BY <1>2, <1>3, <1>4
<1>5. CASE call'[p][t] = Idle
  BY <1>5 DEF CallSound, Idle
<1>6. ASSUME NEW e \in Events, Process(p, t, e), call'[p][t] # call[p][t] PROVE CallSound(call[p][t])'
  <2> DEFINE i == Received(e)
             c == [pc |-> "handling", input |-> i, reflects |-> reflects[Context(i)], task |-> task[Context(i)]]
  <2>1. i \in Inputs /\ i[2] = "event" /\ Context(i) \in Contexts BY InputShape DEF Received, Inputs
  <2>2. call'[p][t] = c /\ c \in Handling
    BY <1>6, <2>1 DEF Process, Await, TypeOK, Handling
  <2>3. CallSound(c)
    BY <2>1 DEF CallSound, JournalMatches
  <2> QED BY <2>2, <2>3, <1>2
<1>7. ASSUME NEW e \in Events, Resume(p, t, e) PROVE CallSound(call[p][t])'
  <2> DEFINE i == OutcomeOf(e)
             c == [pc |-> "handling", input |-> i, reflects |-> reflects[Context(i)], task |-> task[Context(i)]]
  <2>1. i \in Inputs /\ i[1] = e /\ Context(i) \in Contexts /\ Context(i) = ContextOf[e]
    BY InputShape DEF OutcomeOf, Inputs, Context
  <2>2. call'[p][t] = c /\ c \in Handling
    BY <1>7, <2>1 DEF Resume, Await, MayResume, TypeOK, Handling
  <2>3. CallSound(c)
    BY <1>7, <2>1 DEF CallSound, JournalMatches, Resume, MayResume
  <2> QED BY <2>2, <2>3, <1>2
<1>8. CASE ExecutePending(p, t)
  <2>1. PICK x \in Pending : Begin(p, t, x, Pending) BY <1>8 DEF ExecutePending
  <2> DEFINE c == [pc |-> "executing", todo |-> Pending \ {x}, now |-> x]
  <2>2. call'[p][t] = c /\ c \in Executing
    BY <2>1 DEF Begin, TypeOK, Executing, Pending
  <2>3. CallSound(c) BY DEF CallSound, Pending
  <2> QED BY <2>2, <2>3, <1>2
<1>9. ASSUME NEW s \in {"applied", "failed"}, Executed(p, t, s), call'[p][t] # Idle PROVE CallSound(call[p][t])'
  <2>0. call[p][t] \in Executing BY <1>9, CallTypes DEF Executed
  <2>1. PICK x \in call[p][t].todo : Begin(p, t, x, call[p][t].todo)
    BY <1>9 DEF Executed, TypeOK
  <2> DEFINE c == [pc |-> "executing", todo |-> call[p][t].todo \ {x}, now |-> x]
  <2>2. call'[p][t] = c /\ c \in Executing
    BY <2>0, <2>1 DEF Begin, TypeOK, Executing
  <2>3. CallSound(c) BY <1>9, <1>3 DEF CallSound, Executed
  <2> QED BY <2>2, <2>3, <1>2
<1>10. CASE UNCHANGED vars BY <1>4, <1>10 DEF vars
<1>11. ASSUME NEW q \in Procs, Down(q) PROVE call'[p][t] = call[p][t] \/ call'[p][t] = Idle
  BY <1>11 DEF Down, TypeOK
<1>12. ASSUME NEW q \in Procs, NEW u \in Calls, q # p \/ u # t,
              NEW c, call' = [call EXCEPT ![q][u] = c]
       PROVE  call'[p][t] = call[p][t]
  BY <1>12 DEF TypeOK
<1>13. CASE \E q \in Procs : StartRuntime(q) \/ Crash(q)
  BY <1>4, <1>5, <1>11, <1>13 DEF StartRuntime, Crash
<1>14. CASE \E q \in Procs, u \in Calls : HandlerReturns(q, u) \/ HandlerThrows(q, u)
  <2>1. PICK q \in Procs, u \in Calls : HandlerReturns(q, u) \/ HandlerThrows(q, u) BY <1>14
  <2>2. call' = [call EXCEPT ![q][u] = Idle] \/ Down(q)
    BY <2>1 DEF HandlerReturns, HandlerThrows
  <2>3. CASE Down(q) BY <2>3, <1>4, <1>5, <1>11
  <2>4. CASE call' = [call EXCEPT ![q][u] = Idle]
    BY <2>4, <1>4, <1>5 DEF TypeOK
  <2> QED BY <2>2, <2>3, <2>4
<1>15. CASE \E q \in Procs, u \in Calls, e \in Events : Process(q, u, e) \/ Resume(q, u, e)
  <2>1. PICK q \in Procs, u \in Calls, e \in Events : Process(q, u, e) \/ Resume(q, u, e) BY <1>15
  <2>2. CASE q = p /\ u = t BY <2>1, <2>2, <1>4, <1>6, <1>7
  <2>3. CASE q # p \/ u # t
    <3>1. call'[p][t] = call[p][t]
      BY <2>1, <2>3 DEF Process, Resume, Await, TypeOK
    <3> QED BY <3>1, <1>4
  <2> QED BY <2>2, <2>3
<1>16. CASE \E q \in Procs, u \in Calls : ExecutePending(q, u)
  <2>1. PICK q \in Procs, u \in Calls : ExecutePending(q, u) BY <1>16
  <2>2. CASE q = p /\ u = t BY <2>1, <2>2, <1>8
  <2>3. CASE q # p \/ u # t
    <3>1. call'[p][t] = call[p][t]
      BY <2>1, <2>3 DEF ExecutePending, Begin, TypeOK
    <3> QED BY <3>1, <1>4
  <2> QED BY <2>2, <2>3
<1>17. CASE \E q \in Procs, u \in Calls : Executed(q, u, "applied") \/ Executed(q, u, "failed")
  <2>1. PICK q \in Procs, u \in Calls : Executed(q, u, "applied") \/ Executed(q, u, "failed") BY <1>17
  <2>2. CASE q = p /\ u = t BY <2>1, <2>2, <1>5, <1>9
  <2>3. CASE q # p \/ u # t
    <3>1. call'[p][t] = call[p][t]
      BY <2>1, <2>3 DEF Executed, Begin, TypeOK
    <3> QED BY <3>1, <1>4
  <2> QED BY <2>2, <2>3
<1> QED BY <1>10, <1>13, <1>14, <1>15, <1>16, <1>17 DEF Next, CallStep

\* The invariant, hence TypeOK, JournalMatches and OutcomeAfterEvent, holds in every
\* reachable state: state, event row and effects are committed together or not at all.
THEOREM Safety == Spec => []SafeInv
<1>1. Init => SafeInv BY InitSafe
<1>2. SafeInv /\ [Next]_vars => SafeInv'
  BY TypeNext, JournalNext, OutcomeNext, CallsNext DEF SafeInv
<1> QED BY <1>1, <1>2, PTL DEF Spec

\* Every reachable state is well typed.
THEOREM TypeCorrect == Spec => []TypeOK
<1>1. SafeInv => TypeOK BY DEF SafeInv
<1> QED BY <1>1, Safety, PTL

\* State, row and journal agree after every crash and whatever calls overlap.
THEOREM JournalAgrees == Spec => []JournalMatches
<1>1. SafeInv => JournalMatches BY DEF SafeInv
<1> QED BY <1>1, Safety, PTL

\* A harness outcome is only ever recorded for an event that was reduced.
THEOREM OutcomesFollow == Spec => []OutcomeAfterEvent
<1>1. SafeInv => OutcomeAfterEvent BY DEF SafeInv
<1> QED BY <1>1, Safety, PTL

\* What became of an input is decided once, whatever is redelivered, crashes or overlaps.
THEOREM RowsDecidedOnce == Spec => DecidedOnce
<1>1. SafeInv /\ [Next]_vars =>
        [\A i \in Inputs : record[i] # "none" =>
            /\ record'[i] = record[i]
            /\ \A x \in {i} \X Kinds : effect'[x] = "none" <=> effect[x] = "none"]_vars
  <2> SUFFICES ASSUME SafeInv, [Next]_vars, NEW i \in Inputs, record[i] # "none"
               PROVE  /\ record'[i] = record[i]
                      /\ \A x \in {i} \X Kinds : effect'[x] = "none" <=> effect[x] = "none"
    OBVIOUS
  <2>1. record'[i] = record[i] BY RecordKept DEF SafeInv
  <2>2. ASSUME NEW x \in {i} \X Kinds PROVE effect'[x] = "none" <=> effect[x] = "none"
    <3>1. x \in Effects /\ x[1] = i BY DEF Effects
    <3> QED BY <3>1, EffectsKept DEF SafeInv
  <2> QED BY <2>1, <2>2
<1> QED BY <1>1, Safety, PTL DEF Spec, DecidedOnce

\* The state of every context reflects each input that was reduced.
AllKept == \A i \in Inputs : record[i] = "reduced" => i \in reflects[Context(i)]

\* As long as no calls have overlapped: one call at most, working on the stored state.
SerialInv ==
    /\ \A p, q \in Procs, t, u \in Calls : call[p][t] # Idle /\ call[q][u] # Idle => p = q /\ t = u
    /\ \A p \in Procs, t \in Calls : call[p][t].pc = "handling" =>
        /\ call[p][t].reflects = reflects[Context(call[p][t].input)]
        /\ call[p][t].task = task[Context(call[p][t].input)]
        /\ record[call[p][t].input] = "none"
    /\ AllKept

\* SerialInv holds at first.
LEMMA SerialInit == Init => SerialInv
BY DEF Init, SerialInv, AllKept, Idle

\* While one call is in flight every other is idle.
LEMMA SerialIdle ==
    ASSUME TypeOK, SerialInv, NEW p \in Procs, NEW t \in Calls, call[p][t] # Idle
    PROVE  \A q \in Procs, u \in Calls : call[q][u] = Idle \/ (q = p /\ u = t)
BY DEF SerialInv

\* A process that goes down starts nothing.
LEMMA SerialDown ==
    ASSUME TypeOK, SerialInv, NEW p \in Procs, Down(p)
    PROVE  \A q \in Procs, u \in Calls : call'[q][u] = Idle \/ call'[q][u] = call[q][u]
BY DEF Down, TypeOK

\* A call begins only when none is in flight.
LEMMA SerialBegin ==
    ASSUME TypeOK, SerialInv, ~overlapped', NEW p \in Procs, NEW t \in Calls, MayBegin(p, t)
    PROVE  \A q \in Procs, u \in Calls : call[q][u] = Idle
BY DEF MayBegin

\* Ending calls, with rows and state unchanged, keeps SerialInv.
LEMMA SerialQuiet ==
    ASSUME TypeOK, SerialInv, reflects' = reflects, task' = task, record' = record,
           \A q \in Procs, u \in Calls : call'[q][u] \in {Idle, call[q][u]}
    PROVE  SerialInv'
<1>1. \A q \in Procs, u \in Calls : call'[q][u] # Idle => call'[q][u] = call[q][u]
  OBVIOUS
<1>2. \A q \in Procs, u \in Calls : call'[q][u].pc = "handling" => call'[q][u] = call[q][u]
  BY DEF Idle
<1> QED BY <1>1, <1>2 DEF SerialInv, AllKept, Context

\* Every step keeps SerialInv and a terminal task state.
LEMMA SerialNext ==
    ASSUME SafeInv, SerialInv, ~overlapped', [Next]_vars
    PROVE  SerialInv' /\ \A c \in Contexts : task[c] \in Terminal => task'[c] = task[c]
<1> USE DEF SafeInv
<1>1. CASE UNCHANGED vars
  BY <1>1, SerialQuiet DEF vars
<1>2. CASE \E p \in Procs : StartRuntime(p) \/ Crash(p)
  <2>1. reflects' = reflects /\ task' = task /\ record' = record
    BY <1>2 DEF StartRuntime, Crash, storeVars
  <2>2. \A q \in Procs, u \in Calls : call'[q][u] \in {Idle, call[q][u]}
    BY <1>2, SerialDown DEF StartRuntime, Crash
  <2> QED BY <2>1, <2>2, SerialQuiet
<1>3. ASSUME NEW p \in Procs, NEW t \in Calls, NEW i \in Inputs,
             MayBegin(p, t), Await(p, t, i), record[i] = "none",
             reflects' = reflects, task' = task, record' = record
      PROVE  SerialInv'
  <2>1. \A q \in Procs, u \in Calls : call[q][u] = Idle BY <1>3, SerialBegin
  <2>2. \A q \in Procs, u \in Calls :
           call'[q][u] = IF q = p /\ u = t
                         THEN [pc |-> "handling", input |-> i, reflects |-> reflects[Context(i)], task |-> task[Context(i)]]
                         ELSE Idle
    BY <1>3, <2>1 DEF Await, TypeOK
  <2> QED BY <1>3, <2>2 DEF SerialInv, AllKept, Idle, Context
<1>4. CASE \E p \in Procs, t \in Calls, e \in Events : Process(p, t, e)
  <2>1. PICK p \in Procs, t \in Calls, e \in Events : Process(p, t, e) BY <1>4
  <2>2. Received(e) \in Inputs BY DEF Received, Inputs
  <2>3. CASE Await(p, t, Received(e)) /\ record' = record
    BY <2>1, <2>2, <2>3, <1>3 DEF Process
  <2>4. CASE call' = call /\ (Record(Received(e), "unsupported") \/ Record(Received(e), "ignored-terminal"))
    <3>1. \A q \in Procs, u \in Calls : call[q][u] = Idle BY <2>1, SerialBegin DEF Process
    <3>2. \A i \in Inputs : record'[i] = "reduced" => record[i] = "reduced"
      BY <2>2, <2>4 DEF Record, TypeOK
    <3>3. reflects' = reflects /\ task' = task BY <2>1 DEF Process
    <3> QED BY <2>4, <3>1, <3>2, <3>3 DEF SerialInv, AllKept, Idle, Context
  <2>5. task' = task BY <2>1 DEF Process
  <2> QED BY <2>1, <2>3, <2>4, <2>5 DEF Process
<1>5. CASE \E p \in Procs, t \in Calls, e \in Events : Resume(p, t, e)
  <2>1. PICK p \in Procs, t \in Calls, e \in Events : Resume(p, t, e) BY <1>5
  <2>2. OutcomeOf(e) \in Inputs BY DEF OutcomeOf, Inputs
  <2> QED BY <2>1, <2>2, <1>3 DEF Resume, MayResume, storeVars
<1>6. CASE \E p \in Procs, t \in Calls : ExecutePending(p, t)
  <2>1. PICK p \in Procs, t \in Calls : ExecutePending(p, t) BY <1>6
  <2>2. \A q \in Procs, u \in Calls : call[q][u] = Idle BY <2>1, SerialBegin DEF ExecutePending
  <2>3. PICK x \in Pending : Begin(p, t, x, Pending) BY <2>1 DEF ExecutePending
  <2>4. \A q \in Procs, u \in Calls :
           call'[q][u] = IF q = p /\ u = t THEN [pc |-> "executing", todo |-> Pending \ {x}, now |-> x] ELSE Idle
    BY <2>2, <2>3 DEF Begin, TypeOK
  <2>5. reflects' = reflects /\ task' = task /\ record' = record BY <2>1 DEF ExecutePending
  <2> QED BY <2>4, <2>5 DEF SerialInv, AllKept, Idle, Context
<1>7. CASE \E p \in Procs, t \in Calls : Executed(p, t, "applied") \/ Executed(p, t, "failed")
  <2>1. PICK p \in Procs, t \in Calls, s \in {"applied", "failed"} : Executed(p, t, s) BY <1>7
  <2>2. call[p][t] # Idle /\ call[p][t] \in Executing
    BY <2>1, CallTypes DEF Executed, Idle
  <2>3. reflects' = reflects /\ task' = task /\ record' = record BY <2>1 DEF Executed
  <2>4. CASE call' = [call EXCEPT ![p][t] = Idle]
    <3>1. \A q \in Procs, u \in Calls : call'[q][u] \in {Idle, call[q][u]} BY <2>4 DEF TypeOK
    <3> QED BY <3>1, <2>3, SerialQuiet
  <2>5. CASE \E x \in call[p][t].todo : Begin(p, t, x, call[p][t].todo)
    <3>1. PICK x \in call[p][t].todo : Begin(p, t, x, call[p][t].todo) BY <2>5
    <3>2. \A q \in Procs, u \in Calls :
           call'[q][u] = IF q = p /\ u = t
                         THEN [pc |-> "executing", todo |-> call[p][t].todo \ {x}, now |-> x] ELSE Idle
      BY <2>2, <3>1, SerialIdle DEF Begin, TypeOK
    <3> QED BY <3>2, <2>3 DEF SerialInv, AllKept, Idle, Context
  <2> QED BY <2>1, <2>3, <2>4, <2>5 DEF Executed
<1>8. CASE \E p \in Procs, t \in Calls : HandlerThrows(p, t)
  <2>1. PICK p \in Procs, t \in Calls : HandlerThrows(p, t) BY <1>8
  <2>2. call[p][t] # Idle /\ call[p][t].input \in Inputs
    BY <2>1, CallTypes DEF HandlerThrows, Handling, Idle
  <2>3. \A q \in Procs, u \in Calls : call'[q][u] = Idle
    BY <2>1, <2>2, SerialIdle DEF HandlerThrows, TypeOK
  <2>4. \A i \in Inputs : record'[i] = "reduced" => record[i] = "reduced"
    BY <2>1, <2>2 DEF HandlerThrows, Record, TypeOK
  <2>5. reflects' = reflects /\ task' = task BY <2>1 DEF HandlerThrows
  <2> QED BY <2>3, <2>4, <2>5 DEF SerialInv, AllKept, Idle, Context
<1>9. CASE \E p \in Procs, t \in Calls : HandlerReturns(p, t)
  <2>1. PICK p \in Procs, t \in Calls : HandlerReturns(p, t) BY <1>9
  <2> DEFINE h == call[p][t]
             i == h.input
  <2>2. PICK ts \in TaskStates, kinds \in SUBSET Kinds, a \in BOOLEAN : Commit(h, ts, kinds, a)
    BY <2>1 DEF HandlerReturns
  <2>3. h # Idle /\ h \in Handling /\ i \in Inputs /\ Context(i) \in Contexts
    <3>1. h.pc = "handling" BY <2>1 DEF HandlerReturns
    <3>2. h \in Handling BY <3>1, CallTypes
    <3>3. h # Idle BY <3>1 DEF Idle
    <3>4. i \in Inputs BY <3>2 DEF Handling
    <3> QED BY <3>2, <3>3, <3>4, InputShape
  <2>4. h.reflects = reflects[Context(i)] /\ h.task = task[Context(i)] /\ record[i] = "none"
    BY <2>1 DEF SerialInv, HandlerReturns
  <2>5. task[Context(i)] \notin Terminal
    BY <2>3, <2>4 DEF Handling
  <2>6. reflects' = [reflects EXCEPT ![Context(i)] = reflects[Context(i)] \cup {i}] /\ task' = [task EXCEPT ![Context(i)] = ts]
    BY <2>2, <2>4 DEF Commit, FirstCommit
  <2>7. \A j \in Inputs : record'[j] = "reduced" => record[j] = "reduced" \/ j = i
    BY <2>2, <2>3 DEF Commit, Record, TypeOK
  <2>8. \A q \in Procs, u \in Calls : call'[q][u] = Idle
    <3>1. \A q \in Procs, u \in Calls : call[q][u] = Idle \/ (q = p /\ u = t)
      BY <2>3, SerialIdle
    <3>2. call' = [call EXCEPT ![p][t] = Idle] \/ Down(p)
      BY <2>1 DEF HandlerReturns
    <3>3. CASE call' = [call EXCEPT ![p][t] = Idle] BY <3>1, <3>3 DEF TypeOK
    <3>4. CASE Down(p) BY <3>1, <3>4 DEF TypeOK, Down
    <3> QED BY <3>2, <3>3, <3>4
  <2>9. AllKept'
    <3> SUFFICES ASSUME NEW j \in Inputs, record'[j] = "reduced" PROVE j \in reflects'[Context(j)]
      BY DEF AllKept, Context
    <3>1. Context(j) \in Contexts BY InputShape
    <3>2. CASE j = i BY <3>2, <2>3, <2>6 DEF TypeOK
    <3>3. CASE record[j] = "reduced"
      <4>1. j \in reflects[Context(j)] BY <3>3 DEF SerialInv, AllKept
      <4> QED BY <4>1, <3>1, <2>3, <2>6 DEF TypeOK
    <3> QED BY <2>7, <3>2, <3>3
  <2>10. SerialInv' BY <2>8, <2>9 DEF SerialInv, Idle
  <2>11. \A c \in Contexts : task[c] \in Terminal => task'[c] = task[c]
    BY <2>3, <2>5, <2>6 DEF TypeOK
  <2> QED BY <2>10, <2>11
<1> QED
  <2>1. CASE UNCHANGED task
    BY <2>1, <1>1, <1>2, <1>4, <1>5, <1>6, <1>7, <1>8, <1>9 DEF Next, CallStep
  <2>2. CASE ~UNCHANGED task
    <3>1. \E p \in Procs, t \in Calls : HandlerReturns(p, t)
      BY <2>2 DEF Next, CallStep, vars, StartRuntime, Crash, storeVars, Process, Resume, HandlerThrows, ExecutePending, Executed
    <3> QED BY <3>1, <1>9
  <2> QED BY <2>1, <2>2

\* An overlap is remembered.
LEMMA OverlapKept ==
    ASSUME TypeOK, [Next]_vars, ~overlapped'
    PROVE  ~overlapped
<1>1. CASE UNCHANGED vars BY <1>1 DEF vars
<1>2. CASE \E p \in Procs : StartRuntime(p) \/ Crash(p)
  BY <1>2 DEF StartRuntime, Crash
<1>3. CASE \E p \in Procs, t \in Calls : MayBegin(p, t)
  BY <1>3 DEF MayBegin
<1>4. CASE \E p \in Procs, t \in Calls : CallStep(p, t)
  BY <1>4 DEF CallStep, HandlerReturns, HandlerThrows, Executed
<1> QED BY <1>1, <1>2, <1>3, <1>4 DEF Next, ExecutePending, Process, Resume

\* The invariant of the executions: an effect that may still be begun was never begun.
ExecInv ==
    /\ \A x \in Effects :
        /\ attempts[x] <= 1
        /\ effect[x] \in {"none", "pending"} => attempts[x] = 0
    /\ \A p \in Procs, t \in Calls : call[p][t].pc = "executing" =>
        /\ call[p][t].now \notin call[p][t].todo
        /\ \A x \in call[p][t].todo : effect[x] = "pending"

\* ExecInv holds before the first runtime starts.
LEMMA ExecInit == Init => ExecInv
BY DEF Init, ExecInv, Idle

\* A step that leaves the counts alone and sets to pending only what had no row keeps ExecInv.
LEMMA ExecQuiet ==
    ASSUME TypeOK, ExecInv, attempts' = attempts,
           \A x \in Effects : effect'[x] \in {"none", "pending"} => effect[x] \in {"none", "pending"},
           \A q \in Procs, u \in Calls : call'[q][u].pc = "executing" =>
               /\ call'[q][u] = call[q][u]
               /\ \A x \in call[q][u].todo : effect'[x] = effect[x]
    PROVE  ExecInv'
BY DEF ExecInv

\* Beginning an effect that was pending, while every other call is idle, keeps ExecInv.
LEMMA ExecBegins ==
    ASSUME TypeOK, ExecInv, NEW p \in Procs, NEW t \in Calls, NEW x \in Effects, NEW todo \in SUBSET Effects,
           x \in todo, \A y \in todo : effect[y] = "pending",
           Begin(p, t, x, todo), attempts' = [attempts EXCEPT ![x] = @ + 1],
           effect'[x] = "executing", \A y \in todo \ {x} : effect'[y] = "pending",
           \A y \in Effects : effect'[y] \in {"none", "pending"} => effect[y] \in {"none", "pending"},
           \A q \in Procs, u \in Calls : call[q][u] = Idle \/ (q = p /\ u = t)
    PROVE  ExecInv'
<1>1. \A q \in Procs, u \in Calls :
        call'[q][u] = IF q = p /\ u = t THEN [pc |-> "executing", todo |-> todo \ {x}, now |-> x] ELSE Idle
  BY DEF Begin, TypeOK
<1>2. attempts[x] = 0 BY DEF ExecInv
<1>3. \A y \in Effects : attempts'[y] = IF y = x THEN 1 ELSE attempts[y]
  BY <1>2 DEF TypeOK
<1>4. \A y \in Effects : attempts'[y] <= 1 /\ (effect'[y] \in {"none", "pending"} => attempts'[y] = 0)
  BY <1>3 DEF ExecInv, TypeOK
<1> QED BY <1>1, <1>4 DEF ExecInv, Idle

\* As long as no calls have overlapped, every step keeps ExecInv.
LEMMA ExecNext ==
    ASSUME SafeInv, SerialInv, ExecInv, ~overlapped', [Next]_vars
    PROVE  ExecInv'
<1> USE DEF SafeInv
<1>1. CASE UNCHANGED vars BY <1>1, ExecQuiet DEF vars
<1>2. CASE \E p \in Procs : StartRuntime(p) \/ Crash(p)
  <2>1. PICK p \in Procs : StartRuntime(p) \/ Crash(p) BY <1>2
  <2>2. CASE StartRuntime(p)
    <3>1. attempts' = attempts /\ call' = call BY <2>2 DEF StartRuntime
    <3>2. \A x \in Effects : effect'[x] \in {"none", "pending"} => effect[x] \in {"none", "pending"}
      BY <2>2 DEF StartRuntime, Interrupted
    <3>3. \A x \in Effects : effect[x] = "pending" => effect'[x] = effect[x]
      BY <2>2 DEF StartRuntime, Interrupted
    <3>4. \A q \in Procs, u \in Calls : call[q][u].pc = "executing" =>
             \A x \in call[q][u].todo : x \in Effects /\ effect[x] = "pending"
      BY CallTypes DEF ExecInv, Executing
    <3> QED BY <3>1, <3>2, <3>3, <3>4, ExecQuiet
  <2>3. CASE Crash(p)
    <3>1. attempts' = attempts /\ effect' = effect BY <2>3 DEF Crash, storeVars
    <3>2. \A q \in Procs, u \in Calls : call'[q][u] = Idle \/ call'[q][u] = call[q][u]
      BY <2>3, SerialDown DEF Crash
    <3> QED BY <3>1, <3>2, ExecQuiet DEF Idle
  <2> QED BY <2>1, <2>2, <2>3
<1>3. CASE \E p \in Procs, t \in Calls, e \in Events : Process(p, t, e) \/ Resume(p, t, e)
  <2>1. PICK p \in Procs, t \in Calls, e \in Events : Process(p, t, e) \/ Resume(p, t, e) BY <1>3
  <2>2. attempts' = attempts /\ effect' = effect BY <2>1 DEF Process, Resume, storeVars
  <2>3. call' = call \/ \E c : c.pc = "handling" /\ call' = [call EXCEPT ![p][t] = c]
    <3>1. call' = call \/ \E i \in Inputs : Await(p, t, i)
      BY <2>1 DEF Process, Resume, Received, OutcomeOf, Inputs
    <3>2. ASSUME NEW i \in Inputs, Await(p, t, i)
          PROVE  \E c : c.pc = "handling" /\ call' = [call EXCEPT ![p][t] = c]
      <4> DEFINE c == [pc |-> "handling", input |-> i, reflects |-> reflects[Context(i)], task |-> task[Context(i)]]
      <4>1. c.pc = "handling" /\ call' = [call EXCEPT ![p][t] = c] BY <3>2 DEF Await
      <4> HIDE DEF c
      <4> QED BY <4>1
    <3> QED BY <3>1, <3>2
  <2>4. \A q \in Procs, u \in Calls : call'[q][u] = call[q][u] \/ call'[q][u].pc = "handling"
    BY <2>3 DEF TypeOK
  <2> QED BY <2>2, <2>4, ExecQuiet
<1>4. CASE \E p \in Procs, t \in Calls : HandlerThrows(p, t) \/ HandlerReturns(p, t)
  <2>1. PICK p \in Procs, t \in Calls : HandlerThrows(p, t) \/ HandlerReturns(p, t) BY <1>4
  <2>a. call[p][t].pc = "handling" BY <2>1 DEF HandlerThrows, HandlerReturns
  <2>2. call[p][t] # Idle BY <2>a DEF Idle
  <2>3. call' = [call EXCEPT ![p][t] = Idle] \/ Down(p) BY <2>1 DEF HandlerThrows, HandlerReturns
  <2>4. \A q \in Procs, u \in Calls : call'[q][u] = Idle
    <3>1. CASE call' = [call EXCEPT ![p][t] = Idle] BY <3>1, <2>2, SerialIdle DEF TypeOK
    <3>2. CASE Down(p) BY <3>2, <2>2, SerialIdle DEF TypeOK, Down
    <3> QED BY <2>3, <3>1, <3>2
  <2>5. attempts' = attempts BY <2>1 DEF HandlerThrows, HandlerReturns
  <2>6. ASSUME NEW x \in Effects, effect'[x] \in {"none", "pending"} PROVE effect[x] \in {"none", "pending"}
    <3>1. CASE HandlerThrows(p, t) BY <2>6, <3>1 DEF HandlerThrows
    <3>2. CASE HandlerReturns(p, t)
      <4>1. PICK ts \in TaskStates, kinds \in SUBSET Kinds, a \in BOOLEAN : Commit(call[p][t], ts, kinds, a)
        BY <3>2 DEF HandlerReturns
      <4>2. record[call[p][t].input] = "none" BY <3>2 DEF SerialInv, HandlerReturns
      <4>3. effect[x] = effect'[x] \/ x \in {call[p][t].input} \X kinds
        BY <4>1, <2>6 DEF Commit
      <4>4. CASE x \in {call[p][t].input} \X kinds
        <5>1. x[1] = call[p][t].input BY <4>4
        <5> QED BY <5>1, <4>2 DEF JournalMatches
      <4> QED BY <4>3, <4>4, <2>6
    <3> QED BY <2>1, <3>1, <3>2
  <2> QED BY <2>4, <2>5, <2>6, ExecQuiet DEF Idle
<1>5. CASE \E p \in Procs, t \in Calls : ExecutePending(p, t)
  <2>1. PICK p \in Procs, t \in Calls : ExecutePending(p, t) BY <1>5
  <2>2. PICK x \in Pending : /\ Mark(p, x, "executing") /\ Begin(p, t, x, Pending)
                             /\ attempts' = [attempts EXCEPT ![x] = @ + 1]
    BY <2>1 DEF ExecutePending
  <2>3. \A q \in Procs, u \in Calls : call[q][u] = Idle BY <2>1, SerialBegin DEF ExecutePending
  <2>4. Pending \in SUBSET Effects /\ \A y \in Pending : effect[y] = "pending" BY DEF Pending
  <2>5. \A y \in Effects : effect'[y] = IF y = x THEN "executing" ELSE effect[y]
    BY <2>2 DEF Mark, TypeOK
  <2> HIDE DEF Pending
  <2> QED BY <2>2, <2>3, <2>4, <2>5, ExecBegins
<1>6. CASE \E p \in Procs, t \in Calls : Executed(p, t, "applied") \/ Executed(p, t, "failed")
  <2>1. PICK p \in Procs, t \in Calls, s \in {"applied", "failed"} : Executed(p, t, s) BY <1>6
  <2> DEFINE c == call[p][t]
  <2>2. c.pc = "executing" /\ c # Idle /\ c.todo \in SUBSET Effects /\ c.now \in Effects
    BY <2>1, CallTypes DEF Executed, Idle, Executing
  <2>3. c.now \notin c.todo /\ \A y \in c.todo : effect[y] = "pending" BY <2>2 DEF ExecInv
  <2>4. \A q \in Procs, u \in Calls : call[q][u] = Idle \/ (q = p /\ u = t) BY <2>2, SerialIdle
  <2>5. CASE c.todo = {}
    <3>1. /\ \A y \in Effects : effect'[y] = IF y = c.now THEN s ELSE effect[y]
          /\ call' = [call EXCEPT ![p][t] = Idle] /\ attempts' = attempts
      BY <2>1, <2>5 DEF Executed, Mark, TypeOK
    <3>2. \A q \in Procs, u \in Calls : call'[q][u] = Idle BY <3>1, <2>4 DEF TypeOK
    <3> QED BY <3>1, <3>2, ExecQuiet DEF Idle
  <2>6. CASE c.todo # {}
    <3>1. PICK x \in call[p][t].todo :
            /\ effect' = [effect EXCEPT ![call[p][t].now] = s, ![x] = "executing"]
            /\ by' = [by EXCEPT ![call[p][t].now] = 0, ![x] = instance[p]]
            /\ Begin(p, t, x, call[p][t].todo)
            /\ attempts' = [attempts EXCEPT ![x] = @ + 1]
      BY <2>1, <2>6 DEF Executed
    <3>2. \A y \in Effects : effect'[y] = IF y = x THEN "executing" ELSE IF y = c.now THEN s ELSE effect[y]
      BY <3>1, <2>2, <2>3 DEF TypeOK
    <3> DEFINE todo == call[p][t].todo
    <3>3. x \in todo /\ todo \in SUBSET Effects /\ x \in Effects /\ \A y \in todo : effect[y] = "pending"
      BY <2>2, <2>3
    <3>4. Begin(p, t, x, todo) /\ attempts' = [attempts EXCEPT ![x] = @ + 1] BY <3>1
    <3>5. effect'[x] = "executing" /\ \A y \in todo \ {x} : effect'[y] = "pending"
      BY <3>2, <3>3, <2>3
    <3>6. \A y \in Effects : effect'[y] \in {"none", "pending"} => effect[y] \in {"none", "pending"}
      BY <3>2
    <3> HIDE DEF todo
    <3> QED BY <3>3, <3>4, <3>5, <3>6, <2>4, ExecBegins
  <2> QED BY <2>5, <2>6
<1> QED BY <1>1, <1>2, <1>3, <1>4, <1>5, <1>6 DEF Next, CallStep

\* The serial invariants hold for as long as no calls have overlapped.
THEOREM Serial == Spec => [](~overlapped => SerialInv /\ ExecInv)
<1>1. Init => (~overlapped => SerialInv /\ ExecInv) BY SerialInit, ExecInit
<1>2. SafeInv /\ (~overlapped => SerialInv /\ ExecInv) /\ [Next]_vars => (~overlapped => SerialInv /\ ExecInv)'
  BY SerialNext, ExecNext, OverlapKept DEF SafeInv
<1> QED BY <1>1, <1>2, Safety, PTL DEF Spec

\* As long as no calls have overlapped no reduction is lost.
THEOREM SerialKeeps == Spec => []ReductionsKept
<1>1. (~overlapped => SerialInv /\ ExecInv) => ReductionsKept BY DEF SerialInv, AllKept, ReductionsKept
<1> QED BY <1>1, Serial, PTL

\* As long as no calls have overlapped no effect is executed twice.
THEOREM SerialOnce == Spec => []ExecutedOnce
<1>1. (~overlapped => SerialInv /\ ExecInv) => ExecutedOnce BY DEF ExecInv, ExecutedOnce
<1> QED BY <1>1, Serial, PTL

\* As long as no calls have overlapped a terminal task state is absorbing.
THEOREM SerialAbsorbs == Spec => SerialAbsorbing
<1>1. SafeInv /\ (~overlapped => SerialInv /\ ExecInv) /\ [Next]_vars =>
        [~overlapped' => \A c \in Contexts : task[c] \in Terminal => task'[c] = task[c]]_vars
  BY SerialNext, OverlapKept DEF SafeInv
<1> QED BY <1>1, Safety, Serial, PTL DEF Spec, SerialAbsorbing

-----------------------------------------------------------------------------
(***************************************************************************)
(* One process at a time: no call lists an effect whose outcome is unknown *)
(* any more, because only a runtime that starts makes one unknown, and all *)
(* calls of the runtimes before it ended with their process.               *)
(***************************************************************************)
Unknown(x) == effect[x] = "needs-reconciliation"

AloneInv ==
    /\ \A p, q \in Procs : instance[p] # 0 /\ instance[q] # 0 => p = q
    /\ \A p \in Procs, t \in Calls : instance[p] = 0 => call[p][t] = Idle
    /\ \A p \in Procs, t \in Calls : call[p][t].pc = "executing" =>
            \A x \in call[p][t].todo : ~Unknown(x)

\* Nobody is up before the first runtime starts.
LEMMA AloneInit == Init => AloneInv
BY DEF Init, AloneInv, Idle

\* Once two processes have been up at once, that stays on record.
LEMMA SharedKept ==
    ASSUME TypeOK, [Next]_vars, ~shared'
    PROVE  ~shared
<1>1. CASE UNCHANGED vars BY <1>1 DEF vars
<1>2. CASE \E p \in Procs : StartRuntime(p) BY <1>2 DEF StartRuntime
<1>3. CASE \E p \in Procs : Crash(p) BY <1>3 DEF Crash
<1>4. CASE \E p \in Procs, t \in Calls, e \in Events : Process(p, t, e) \/ Resume(p, t, e)
  BY <1>4 DEF Process, Resume
<1>5. CASE \E p \in Procs, t \in Calls : CallStep(p, t) \/ ExecutePending(p, t)
  BY <1>5 DEF CallStep, HandlerReturns, HandlerThrows, Executed, ExecutePending
<1> QED BY <1>1, <1>2, <1>3, <1>4, <1>5 DEF Next

\* An effect becomes unknown only when a runtime starts, and with one process at a time nobody
\* is up then; an effect is begun only from a list.
LEMMA AloneNext ==
    ASSUME SafeInv, AloneInv, ~shared', [Next]_vars
    PROVE  /\ AloneInv'
           /\ \A x \in Effects : Unknown(x) => attempts'[x] = attempts[x]
<1> USE DEF Unknown
<1>a. TypeOK BY DEF SafeInv
<1>b. \A p \in Procs, t \in Calls : call[p][t].pc = "executing" => call[p][t].todo \in SUBSET Effects
  BY <1>a, CallTypes DEF Executing
\* A step that starts no runtime, makes no effect unknown and lists none that is.
<1>q. ASSUME \A p \in Procs : instance'[p] = instance[p] \/ instance'[p] = 0,
             \A p \in Procs, t \in Calls : call'[p][t] = Idle \/ instance'[p] # 0,
             \A x \in Effects : effect'[x] = "needs-reconciliation" => Unknown(x),
             \A p \in Procs, t \in Calls : \/ call'[p][t] = call[p][t]
                                          \/ call'[p][t].pc # "executing"
                                          \/ \A x \in call'[p][t].todo : x \in Effects /\ ~Unknown(x)
      PROVE  AloneInv'
  <2>1. \A p, q \in Procs : instance'[p] # 0 /\ instance'[q] # 0 => p = q BY <1>q DEF AloneInv
  <2>2. \A p \in Procs, t \in Calls : call'[p][t].pc = "executing" =>
            \A x \in call'[p][t].todo : effect'[x] # "needs-reconciliation"
    BY <1>q, <1>b DEF AloneInv
  <2> QED BY <2>1, <2>2, <1>q DEF AloneInv
<1>1. CASE UNCHANGED vars BY <1>1 DEF vars, AloneInv
<1>2. CASE \E p \in Procs : StartRuntime(p)
  <2>1. PICK p \in Procs : StartRuntime(p) BY <1>2
  <2>2. \A q \in Procs : instance[q] = 0 BY <2>1 DEF StartRuntime
  <2>3. \A q \in Procs, t \in Calls : call'[q][t] = Idle BY <2>1, <2>2 DEF StartRuntime, AloneInv
  <2>4. \A q \in Procs : instance'[q] # 0 => q = p BY <2>1, <2>2, <1>a DEF StartRuntime, TypeOK
  <2>5. attempts' = attempts BY <2>1 DEF StartRuntime
  <2> QED BY <2>3, <2>4, <2>5 DEF AloneInv, Idle
<1>3. CASE \E p \in Procs : Crash(p)
  <2>1. PICK p \in Procs : Crash(p) BY <1>3
  <2>2. /\ attempts' = attempts /\ effect' = effect
        /\ \A q \in Procs : instance'[q] = IF q = p THEN 0 ELSE instance[q]
        /\ \A q \in Procs, t \in Calls : call'[q][t] = IF q = p THEN Idle ELSE call[q][t]
    BY <2>1, <1>a DEF Crash, Down, storeVars, TypeOK
  <2> QED BY <2>2, <1>q DEF AloneInv, Idle
<1>4. CASE \E p \in Procs, t \in Calls, e \in Events : Process(p, t, e) \/ Resume(p, t, e)
  <2>1. PICK p \in Procs, t \in Calls, e \in Events : Process(p, t, e) \/ Resume(p, t, e) BY <1>4
  <2>2. /\ attempts' = attempts /\ effect' = effect /\ instance' = instance
        /\ instance[p] # 0 /\ (call' = call \/ \E i \in Inputs : Await(p, t, i))
    BY <2>1 DEF Process, Resume, storeVars, MayBegin, Received, OutcomeOf, Inputs
  <2>3. \A q \in Procs, u \in Calls :
            call'[q][u] = call[q][u] \/ (q = p /\ call'[q][u].pc = "handling")
    BY <2>2, <1>a DEF Await, TypeOK
  <2>4. \A q \in Procs, u \in Calls : call'[q][u] = Idle \/ instance'[q] # 0
    BY <2>2, <2>3 DEF AloneInv
  <2> QED BY <2>2, <2>3, <2>4, <1>q
<1>5. CASE \E p \in Procs, t \in Calls : HandlerThrows(p, t) \/ HandlerReturns(p, t)
  <2>1. PICK p \in Procs, t \in Calls : HandlerThrows(p, t) \/ HandlerReturns(p, t) BY <1>5
  <2>2. attempts' = attempts BY <2>1 DEF HandlerThrows, HandlerReturns
  <2>3. (call' = [call EXCEPT ![p][t] = Idle] /\ instance' = instance) \/ Down(p)
    BY <2>1 DEF HandlerThrows, HandlerReturns
  <2>4. /\ \A q \in Procs : instance'[q] = instance[q] \/ instance'[q] = 0
        /\ \A q \in Procs, u \in Calls : call'[q][u] = call[q][u] \/ call'[q][u] = Idle
        /\ \A q \in Procs, u \in Calls : call'[q][u] = Idle \/ instance'[q] = instance[q]
    BY <2>3, <1>a DEF Down, TypeOK
  <2>5. \A q \in Procs, u \in Calls : call'[q][u] = Idle \/ instance'[q] # 0
    BY <2>4 DEF AloneInv
  <2>6. \A x \in Effects : effect'[x] = "needs-reconciliation" => Unknown(x)
    <3>1. CASE HandlerThrows(p, t) BY <3>1 DEF HandlerThrows
    <3>2. CASE HandlerReturns(p, t)
      <4>1. PICK ts \in TaskStates, kinds \in SUBSET Kinds, a \in BOOLEAN : Commit(call[p][t], ts, kinds, a)
        BY <3>2 DEF HandlerReturns
      <4> QED BY <4>1 DEF Commit
    <3> QED BY <2>1, <3>1, <3>2
  <2> QED BY <2>2, <2>4, <2>5, <2>6, <1>q DEF Idle
<1>6. CASE \E p \in Procs, t \in Calls : ExecutePending(p, t)
  <2>1. PICK p \in Procs, t \in Calls : ExecutePending(p, t) BY <1>6
  <2>2. PICK x \in Pending : /\ Mark(p, x, "executing") /\ Begin(p, t, x, Pending)
                             /\ attempts' = [attempts EXCEPT ![x] = @ + 1]
    BY <2>1 DEF ExecutePending
  <2>3. instance' = instance /\ instance[p] # 0 BY <2>1 DEF ExecutePending, MayBegin
  <2>4. x \in Effects /\ \A y \in Pending : y \in Effects /\ ~Unknown(y) BY DEF Pending
  <2>5. \A y \in Effects : effect'[y] = "needs-reconciliation" => Unknown(y) BY <2>2, <1>a DEF Mark, TypeOK
  <2>6. \A q \in Procs, u \in Calls :
            \/ call'[q][u] = call[q][u]
            \/ q = p /\ \A y \in call'[q][u].todo : y \in Effects /\ ~Unknown(y)
    <3> HIDE DEF Pending, Unknown
    <3> QED BY <2>2, <2>4, <1>a DEF Begin, TypeOK
  <2>7. \A q \in Procs, u \in Calls : call'[q][u] = Idle \/ instance'[q] # 0
    BY <2>3, <2>6 DEF AloneInv
  <2>8. \A y \in Effects : Unknown(y) => attempts'[y] = attempts[y] BY <2>2, <2>4, <1>a DEF TypeOK
  <2> QED BY <2>3, <2>5, <2>6, <2>7, <2>8, <1>q
<1>7. CASE \E p \in Procs, t \in Calls : Executed(p, t, "applied") \/ Executed(p, t, "failed")
  <2>1. PICK p \in Procs, t \in Calls, s \in {"applied", "failed"} : Executed(p, t, s) BY <1>7
  <2>2. call[p][t].pc = "executing" BY <2>1 DEF Executed
  <2>3. call[p][t].todo \in SUBSET Effects /\ call[p][t].now \in Effects /\ call[p][t] # Idle
    BY <2>2, <1>a, CallTypes DEF Executing, Idle
  <2>4. instance' = instance /\ instance[p] # 0 BY <2>1, <2>3 DEF Executed, AloneInv
  <2>5. CASE call[p][t].todo = {}
    <3>1. /\ \A y \in Effects : effect'[y] = "needs-reconciliation" => Unknown(y)
          /\ call' = [call EXCEPT ![p][t] = Idle] /\ attempts' = attempts
      BY <2>1, <2>5, <1>a DEF Executed, Mark, TypeOK
    <3>2. \A q \in Procs, u \in Calls : call'[q][u] = call[q][u] \/ call'[q][u] = Idle BY <3>1, <1>a DEF TypeOK
    <3>3. \A q \in Procs, u \in Calls : call'[q][u] = Idle \/ instance'[q] # 0
      BY <2>4, <3>2 DEF AloneInv
    <3> QED BY <3>1, <3>2, <3>3, <2>4, <1>q DEF Idle
  <2>6. CASE call[p][t].todo # {}
    <3>1. PICK x \in call[p][t].todo :
            /\ effect' = [effect EXCEPT ![call[p][t].now] = s, ![x] = "executing"]
            /\ Begin(p, t, x, call[p][t].todo)
            /\ attempts' = [attempts EXCEPT ![x] = @ + 1]
      BY <2>1, <2>6 DEF Executed
    <3>2. x \in Effects /\ \A y \in call[p][t].todo : y \in Effects /\ ~Unknown(y)
      BY <2>2, <2>3 DEF AloneInv
    <3>3. \A y \in Effects : effect'[y] = "needs-reconciliation" => Unknown(y)
      BY <3>1, <1>a DEF TypeOK
    <3>4. \A q \in Procs, u \in Calls :
            \/ call'[q][u] = call[q][u]
            \/ q = p /\ \A y \in call'[q][u].todo : y \in Effects /\ ~Unknown(y)
      <4> HIDE DEF Unknown
      <4> QED BY <3>1, <3>2, <1>a DEF Begin, TypeOK
    <3>5. \A q \in Procs, u \in Calls : call'[q][u] = Idle \/ instance'[q] # 0
      BY <2>4, <3>4 DEF AloneInv
    <3>6. \A y \in Effects : Unknown(y) => attempts'[y] = attempts[y] BY <3>1, <3>2, <1>a DEF TypeOK
    <3> QED BY <3>3, <3>4, <3>5, <3>6, <2>4, <1>q
  <2> QED BY <2>5, <2>6
<1> QED BY <1>1, <1>2, <1>3, <1>4, <1>5, <1>6, <1>7 DEF Next, CallStep

\* As long as one process at a time has a runtime, AloneInv holds.
THEOREM Alone == Spec => [](~shared => AloneInv)
<1>1. Init => (~shared => AloneInv) BY AloneInit
<1>2. SafeInv /\ (~shared => AloneInv) /\ [Next]_vars => (~shared => AloneInv)'
  BY AloneNext, SharedKept DEF SafeInv
<1> QED BY <1>1, <1>2, Safety, PTL DEF Spec

\* As long as one process at a time has a runtime, no effect whose outcome is unknown is
\* executed again, whatever calls overlap within the process.
THEOREM UnknownWaits == Spec => NoBlindRetry
<1>1. SafeInv /\ (~shared => AloneInv) /\ [Next]_vars =>
        [~shared' => \A x \in Effects : effect[x] = "needs-reconciliation" => attempts'[x] = attempts[x]]_vars
  BY AloneNext, SharedKept DEF SafeInv, Unknown
<1> QED BY <1>1, Safety, Alone, PTL DEF Spec, NoBlindRetry
=============================================================================
