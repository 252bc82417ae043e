---------------------------- MODULE RuntimeHost ----------------------------
(***************************************************************************)
(* The runtimes of one installation: FileRuntimeRegistry and               *)
(* RuntimeSupervisor (runtime-supervisor/src/index.ts) as the daemon and   *)
(* the command line use them (agent-comm/src/runtime/daemon.ts), together  *)
(* with the application catalog a runtime loads its consumers from.        *)
(*                                                                         *)
(* runtimes.json is shared by every daemon and every command.  Each change *)
(* reads the whole file, edits it and writes it back, without a lock: two  *)
(* steps, so that another process can write in between.                    *)
(***************************************************************************)
EXTENDS ApplicationCatalog

CONSTANTS
    Ids,        \* runtime ids
    Carries,    \* Carries[i]: the channels of the registration
    Harness,    \* Harness[i]: the harness it asks for, or "auto"
    Commands,   \* the harness commands that are installed on this machine
    Boots       \* daemon processes, each started once

ASSUME HostAssumption ==
    /\ Carries \in [Ids -> SUBSET Channels] /\ Boots \cap Clis = {}
    /\ "none" \notin Ids /\ "nobody" \notin Boots
    /\ Harness \in [Ids -> {"auto", "codex-exec", "codex-app-server", "claude-code"}]
    /\ Commands \subseteq {"codex", "claude"}

VARIABLES
    file,   \* runtimes.json: registrations and statuses
    edit,   \* the change each process has read the file for
    daemon, \* what each daemon process does
    active, \* RuntimeSupervisor.#active: what each runtime of a daemon has loaded
    raced,  \* history: a process wrote the file while another one was about to
    doubled \* history: two daemons ran at once

hostVars == <<file, edit, daemon, active, raced, doubled>>
vars == <<catalogVars, hostVars>>

Procs == Boots \cup Clis
Nobody == "nobody"
None == "none"
States == {"starting", "online", "offline", "failed"}
Row == [state : States, by : Boots \cup {Nobody}]
NoRow == [state |-> "none", by |-> Nobody]
File == [registered : SUBSET Ids, trusted : SUBSET Ids, row : [Ids -> Row \cup {NoRow}]]
Change ==
    [kind : {"register"}, id : Ids, trusted : BOOLEAN] \cup [kind : {"remove"}, id : Ids]
        \cup [kind : {"status"}, id : Ids, row : Row]
NoEdit == [kind |-> "none"]
Consumers == SUBSET (Bindings \X Versions)

HostTypeOK ==
    /\ file \in File
    /\ edit \in [Procs -> {NoEdit} \cup [kind : {"edit"}, seen : File, change : Change]]
    /\ daemon \in [Boots -> [pc : {"new", "starting", "running", "stopping", "gone"},
                             todo : SUBSET Ids, now : Ids \cup {None}]]
    /\ active \in [Boots -> UNION {[S -> Consumers] : S \in SUBSET Ids}]
    /\ raced \in BOOLEAN /\ doubled \in BOOLEAN

Init ==
    /\ CatalogInit
    /\ file = [registered |-> {}, trusted |-> {}, row |-> [i \in Ids |-> NoRow]]
    /\ edit = [p \in Procs |-> NoEdit]
    /\ daemon = [b \in Boots |-> [pc |-> "new", todo |-> {}, now |-> None]]
    /\ active = [b \in Boots |-> << >>]
    /\ raced = FALSE /\ doubled = FALSE

-----------------------------------------------------------------------------
\* register, updateStatus and remove on what was read.
\* Mutant of Edited: a status update forgets the registration, as remove does.
EditedForgets(f, d) ==
    CASE d.kind = "register" ->
            [f EXCEPT !.registered = @ \cup {d.id}, !.trusted = IF d.trusted THEN @ \cup {d.id} ELSE @ \ {d.id}]
      [] d.kind = "remove" ->
            [f EXCEPT !.registered = @ \ {d.id}, !.trusted = @ \ {d.id}, !.row[d.id] = NoRow]
      [] OTHER -> [f EXCEPT !.registered = @ \ {d.id}, !.row[d.id] = d.row]

Edited(f, d) ==
    CASE d.kind = "register" ->
            [f EXCEPT !.registered = @ \cup {d.id}, !.trusted = IF d.trusted THEN @ \cup {d.id} ELSE @ \ {d.id}]
      [] d.kind = "remove" ->
            [f EXCEPT !.registered = @ \ {d.id}, !.trusted = @ \ {d.id}, !.row[d.id] = NoRow]
      [] OTHER -> [f EXCEPT !.row[d.id] = d.row]

Read(p, d) ==
    /\ edit[p] = NoEdit
    /\ edit' = [edit EXCEPT ![p] = [kind |-> "edit", seen |-> file, change |-> d]]

Write(p) ==
    /\ edit[p] # NoEdit
    /\ file' = Edited(edit[p].seen, edit[p].change)
    /\ edit' = [edit EXCEPT ![p] = NoEdit]
    /\ raced' = (raced \/ \E q \in Procs \ {p} : edit[q] # NoEdit)
    /\ UNCHANGED <<catalogVars, daemon, active, doubled>>

Status(p, i, state, by) == Read(p, [kind |-> "status", id |-> i, row |-> [state |-> state, by |-> by]])

-----------------------------------------------------------------------------
\* The command line: runtime add and runtime remove.
RuntimeAdd(x, i, trusted) ==
    /\ commands < MaxCommands /\ commands' = commands + 1
    /\ Read(x, [kind |-> "register", id |-> i, trusted |-> trusted])
    /\ UNCHANGED <<entry, package, command, chosen, crossed, torn, file, daemon, active, raced, doubled>>

RuntimeRemove(x, i) ==
    /\ i \in file.registered
    /\ commands < MaxCommands /\ commands' = commands + 1
    /\ Read(x, [kind |-> "remove", id |-> i])
    /\ UNCHANGED <<entry, package, command, chosen, crossed, torn, file, daemon, active, raced, doubled>>

\* runRuntimeDaemon: startAll over the trusted registrations, one after the other.
Alive(b) == daemon[b].pc \in {"starting", "running", "stopping"}

Boot(b) ==
    /\ daemon[b].pc = "new" /\ file.trusted # {}
    /\ daemon' = [daemon EXCEPT ![b] = [pc |-> "starting", todo |-> file.trusted, now |-> None]]
    /\ doubled' = (doubled \/ \E a \in Boots : Alive(a))
    /\ UNCHANGED <<catalogVars, file, edit, active, raced>>

StartNext(b) ==
    /\ daemon[b].pc = "starting" /\ daemon[b].now = None
    /\ \E i \in daemon[b].todo :
        /\ daemon' = [daemon EXCEPT ![b].now = i, ![b].todo = @ \ {i}]
        /\ Status(b, i, "starting", b)
    /\ UNCHANGED <<catalogVars, file, active, raced, doubled>>

\* createDefaultRuntimeAdapterRegistry, and the factories resolve finds: those of the harness
\* asked for whose command is there.
Factories == {[harness |-> "codex-exec", command |-> "codex"], [harness |-> "codex-app-server", command |-> "codex"],
              [harness |-> "claude-code", command |-> "claude"],
              [harness |-> "auto", command |-> "codex"], [harness |-> "auto", command |-> "claude"]}

Detected(i) == {k \in Factories : (Harness[i] = "auto" \/ k.harness = Harness[i]) /\ k.command \in Commands}

\* The adapter was found and the runtime launched with the consumers of its channels.
LaunchDone(b) ==
    LET i == daemon[b].now
    IN  /\ daemon[b].pc = "starting" /\ i # None
        /\ Detected(i) # {}
        /\ \A k \in Loaded(entry, Carries[i]) : CanLoad(k[2])
        /\ active' = [active EXCEPT ![b] = [k \in DOMAIN @ \cup {i} |->
                                              IF k = i THEN Loaded(entry, Carries[i]) ELSE @[k]]]
        /\ daemon' = [daemon EXCEPT ![b].now = None]
        /\ Status(b, i, "online", b)
        /\ UNCHANGED <<catalogVars, file, raced, doubled>>

\* No adapter, a package that is gone, a home that cannot be reached: the next one is tried.
LaunchFails(b) ==
    LET i == daemon[b].now
    IN  /\ daemon[b].pc = "starting" /\ i # None
        /\ daemon' = [daemon EXCEPT ![b].now = None]
        /\ Status(b, i, "failed", b)
        /\ UNCHANGED <<catalogVars, file, active, raced, doubled>>

Started(b) ==
    /\ daemon[b].pc = "starting" /\ daemon[b].now = None /\ daemon[b].todo = {} /\ edit[b] = NoEdit
    /\ daemon' = [daemon EXCEPT ![b].pc = "running"]
    /\ UNCHANGED <<catalogVars, file, edit, active, raced, doubled>>

\* heartbeat: every active runtime is written online again.
\* Mutant of Beating: every registered one.
BeatingAll(b) == file.registered

Beating(b) == DOMAIN active[b]

Heartbeat(b) ==
    /\ daemon[b].pc = "running"
    /\ \E i \in Beating(b) : Status(b, i, "online", b)
    /\ UNCHANGED <<catalogVars, file, daemon, active, raced, doubled>>

\* SIGTERM: the heartbeat is cleared, then stopAll closes one runtime after the other.
Stop(b) ==
    /\ daemon[b].pc = "running" /\ edit[b] = NoEdit
    /\ daemon' = [daemon EXCEPT ![b].pc = "stopping"]
    /\ UNCHANGED <<catalogVars, file, edit, active, raced, doubled>>

CloseNext(b) ==
    /\ daemon[b].pc = "stopping"
    /\ \E i \in DOMAIN active[b] :
        /\ active' = [active EXCEPT ![b] = [k \in DOMAIN @ \ {i} |-> @[k]]]
        /\ Status(b, i, "offline", Nobody)
    /\ UNCHANGED <<catalogVars, file, daemon, raced, doubled>>

Gone(b) ==
    /\ daemon' = [daemon EXCEPT ![b] = [pc |-> "gone", todo |-> {}, now |-> None]]
    /\ active' = [active EXCEPT ![b] = << >>]
    /\ edit' = [edit EXCEPT ![b] = NoEdit]
    /\ UNCHANGED <<catalogVars, file, raced, doubled>>

Stopped(b) == daemon[b].pc = "stopping" /\ active[b] = << >> /\ edit[b] = NoEdit /\ Gone(b)

\* Killed, or a SIGTERM before the handlers were there.
Crash(b) == Alive(b) /\ Gone(b)

\* daemon stop: the daemons the statuses name are signalled.  One that is still starting has no
\* handler yet and dies of it.
Stoppable == {file.row[i].by : i \in Ids} \ {Nobody}

DaemonStop(b) == b \in Stoppable /\ (Stop(b) \/ (daemon[b].pc = "starting" /\ Gone(b)))

DaemonStep(b) ==
    \/ Write(b) \/ Boot(b) \/ StartNext(b) \/ LaunchDone(b) \/ LaunchFails(b) \/ Started(b)
    \/ Heartbeat(b) \/ Stop(b) \/ CloseNext(b) \/ Stopped(b) \/ Crash(b) \/ DaemonStop(b)

Next ==
    \/ CatalogNext /\ UNCHANGED hostVars
    \/ \E b \in Boots : DaemonStep(b)
    \/ \E x \in Clis : Write(x) \/ \E i \in Ids : RuntimeRemove(x, i) \/ \E t \in BOOLEAN : RuntimeAdd(x, i, t)

Spec == Init /\ [][Next]_vars
-----------------------------------------------------------------------------
(***************************************************************************)
(* Properties.                                                             *)
(***************************************************************************)

\* Unless two processes wrote the file at once, only remove takes a registration out of it:
\* heartbeats and starts leave what the command line registered.
RegistrationKept ==
    [][~raced' => \A i \in file.registered :
        \/ i \in file'.registered
        \/ \E p \in Procs : edit[p] # NoEdit /\ edit[p].change = [kind |-> "remove", id |-> i]]_file

\* Unless two processes wrote the file at once or two daemons ran, the status of a runtime is
\* the truth about it: what is shown online by a daemon that runs is running, and what is shown
\* offline or failed runs nowhere.
StatusTruthful ==
    ~raced /\ ~doubled => \A b \in Boots, i \in Ids :
        daemon[b].pc = "running" =>
            /\ file.row[i] = [state |-> "online", by |-> b] => i \in DOMAIN active[b]
            /\ file.row[i].state \in {"offline", "failed"} => i \notin DOMAIN active[b]
=============================================================================
