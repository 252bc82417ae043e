------------------------- MODULE ApplicationCatalog -------------------------
(***************************************************************************)
(* FileApplicationCatalog (application-catalog/src/index.ts): the versions *)
(* of one application that are installed, and the channels each is enabled *)
(* for.                                                                    *)
(*                                                                         *)
(* Commands run in processes of their own.  A read, change and rewrite of  *)
(* catalog.json without an await in between is one step; install and       *)
(* update await the network and then replace a package directory, remove   *)
(* deletes one before it rewrites the file, and a process can die or       *)
(* another one interfere at each of these points.                          *)
(***************************************************************************)
EXTENDS Integers, FiniteSets

CONSTANTS
    Versions,    \* versions of the application, ordered as compareApplicationVersions orders them
    Channels,
    AnyChannel,  \* the binding to every channel, '*'
    Clis,        \* command line processes
    MaxCommands, \* bound on the commands given
    NoEntry

\* What a version can be bound to.
Bindings == Channels \cup {AnyChannel}
Entry == [enabled : SUBSET Bindings, at : 0..MaxCommands]

ASSUME CatalogAssumption ==
    /\ Versions \subseteq Nat /\ MaxCommands \in Nat
    /\ AnyChannel \notin Channels
    /\ NoEntry \notin Entry

VARIABLES
    entry,    \* catalog.json: the record of each installed version
    package,  \* versions whose package directory is complete
    command,  \* what each command line process is doing
    commands, \* how many commands were given; installedAt counts them
    chosen,   \* history: bindings an operator enabled, and neither disabled nor removed since
    crossed,  \* history: a command began while another one was in flight
    torn      \* history: a command died with a package directory gone

catalogVars == <<entry, package, command, commands, chosen, crossed, torn>>

Catalog == [Versions -> Entry \cup {NoEntry}]
Idle == [pc |-> "idle"]
Installing == [pc : {"fetching", "placing", "inheriting"}, version : Versions, update : BOOLEAN, before : Catalog]
Removing == [pc : {"removing"}, versions : SUBSET Versions, before : Catalog]

CatalogTypeOK ==
    /\ entry \in Catalog
    /\ package \subseteq Versions
    /\ command \in [Clis -> {Idle} \cup Installing \cup Removing]
    /\ commands \in 0..MaxCommands
    /\ chosen \subseteq Bindings
    /\ crossed \in BOOLEAN /\ torn \in BOOLEAN

CatalogInit ==
    /\ entry = [v \in Versions |-> NoEntry]
    /\ package = {}
    /\ command = [x \in Clis |-> Idle]
    /\ commands = 0
    /\ chosen = {}
    /\ crossed = FALSE /\ torn = FALSE

-----------------------------------------------------------------------------
Installed(cat) == {v \in Versions : cat[v] # NoEntry}
Latest(vs) == CHOOSE v \in vs : \A w \in vs : w <= v
BoundIn(cat) == UNION {cat[v].enabled : v \in Installed(cat)}

Begins(x) ==
    /\ command[x] = Idle /\ commands < MaxCommands
    /\ commands' = commands + 1
    /\ crossed' = (crossed \/ \E y \in Clis : command[y] # Idle)

\* enable: the latest installed version takes the binding.
Enable(x, c) ==
    /\ Begins(x) /\ Installed(entry) # {}
    /\ entry' = [entry EXCEPT ![Latest(Installed(entry))].enabled = @ \cup {c}]
    /\ chosen' = chosen \cup {c}
    /\ UNCHANGED <<package, command, torn>>

\* disable: every version gives up that very binding.
\* Mutant of Without: only the latest one does.
WithoutLatest(cat, c) ==
    [v \in Versions |->
        IF cat[v] # NoEntry /\ v = Latest(Installed(cat)) THEN [cat[v] EXCEPT !.enabled = @ \ {c}] ELSE cat[v]]

Without(cat, c) ==
    [v \in Versions |-> IF cat[v] = NoEntry THEN NoEntry ELSE [cat[v] EXCEPT !.enabled = @ \ {c}]]

Disable(x, c) ==
    /\ Begins(x)
    /\ entry' = Without(entry, c)
    /\ chosen' = chosen \ {c}
    /\ UNCHANGED <<package, command, torn>>

\* install and update of one package: what update knows of the bindings it reads first.
InstallBegin(x, v, update) ==
    /\ Begins(x)
    /\ command' = [command EXCEPT ![x] = [pc |-> "fetching", version |-> v, update |-> update, before |-> entry]]
    /\ UNCHANGED <<entry, package, chosen, torn>>

\* rmSync of the package directory ...
InstallReplace(x) ==
    /\ command[x].pc = "fetching"
    /\ command' = [command EXCEPT ![x].pc = "placing"]
    /\ package' = package \ {command[x].version}
    /\ UNCHANGED <<entry, commands, chosen, crossed, torn>>

\* ... and, once it is filled again, the record: an installed version keeps its bindings.
\* Mutant of Kept: a version is installed as if it were new.
KeptNone(e) == {}

Kept(e) == IF e = NoEntry THEN {} ELSE e.enabled

InstallRecord(x) ==
    /\ command[x].pc = "placing"
    /\ LET v == command[x].version
       IN  /\ package' = package \cup {v}
           /\ entry' = [entry EXCEPT ![v] = [enabled |-> Kept(entry[v]), at |-> commands]]
           /\ command' = [command EXCEPT ![x] =
                              IF command[x].update /\ Kept(entry[v]) = {} THEN [command[x] EXCEPT !.pc = "inheriting"]
                              ELSE Idle]
    /\ UNCHANGED <<commands, chosen, crossed, torn>>

\* update: the version installed last before this one hands its bindings on.
Predecessor(cat, v) ==
    CHOOSE w \in Installed(cat) \ {v} : \A u \in Installed(cat) \ {v} : cat[u].at <= cat[w].at

UpdateInherit(x) ==
    /\ command[x].pc = "inheriting"
    /\ LET v == command[x].version
           before == command[x].before
       IN  entry' = IF Installed(before) \ {v} = {} \/ entry[v] = NoEntry THEN entry
                    ELSE [entry EXCEPT ![v].enabled = before[Predecessor(before, v)].enabled]
    /\ command' = [command EXCEPT ![x] = Idle]
    /\ UNCHANGED <<package, commands, chosen, crossed, torn>>

\* remove of one version or of all: the directories go first.
RemoveBegin(x, vs) ==
    /\ vs \cap Installed(entry) # {}
    /\ Begins(x)
    /\ command' = [command EXCEPT ![x] = [pc |-> "removing", versions |-> vs, before |-> entry]]
    /\ package' = package \ vs
    /\ UNCHANGED <<entry, chosen, torn>>

RemoveRecord(x) ==
    /\ command[x].pc = "removing"
    /\ entry' = [v \in Versions |-> IF v \in command[x].versions THEN NoEntry ELSE command[x].before[v]]
    /\ chosen' = chosen \cap BoundIn(entry')
    /\ command' = [command EXCEPT ![x] = Idle]
    /\ UNCHANGED <<package, commands, crossed, torn>>

\* What was to be installed cannot be had: not a public https address, another status than 200,
\* too large, too slow, no valid manifest, code from a remote source or code not allowed.
InstallFails(x) ==
    /\ command[x].pc = "fetching"
    /\ command' = [command EXCEPT ![x] = Idle]
    /\ UNCHANGED <<entry, package, commands, chosen, crossed, torn>>

\* A command is interrupted.
CommandDies(x) ==
    /\ command[x] # Idle
    /\ command' = [command EXCEPT ![x] = Idle]
    /\ torn' = (torn \/ command[x].pc \in {"placing", "removing"})
    /\ UNCHANGED <<entry, package, commands, chosen, crossed>>

CatalogNext ==
    \E x \in Clis :
        \/ InstallReplace(x) \/ InstallRecord(x) \/ UpdateInherit(x) \/ RemoveRecord(x)
        \/ InstallFails(x) \/ CommandDies(x)
        \/ \E c \in Bindings : Enable(x, c) \/ Disable(x, c)
        \/ \E v \in Versions, update \in BOOLEAN : InstallBegin(x, v, update)
        \/ \E vs \in {{v} : v \in Versions} \cup {Versions} : RemoveBegin(x, vs)

-----------------------------------------------------------------------------
\* enabledForChannels: the versions bound to one of these channels or to all channels.
Carried(channels) == channels \cup {AnyChannel}
EnabledFor(cat, channels) == {v \in Installed(cat) : cat[v].enabled \cap Carried(channels) # {}}

\* What a runtime that carries these channels loads: of the latest of these versions alone, a
\* consumer for each binding it has itself.
\* Mutant of Loaded: the latest version installed is taken, whatever it is bound to.
LoadedLatest(cat, channels) ==
    IF Installed(cat) = {} THEN {}
    ELSE LET v == Latest(Installed(cat)) IN {<<b, v>> : b \in cat[v].enabled \cap Carried(channels)}

Loaded(cat, channels) ==
    LET vs == EnabledFor(cat, channels)
    IN  IF vs = {} THEN {} ELSE {<<b, Latest(vs)>> : b \in cat[Latest(vs)].enabled \cap Carried(channels)}

\* loadConsumer: the manifest and the entry it names are read from the package directory.
CanLoad(v) == v \in package

-----------------------------------------------------------------------------
(***************************************************************************)
(* Properties.                                                             *)
(***************************************************************************)

\* A version is bound to a channel only because an operator enabled the application there and
\* has not disabled it since: no install, update, rollback or removal activates code by itself,
\* as long as commands did not run at the same time.
BoundByChoice == ~crossed => BoundIn(entry) \subseteq chosen

\* Every version bound to b is older than one bound to something else the runtime carries: only
\* the newer one is loaded, and with its own bindings.
Eclipsed(b, channels) ==
    \E w \in EnabledFor(entry, channels) : \A v \in Installed(entry) : b \in entry[v].enabled => v < w

\* As long as commands did not run at the same time and none died with a package directory
\* gone, a runtime loads what was chosen for it, whatever set of channels it carries: every
\* version it loads has its package, it loads some version when the application was enabled for
\* one of its channels or for all, and each binding chosen gets its consumer unless it is
\* eclipsed by a newer version enabled beside it.
ChosenLoads ==
    ~crossed /\ ~torn /\ (\A x \in Clis : command[x] = Idle) =>
        \A channels \in SUBSET Channels :
            LET loaded == Loaded(entry, channels)
            IN  /\ \A k \in loaded : CanLoad(k[2])
                /\ \A b \in chosen \cap Carried(channels) :
                    loaded # {} /\ (b \in {k[1] : k \in loaded} \/ Eclipsed(b, channels))
=============================================================================
