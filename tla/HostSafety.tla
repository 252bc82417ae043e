----------------------------- MODULE HostSafety -----------------------------
(***************************************************************************)
(* Proofs about the runtime host and what it runs: the application catalog *)
(* (ApplicationCatalog), the daemon and its status file (RuntimeHost), and *)
(* the turns of an app server behind the ingress (HarnessTurns), for every *)
(* number of versions, runtimes, command lines, channels and events.       *)
(***************************************************************************)
EXTENDS RuntimeHost, HarnessTurns, FiniteSetTheorems, WellFoundedInduction, TLAPS

\* A set of numbers that is not empty has a least one.
LEMMA LeastNat ==
    ASSUME NEW T, T \subseteq Nat, T # {}
    PROVE  \E x \in T : \A y \in T : x <= y
<1>1. PICK x \in T : \A y \in T : ~ (<<y, x>> \in OpToRel(<, Nat))
    BY Zenon, NatLessThanWellFounded, WFMin
<1>2. \A y \in T : ~(y < x)
    BY <1>1 DEF OpToRel
<1> QED
    BY <1>2

HasLargest(S) == \E m \in S : \A s \in S : s <= m

\* A finite set of numbers that is not empty has a largest one.
LEMMA FiniteHasLargest ==
    ASSUME NEW S, S \subseteq Nat, IsFiniteSet(S), S # {}
    PROVE  HasLargest(S)
<1> SUFFICES ASSUME ~HasLargest(S) PROVE FALSE
    OBVIOUS
<1> DEFINE Bad == {U \in SUBSET S : U # {} /\ ~HasLargest(U)}
<1> DEFINE Sizes == {Cardinality(U) : U \in Bad}
<1>1. \A U \in SUBSET S : IsFiniteSet(U) /\ Cardinality(U) \in Nat
    BY FS_Subset, FS_CardinalityType
<1>2. Sizes \subseteq Nat /\ Cardinality(S) \in Sizes
    BY <1>1
<1>3. PICK k \in Sizes : \A j \in Sizes : k <= j
    BY <1>2, LeastNat
<1>4. PICK U \in Bad : k = Cardinality(U)
    BY <1>3
<1>5. PICK x \in U : TRUE
    BY <1>4
<1> DEFINE V == U \ {x}
<1>6. Cardinality(V) = Cardinality(U) - 1 /\ IsFiniteSet(U) /\ Cardinality(U) \in Nat
    BY <1>1, <1>4, <1>5, FS_RemoveElement
<1>7. V \in SUBSET S /\ V \notin Bad
    <2>1. V \in SUBSET S
        BY <1>4
    <2>2. ASSUME V \in Bad PROVE FALSE
        <3>1. Cardinality(V) \in Sizes
            BY <2>2
        <3>2. Cardinality(U) <= Cardinality(V)
            BY <3>1, <1>3, <1>4
        <3> QED
            BY <3>2, <1>6
    <2> QED
        BY <2>1, <2>2
<1>8. V # {}
    BY <1>4, <1>5 DEF HasLargest
<1>9. PICK m \in V : \A s \in V : s <= m
    BY <1>7, <1>8 DEF HasLargest
<1>10. HasLargest(U)
    <2>1. m \in Nat /\ x \in Nat /\ m \in U
        BY <1>4, <1>5, <1>9
    <2>2. CASE x <= m
        BY <1>9, <2>1, <2>2 DEF HasLargest
    <2>3. CASE m <= x
        BY <1>4, <1>5, <1>9, <2>1, <2>3 DEF HasLargest
    <2> QED
        BY <2>1, <2>2, <2>3
<1> QED
    BY <1>4, <1>10

\* The version a binding falls on when none is named is an installed one.
LEMMA LatestIsOne ==
    ASSUME NEW S, S \subseteq Versions, IsFiniteSet(S), S # {}
    PROVE  Latest(S) \in S
<1>1. \E v \in S : \A w \in S : w <= v
    BY FiniteHasLargest, CatalogAssumption DEF HasLargest
<1> QED
    BY <1>1 DEF Latest

\* The version an update inherits from is an installed one, and not itself.
LEMMA PredecessorIsOne ==
    ASSUME NEW cat \in Catalog, NEW v, Installed(cat) \ {v} # {}
    PROVE  Predecessor(cat, v) \in Installed(cat) \ {v}
<1> DEFINE others == Installed(cat) \ {v}
<1> DEFINE ages == {MaxCommands - cat[u].at : u \in others}
<1>1. \A u \in others : cat[u].at \in 0..MaxCommands
    BY DEF Installed, Catalog, Entry
<1>2. ages \subseteq Nat /\ ages # {}
    BY <1>1, CatalogAssumption
<1>3. PICK k \in ages : \A j \in ages : k <= j
    BY <1>2, LeastNat
<1>4. PICK w \in others : k = MaxCommands - cat[w].at
    BY <1>3
<1>5. \A u \in others : cat[u].at <= cat[w].at
    <2> SUFFICES ASSUME NEW u \in others PROVE cat[u].at <= cat[w].at
        OBVIOUS
    <2>1. k <= MaxCommands - cat[u].at
        BY <1>3
    <2> QED
        BY <2>1, <1>1, <1>4, CatalogAssumption
<1> QED
    BY <1>5 DEF Predecessor

-----------------------------------------------------------------------------
Alone == \A x, y \in Clis : command[x] # Idle /\ command[y] # Idle => x = y

\* The catalog a command read is the catalog it finds, and what update read of the bindings is
\* what was chosen.
Uncrossed ==
    /\ Alone
    /\ BoundIn(entry) = chosen
    /\ \A x \in Clis : command[x] \in Installing \cup Removing =>
        IF command[x].pc = "inheriting"
        THEN /\ BoundIn(command[x].before) = chosen
             /\ entry[command[x].version] # NoEntry
             /\ entry[command[x].version].enabled = {}
        ELSE command[x].before = entry

\* A version that is installed has its package, but for a version in a command's hands.
Handles(x, v) ==
    \/ command[x] \in Installing /\ command[x].pc = "placing" /\ v = command[x].version
    \/ command[x] \in Removing /\ v \in command[x].versions

Packaged == \A v \in Installed(entry) : v \in package \/ \E x \in Clis : Handles(x, v)

Finite ==
    /\ IsFiniteSet(Installed(entry))
    /\ \A x \in Clis : command[x] \in Installing \cup Removing => IsFiniteSet(Installed(command[x].before))

CatalogInv ==
    /\ CatalogTypeOK
    /\ Finite
    /\ ~crossed => Uncrossed
    /\ ~crossed /\ ~torn => Packaged

-----------------------------------------------------------------------------
\* What the catalog records of an installed version is an entry.
LEMMA RecordsAreEntries ==
    ASSUME NEW cat \in Catalog, NEW v \in Installed(cat)
    PROVE  cat[v] \in Entry /\ v \in Versions
BY DEF Installed, Catalog

\* No entry is taken for an absent one.
LEMMA EntriesAreRecords ==
    ASSUME NEW e \in Entry
    PROVE  e # NoEntry
BY CatalogAssumption DEF Entry

\* A command line in flight installs or removes, and does only one of them.
LEMMA CommandKinds ==
    ASSUME CatalogTypeOK, NEW x \in Clis
    PROVE  /\ command[x] = Idle \/ command[x] \in Installing \cup Removing
           /\ command[x] \in Installing \cup Removing => command[x] # Idle
           /\ command[x] \in Installing => command[x] \notin Removing
BY DEF CatalogTypeOK, Idle, Installing, Removing

\* A command that begins while none is in flight leaves no crossing on record.
LEMMA BeginsAlone ==
    ASSUME CatalogTypeOK, NEW x \in Clis, Begins(x)
    PROVE  /\ commands' \in 0..MaxCommands
           /\ crossed' \in BOOLEAN
           /\ ~crossed' => ~crossed /\ \A y \in Clis : command[y] = Idle
<1>1. commands' \in 0..MaxCommands
    BY CatalogAssumption DEF Begins, CatalogTypeOK
<1>2. crossed' = (crossed \/ \E y \in Clis : command[y] # Idle)
    BY DEF Begins
<1>3. ~crossed' => ~crossed /\ \A y \in Clis : command[y] = Idle
    BY <1>2, Zenon
<1> QED
    BY <1>1, <1>2, <1>3, Zenon

\* What a new record of one version changes.
LEMMA OneRecord ==
    ASSUME NEW cat \in Catalog, NEW v \in Versions, NEW e \in Entry
    PROVE  /\ [cat EXCEPT ![v] = e] \in Catalog
           /\ Installed([cat EXCEPT ![v] = e]) = Installed(cat) \cup {v}
           /\ IsFiniteSet(Installed(cat)) => IsFiniteSet(Installed([cat EXCEPT ![v] = e]))
<1>1. [cat EXCEPT ![v] = e] \in Catalog
    BY DEF Catalog
<1>2. Installed([cat EXCEPT ![v] = e]) = Installed(cat) \cup {v}
    BY EntriesAreRecords DEF Catalog, Installed
<1> QED
    BY <1>1, <1>2, FS_AddElement

\* enable binds the latest installed version to the channel.
LEMMA EnableKeeps ==
    ASSUME CatalogInv, NEW x \in Clis, NEW c \in Bindings, Enable(x, c)
    PROVE  CatalogInv'
<1> DEFINE newest == Latest(Installed(entry))
<1> DEFINE e == [entry[newest] EXCEPT !.enabled = @ \cup {c}]
<1>1. entry \in Catalog /\ IsFiniteSet(Installed(entry))
    BY DEF CatalogInv, CatalogTypeOK, Finite
<1>2. newest \in Installed(entry) /\ newest \in Versions /\ entry[newest] \in Entry
    <2>1. Installed(entry) \subseteq Versions /\ Installed(entry) # {}
        BY DEF Installed, Enable
    <2> QED
        BY <1>1, <2>1, LatestIsOne, RecordsAreEntries
<1>3. e \in Entry /\ e.enabled = entry[newest].enabled \cup {c}
    BY <1>2 DEF Entry
<1>4. entry' = [entry EXCEPT ![newest] = e]
    BY DEF Enable
<1> HIDE DEF newest, e
<1>5. entry' \in Catalog /\ Installed(entry') = Installed(entry) /\ IsFiniteSet(Installed(entry'))
    <2>1. Installed([entry EXCEPT ![newest] = e]) = Installed(entry) \cup {newest}
        BY <1>1, <1>2, <1>3, OneRecord
    <2>2. [entry EXCEPT ![newest] = e] \in Catalog
        BY <1>1, <1>2, <1>3, OneRecord
    <2>3. Installed(entry') = Installed(entry)
        BY <2>1, <1>2, <1>4
    <2> QED
        BY <2>2, <2>3, <1>1, <1>4
<1>6. CatalogTypeOK'
    BY <1>5, BeginsAlone DEF CatalogInv, CatalogTypeOK, Enable
<1>7. Finite'
    BY <1>5 DEF CatalogInv, Finite, Enable
<1>8. BoundIn(entry') = BoundIn(entry) \cup {c}
    <2>1. \A v \in Installed(entry) : entry'[v] = IF v = newest THEN e ELSE entry[v]
        BY <1>1, <1>4 DEF Catalog, Installed
    <2> QED
        BY <2>1, <1>2, <1>3, <1>5 DEF BoundIn
<1>9. ASSUME ~crossed' PROVE Uncrossed' /\ (~torn' => Packaged')
    <2>1. ~crossed /\ \A y \in Clis : command'[y] = Idle
        BY <1>9, BeginsAlone DEF Enable, CatalogInv
    <2>2. \A y \in Clis : command'[y] \notin Installing \cup Removing
        BY <2>1 DEF Idle, Installing, Removing
    <2>3. BoundIn(entry') = chosen'
        BY <1>8, <2>1 DEF CatalogInv, Uncrossed, Enable
    <2>4. ~torn' => Packaged'
        BY <1>5, <2>1 DEF CatalogInv, Packaged, Handles, Enable
    <2> QED
        BY <2>1, <2>2, <2>3, <2>4 DEF Uncrossed, Alone
<1> QED
    BY <1>6, <1>7, <1>9 DEF CatalogInv

\* disable takes the channel from every version.
LEMMA DisableKeeps ==
    ASSUME CatalogInv, NEW x \in Clis, NEW c \in Bindings, Disable(x, c)
    PROVE  CatalogInv'
<1>1. entry \in Catalog /\ IsFiniteSet(Installed(entry)) /\ entry' = Without(entry, c)
    BY DEF CatalogInv, CatalogTypeOK, Finite, Disable
<1>2. \A v \in Versions : entry[v] = NoEntry =>  entry'[v] = NoEntry
    BY <1>1 DEF Without
<1>3. \A v \in Installed(entry) : entry'[v] \in Entry /\ entry'[v].enabled = entry[v].enabled \ {c}
    <2> SUFFICES ASSUME NEW v \in Installed(entry)
                 PROVE  entry'[v] \in Entry /\ entry'[v].enabled = entry[v].enabled \ {c}
        OBVIOUS
    <2>1. entry[v] \in Entry /\ v \in Versions /\ entry[v] # NoEntry
        BY <1>1, RecordsAreEntries DEF Installed
    <2>2. entry'[v] = [entry[v] EXCEPT !.enabled = @ \ {c}]
        BY <1>1, <2>1 DEF Without
    <2> QED
        BY <2>1, <2>2 DEF Entry
<1>4. entry' \in Catalog /\ Installed(entry') = Installed(entry)
    <2>1. Installed(entry') = Installed(entry)
        BY <1>2, <1>3, EntriesAreRecords DEF Installed
    <2>2. entry' = [v \in Versions |-> entry'[v]]
        BY <1>1 DEF Without
    <2>3. \A v \in Versions : entry'[v] \in Entry \cup {NoEntry}
        BY <1>2, <1>3 DEF Installed
    <2> QED
        BY <2>1, <2>2, <2>3 DEF Catalog
<1>5. BoundIn(entry') = BoundIn(entry) \ {c}
    BY <1>3, <1>4 DEF BoundIn
<1>6. CatalogTypeOK'
    BY <1>4, BeginsAlone DEF CatalogInv, CatalogTypeOK, Disable
<1>7. Finite'
    BY <1>1, <1>4 DEF CatalogInv, Finite, Disable
<1>9. ASSUME ~crossed' PROVE Uncrossed' /\ (~torn' => Packaged')
    <2>1. ~crossed /\ \A y \in Clis : command'[y] = Idle
        BY <1>9, BeginsAlone DEF Disable, CatalogInv
    <2>2. \A y \in Clis : command'[y] \notin Installing \cup Removing
        BY <2>1 DEF Idle, Installing, Removing
    <2>3. BoundIn(entry') = chosen'
        BY <1>5, <2>1 DEF CatalogInv, Uncrossed, Disable
    <2>4. ~torn' => Packaged'
        BY <1>4, <2>1 DEF CatalogInv, Packaged, Handles, Disable
    <2> QED
        BY <2>1, <2>2, <2>3, <2>4 DEF Uncrossed, Alone
<1> QED
    BY <1>6, <1>7, <1>9 DEF CatalogInv

\* A command begins and changes no record: it is the only one, or a crossed one.
LEMMA BeginKeeps ==
    ASSUME CatalogInv, NEW x \in Clis, Begins(x), NEW k \in Installing \cup Removing,
           command' = [command EXCEPT ![x] = k], k.before = entry, k.pc \in {"fetching", "removing"},
           UNCHANGED <<entry, chosen, torn>>, package' \subseteq Versions,
           \A v \in package \ package' : k \in Removing /\ v \in k.versions
    PROVE  CatalogInv'
<1>1. CatalogTypeOK'
    <2>1. commands' \in 0..MaxCommands /\ crossed' \in BOOLEAN
        BY BeginsAlone DEF CatalogInv
    <2>2. command' \in [Clis -> {Idle} \cup Installing \cup Removing]
        BY DEF CatalogInv, CatalogTypeOK
    <2> QED
        BY <2>1, <2>2 DEF CatalogInv, CatalogTypeOK
<1>2. command'[x] = k /\ \A y \in Clis \ {x} : command'[y] = command[y]
    BY DEF CatalogInv, CatalogTypeOK
<1>3. Finite'
    BY <1>2 DEF CatalogInv, Finite
<1>4. ASSUME ~crossed' PROVE Uncrossed' /\ (~torn' => Packaged')
    <2>1. ~crossed /\ \A y \in Clis : command[y] = Idle
        BY <1>4, BeginsAlone DEF CatalogInv
    <2>2. \A y \in Clis \ {x} : command'[y] = Idle /\ command'[y] \notin Installing \cup Removing
        BY <2>1, <1>2 DEF Idle, Installing, Removing
    <2>3. BoundIn(entry') = chosen'
        BY <2>1 DEF CatalogInv, Uncrossed
    <2>4. Uncrossed'
        BY <2>2, <2>3, <1>2 DEF Uncrossed, Alone
    <2>5. ASSUME ~torn', NEW v \in Installed(entry')
          PROVE  v \in package' \/ \E y \in Clis : Handles(y, v)'
        <3>1. v \in package
            <4>1. Packaged /\ v \in Installed(entry)
                BY <2>1, <2>5 DEF CatalogInv
            <4>2. \A y \in Clis : ~Handles(y, v)
                BY <2>1 DEF Handles, Idle, Installing, Removing
            <4> QED
                BY <4>1, <4>2 DEF Packaged
        <3>2. v \notin package' => Handles(x, v)'
            BY <3>1, <1>2 DEF Handles
        <3> QED
            BY <3>2
    <2> QED
        BY <2>4, <2>5 DEF Packaged
<1> QED
    BY <1>1, <1>3, <1>4 DEF CatalogInv

\* install and update only remember the catalog they have read.
LEMMA InstallBeginKeeps ==
    ASSUME CatalogInv, NEW x \in Clis, NEW v \in Versions, NEW update \in BOOLEAN, InstallBegin(x, v, update)
    PROVE  CatalogInv'
<1> DEFINE k == [pc |-> "fetching", version |-> v, update |-> update, before |-> entry]
<1>1. k \in Installing /\ package \subseteq Versions /\ k.before = entry /\ k.pc = "fetching"
    BY DEF CatalogInv, CatalogTypeOK, Installing
<1>2. command' = [command EXCEPT ![x] = k] /\ Begins(x) /\ UNCHANGED <<entry, package, chosen, torn>>
    BY DEF InstallBegin
<1> HIDE DEF k
<1> QED
    BY <1>1, <1>2, BeginKeeps

\* remove deletes the packages before the catalog says so.
LEMMA RemoveBeginKeeps ==
    ASSUME CatalogInv, NEW x \in Clis, NEW vs \in SUBSET Versions, RemoveBegin(x, vs)
    PROVE  CatalogInv'
<1> DEFINE k == [pc |-> "removing", versions |-> vs, before |-> entry]
<1>1. k \in Removing /\ package \subseteq Versions /\ k.before = entry /\ k.pc = "removing" /\ k.versions = vs
    BY DEF CatalogInv, CatalogTypeOK, Removing
<1>2. command' = [command EXCEPT ![x] = k] /\ Begins(x) /\ UNCHANGED <<entry, chosen, torn>>
      /\ package' = package \ vs
    BY DEF RemoveBegin
<1> HIDE DEF k
<1> QED
    BY <1>1, <1>2, BeginKeeps

\* A command that fails or dies before it has touched a directory, or dies later.
LEMMA CommandGoneKeeps ==
    ASSUME CatalogInv, NEW x \in Clis, command[x] \in Installing \cup Removing, torn' \in BOOLEAN,
           command' = [command EXCEPT ![x] = Idle], UNCHANGED <<entry, package, commands, chosen, crossed>>,
           ~torn' => ~torn /\ command[x].pc \notin {"placing", "removing"}
    PROVE  CatalogInv'
<1>1. CatalogTypeOK'
    BY DEF CatalogInv, CatalogTypeOK
<1>2. command'[x] = Idle /\ \A y \in Clis \ {x} : command'[y] = command[y]
    BY DEF CatalogInv, CatalogTypeOK
<1>3. Idle \notin Installing \cup Removing
    BY DEF Idle, Installing, Removing
<1>4. Finite'
    BY <1>2, <1>3 DEF CatalogInv, Finite
<1>5. ASSUME ~crossed' PROVE Uncrossed'
    <2>1. Uncrossed
        BY <1>5 DEF CatalogInv
    <2>2. Alone'
        BY <2>1, <1>2 DEF Uncrossed, Alone
    <2> QED
        BY <2>1, <2>2, <1>2, <1>3 DEF Uncrossed
<1>6. ASSUME ~crossed', ~torn', NEW v \in Installed(entry')
      PROVE  v \in package' \/ \E y \in Clis : Handles(y, v)'
    <2>1. v \in package \/ \E y \in Clis : Handles(y, v)
        BY <1>6 DEF CatalogInv, Packaged
    <2>2. ~Handles(x, v)
        BY <1>6 DEF Handles, Removing
    <2>3. \A y \in Clis : Handles(y, v) => Handles(y, v)'
        BY <2>2, <1>2 DEF Handles
    <2> QED
        BY <2>1, <2>3
<1> QED
    BY <1>1, <1>4, <1>5, <1>6 DEF CatalogInv, Packaged

\* A package that cannot be fetched leaves the catalog alone.
LEMMA InstallFailsKeeps ==
    ASSUME CatalogInv, NEW x \in Clis, InstallFails(x)
    PROVE  CatalogInv'
<1>1. command[x] \in Installing \cup Removing /\ torn \in BOOLEAN
    BY CommandKinds DEF CatalogInv, CatalogTypeOK, InstallFails, Idle
<1> QED
    BY <1>1, CommandGoneKeeps DEF InstallFails

\* A command that dies leaves what it has done so far.
LEMMA CommandDiesKeeps ==
    ASSUME CatalogInv, NEW x \in Clis, CommandDies(x)
    PROVE  CatalogInv'
<1>1. command[x] \in Installing \cup Removing
    BY CommandKinds DEF CatalogInv, CommandDies
<1>2. torn' \in BOOLEAN /\ (~torn' => ~torn /\ command[x].pc \notin {"placing", "removing"})
    <2>1. torn' = (torn \/ command[x].pc \in {"placing", "removing"})
        BY DEF CommandDies
    <2> QED
        BY <2>1, Zenon
<1> QED
    BY <1>1, <1>2, CommandGoneKeeps DEF CommandDies

\* The package in place is torn down before the new one takes its place.
LEMMA InstallReplaceKeeps ==
    ASSUME CatalogInv, NEW x \in Clis, InstallReplace(x)
    PROVE  CatalogInv'
<1> DEFINE k == [command[x] EXCEPT !.pc = "placing"]
<1>1. command[x] \in Installing /\ command[x].pc = "fetching" /\ x \in Clis
    BY CommandKinds DEF CatalogInv, InstallReplace, Idle, Removing
<1>2. k \in Installing /\ k.pc = "placing" /\ k.version = command[x].version /\ k.before = command[x].before
    BY <1>1 DEF Installing
<1>3. command' = [command EXCEPT ![x] = k]
    BY DEF InstallReplace
<1> HIDE DEF k
<1>4. command'[x] = k /\ \A y \in Clis \ {x} : command'[y] = command[y]
    BY <1>3 DEF CatalogInv, CatalogTypeOK
<1>5. CatalogTypeOK'
    BY <1>2, <1>3 DEF CatalogInv, CatalogTypeOK, InstallReplace
<1>6. Finite'
    BY <1>1, <1>2, <1>4 DEF CatalogInv, Finite, InstallReplace
<1>7. command[x] # Idle
    BY <1>1 DEF Idle
<1>8. ASSUME ~crossed' PROVE Uncrossed'
    <2>1. Uncrossed
        BY <1>8 DEF CatalogInv, InstallReplace
    <2>2. Alone'
        BY <2>1, <1>4, <1>7 DEF Uncrossed, Alone
    <2>3. BoundIn(entry') = chosen' /\ entry' = entry /\ chosen' = chosen
        BY <2>1 DEF InstallReplace, Uncrossed
    <2>4. command'[x].before = entry'
        BY <2>1, <1>1, <1>2, <1>4, <2>3 DEF Uncrossed
    <2>5. command'[x].pc # "inheriting"
        BY <1>2, <1>4
    <2> QED
        BY <2>1, <2>2, <2>3, <2>4, <2>5, <1>4 DEF Uncrossed
<1>9. ASSUME ~crossed', ~torn', NEW v \in Installed(entry')
      PROVE  v \in package' \/ \E y \in Clis : Handles(y, v)'
    <2>1. v \in package \/ \E y \in Clis : Handles(y, v)
        BY <1>9 DEF CatalogInv, Packaged, InstallReplace
    <2>2. ~Handles(x, v)
        BY <1>1 DEF Handles, Removing
    <2>3. \A y \in Clis : Handles(y, v) => Handles(y, v)'
        BY <2>2, <1>4 DEF Handles
    <2>4. v \in package \ package' => Handles(x, v)'
        BY <1>2, <1>4 DEF InstallReplace, Handles
    <2> QED
        BY <2>1, <2>3, <2>4
<1> QED
    BY <1>5, <1>6, <1>8, <1>9 DEF CatalogInv, Packaged

\* A record of one version is written by an install or an update that goes on as k.
LEMMA RecordKeeps ==
    ASSUME CatalogInv, NEW x \in Clis, command[x] \in Installing, command[x].pc \in {"placing", "inheriting"},
           NEW e \in Entry, entry' = [entry EXCEPT ![command[x].version] = e],
           package' = package \cup (IF command[x].pc = "placing" THEN {command[x].version} ELSE {}),
           NEW k \in {Idle, [command[x] EXCEPT !.pc = "inheriting"]},
           command' = [command EXCEPT ![x] = k], UNCHANGED <<commands, chosen, crossed, torn>>,
           ~crossed => BoundIn(entry') = BoundIn(entry),
           command[x].pc = "inheriting" /\ ~crossed => command[x].version \in Installed(entry),
           k # Idle => command[x].pc = "placing" /\ e.enabled = {}
    PROVE  CatalogInv'
<1> DEFINE v == command[x].version
<1>1. v \in Versions /\ entry \in Catalog /\ IsFiniteSet(Installed(entry))
    BY DEF CatalogInv, CatalogTypeOK, Finite, Installing
<1>2. entry' \in Catalog /\ Installed(entry') = Installed(entry) \cup {v} /\ IsFiniteSet(Installed(entry'))
    BY <1>1, OneRecord
<1>3. /\ k \in Installing \cup {Idle}
      /\ (k # Idle => k.pc = "inheriting" /\ k.version = v /\ k.before = command[x].before)
    BY DEF Installing
<1>4. command'[x] = k /\ \A y \in Clis \ {x} : command'[y] = command[y]
    BY DEF CatalogInv, CatalogTypeOK
<1>5. CatalogTypeOK'
    BY <1>1, <1>2, <1>3 DEF CatalogInv, CatalogTypeOK
<1>6. Idle \notin Installing \cup Removing /\ command[x] # Idle
    BY DEF Idle, Installing, Removing
<1>7. Finite'
    BY <1>2, <1>3, <1>4, <1>6 DEF CatalogInv, Finite
<1>8. ASSUME ~crossed' PROVE Uncrossed'
    <2>1. Uncrossed
        BY <1>8 DEF CatalogInv
    <2>2. Alone'
        BY <2>1, <1>4, <1>6 DEF Uncrossed, Alone
    <2>3. \A y \in Clis \ {x} : command'[y] = Idle
        <3>1. \A y \in Clis \ {x} : command[y] = Idle
            BY <2>1, <1>6 DEF Uncrossed, Alone
        <3> QED
            BY <3>1, <1>4
    <2>4. BoundIn(entry') = chosen'
        BY <2>1, <1>8 DEF Uncrossed
    <2>5. ASSUME k # Idle
          PROVE  /\ BoundIn(k.before) = chosen
                 /\ entry'[v] # NoEntry
                 /\ entry'[v].enabled = {}
        <3>1. command[x].pc = "placing" /\ e.enabled = {}
            BY <2>5
        <3>2. command[x].before = entry
            BY <3>1, <2>1 DEF Uncrossed
        <3>3. entry'[v] = e
            BY <1>1 DEF Catalog
        <3> QED
            BY <3>1, <3>2, <3>3, <2>1, <2>5, <1>3, EntriesAreRecords DEF Uncrossed
    <2>6. \A y \in Clis : command'[y] \in Installing \cup Removing => y = x /\ k # Idle
        BY <2>3, <1>4, <1>6
    <2> QED
        BY <2>2, <2>4, <2>5, <2>6, <1>3, <1>4 DEF Uncrossed
<1>9. ASSUME ~crossed', ~torn', NEW w \in Installed(entry')
      PROVE  w \in package' \/ \E y \in Clis : Handles(y, w)'
    <2>1. w \in Installed(entry) => w \in package \/ \E y \in Clis : Handles(y, w)
        BY <1>9 DEF CatalogInv, Packaged
    <2>2. Handles(x, w) => w \in package'
        BY DEF Handles, Installing, Removing
    <2>3. \A y \in Clis : Handles(y, w) => w \in package' \/ Handles(y, w)'
        BY <2>2, <1>4 DEF Handles
    <2>4. w \notin Installed(entry) => w \in package'
        BY <1>2, <1>9
    <2> QED
        BY <2>1, <2>3, <2>4
<1> QED
    BY <1>5, <1>7, <1>8, <1>9 DEF CatalogInv, Packaged

\* The version is recorded with the channels that its record had before.
LEMMA InstallRecordKeeps ==
    ASSUME CatalogInv, NEW x \in Clis, InstallRecord(x)
    PROVE  CatalogInv'
<1> DEFINE v == command[x].version
<1> DEFINE e == [enabled |-> Kept(entry[v]), at |-> commands]
<1> DEFINE k == IF command[x].update /\ Kept(entry[v]) = {} THEN [command[x] EXCEPT !.pc = "inheriting"] ELSE Idle
<1>1. command[x] \in Installing /\ command[x].pc = "placing"
    BY CommandKinds DEF CatalogInv, InstallRecord, Idle, Removing
<1>2. v \in Versions /\ entry \in Catalog
    BY <1>1 DEF Installing, CatalogInv, CatalogTypeOK
<1>3. e \in Entry /\ e.enabled = Kept(entry[v])
    BY <1>2 DEF Catalog, Entry, Kept, CatalogInv, CatalogTypeOK
<1>4. entry' = [entry EXCEPT ![v] = e]
    BY DEF InstallRecord
<1>5. k \in {Idle, [command[x] EXCEPT !.pc = "inheriting"]} /\ (k # Idle => e.enabled = {})
    BY <1>3
<1>6. command' = [command EXCEPT ![x] = k] /\ UNCHANGED <<commands, chosen, crossed, torn>>
      /\ package' = package \cup {v}
    BY DEF InstallRecord
<1>7. BoundIn(entry') = BoundIn(entry)
    <2>1. Installed(entry') = Installed(entry) \cup {v}
        BY <1>2, <1>3, <1>4, OneRecord
    <2>2. entry'[v].enabled = Kept(entry[v])
        BY <1>2, <1>3, <1>4 DEF Catalog
    <2>3. \A w \in Versions \ {v} : entry'[w] = entry[w]
        BY <1>2, <1>4 DEF Catalog
    <2>4. v \in Installed(entry) => Kept(entry[v]) = entry[v].enabled
        BY DEF Kept, Installed
    <2>5. v \notin Installed(entry) => Kept(entry[v]) = {}
        BY <1>2 DEF Kept, Installed
    <2>6. \A c : (\E w \in Installed(entry') : c \in entry'[w].enabled)
                    <=> \E w \in Installed(entry) : c \in entry[w].enabled
        BY <2>1, <2>2, <2>3, <2>4, <2>5 DEF Installed
    <2> QED
        BY <2>6 DEF BoundIn
<1> HIDE DEF v, e, k
<1>8. entry' = [entry EXCEPT ![command[x].version] = e]
      /\ package' = package \cup (IF command[x].pc = "placing" THEN {command[x].version} ELSE {})
    BY <1>1, <1>4, <1>6 DEF v
<1> QED
    BY <1>1, <1>3, <1>5, <1>6, <1>7, <1>8, RecordKeeps

\* An update inherits the channels of the version that was installed last before it.
LEMMA UpdateInheritKeeps ==
    ASSUME CatalogInv, NEW x \in Clis, UpdateInherit(x)
    PROVE  CatalogInv'
<1> DEFINE v == command[x].version
<1> DEFINE before == command[x].before
<1> DEFINE others == Installed(before) \ {v}
<1>1. command[x] \in Installing /\ command[x].pc = "inheriting"
    BY CommandKinds DEF CatalogInv, UpdateInherit, Idle, Removing
<1>2. v \in Versions /\ entry \in Catalog /\ before \in Catalog
    BY <1>1 DEF Installing, CatalogInv, CatalogTypeOK
<1>3. command' = [command EXCEPT ![x] = Idle] /\ UNCHANGED <<package, commands, chosen, crossed, torn>>
    BY DEF UpdateInherit
<1>4. CASE others = {} \/ entry[v] = NoEntry
    <2>1. entry' = entry
        BY <1>4 DEF UpdateInherit
    <2> QED
        BY <1>1, <1>3, <2>1, CommandGoneKeeps DEF CatalogInv, CatalogTypeOK
<1>5. CASE others # {} /\ entry[v] # NoEntry
    <2> DEFINE p == Predecessor(before, v)
    <2> DEFINE e == [entry[v] EXCEPT !.enabled = before[p].enabled]
    <2>1. p \in others
        BY <1>2, <1>5, PredecessorIsOne
    <2>2. before[p] \in Entry /\ p \in Versions /\ entry[v] \in Entry /\ v \in Installed(entry)
        BY <1>2, <1>5, <2>1, RecordsAreEntries DEF Installed
    <2>3. e \in Entry /\ e.enabled = before[p].enabled
        BY <2>2 DEF Entry
    <2>4. entry' = [entry EXCEPT ![v] = e]
        BY <1>5 DEF UpdateInherit
    <2> HIDE DEF p, e
    <2>5. ASSUME ~crossed PROVE BoundIn(entry') = BoundIn(entry)
        <3>1. BoundIn(before) = chosen /\ BoundIn(entry) = chosen /\ entry[v].enabled = {}
            BY <1>1, <2>5 DEF CatalogInv, Uncrossed
        <3>2. e.enabled \subseteq BoundIn(entry)
            BY <2>1, <2>3, <3>1 DEF BoundIn
        <3>3. Installed(entry') = Installed(entry)
            <4>1. Installed([entry EXCEPT ![v] = e]) = Installed(entry) \cup {v}
                BY <1>2, <2>3, OneRecord
            <4> QED
                BY <4>1, <2>2, <2>4
        <3>4. entry'[v] = e /\ \A w \in Versions \ {v} : entry'[w] = entry[w]
            BY <1>2, <2>4 DEF Catalog
        <3>5. \A c : (\E w \in Installed(entry') : c \in entry'[w].enabled)
                        <=> \E w \in Installed(entry) : c \in entry[w].enabled
            BY <3>1, <3>2, <3>3, <3>4, <2>2 DEF Installed, BoundIn
        <3> QED
            BY <3>5 DEF BoundIn
    <2>6. package' = package \cup (IF command[x].pc = "placing" THEN {command[x].version} ELSE {})
        BY <1>1, <1>3
    <2> QED
        BY <1>1, <1>3, <2>2, <2>3, <2>4, <2>5, <2>6, RecordKeeps
<1> QED
    BY <1>4, <1>5

\* The versions leave the catalog, and their channels are chosen no more.
LEMMA RemoveRecordKeeps ==
    ASSUME CatalogInv, NEW x \in Clis, RemoveRecord(x)
    PROVE  CatalogInv'
<1> DEFINE before == command[x].before
<1> DEFINE gone == command[x].versions
<1>1. command[x] \in Removing /\ command[x].pc = "removing"
    BY CommandKinds DEF CatalogInv, RemoveRecord, Idle, Installing
<1>2. before \in Catalog /\ entry \in Catalog /\ gone \subseteq Versions /\ IsFiniteSet(Installed(before))
    BY <1>1 DEF Removing, CatalogInv, CatalogTypeOK, Finite
<1>3. entry' = [v \in Versions |-> IF v \in gone THEN NoEntry ELSE before[v]]
    BY DEF RemoveRecord
<1>4. entry' \in Catalog /\ Installed(entry') = Installed(before) \ gone
    BY <1>2, <1>3 DEF Catalog, Installed
<1>5. IsFiniteSet(Installed(entry'))
    BY <1>2, <1>4, FS_Subset
<1>6. command'[x] = Idle /\ \A y \in Clis \ {x} : command'[y] = command[y]
    BY DEF CatalogInv, CatalogTypeOK, RemoveRecord
<1>7. Idle \notin Installing \cup Removing /\ command[x] # Idle
    BY <1>1 DEF Idle, Installing, Removing
<1>8. CatalogTypeOK'
    BY <1>4 DEF CatalogInv, CatalogTypeOK, RemoveRecord
<1>9. Finite'
    BY <1>5, <1>6, <1>7 DEF CatalogInv, Finite, RemoveRecord
<1>10. ASSUME ~crossed' PROVE Uncrossed' /\ (~torn' => Packaged')
    <2>1. Uncrossed /\ ~crossed
        BY <1>10 DEF CatalogInv, RemoveRecord
    <2>2. before = entry
        BY <2>1, <1>1 DEF Uncrossed
    <2>3. \A y \in Clis \ {x} : command[y] = Idle
        BY <2>1, <1>7 DEF Uncrossed, Alone
    <2>4. \A y \in Clis : command'[y] = Idle
        BY <2>3, <1>6
    <2>5. BoundIn(entry') = chosen'
        <3>1. \A v \in Installed(entry') : v \in Installed(entry) /\ entry'[v] = entry[v]
            BY <2>2, <1>3, <1>4 DEF Installed
        <3>2. BoundIn(entry') \subseteq chosen
            BY <3>1, <2>1 DEF BoundIn, Uncrossed
        <3> QED
            BY <3>2 DEF RemoveRecord
    <2>6. Uncrossed'
        BY <2>4, <2>5, <1>7 DEF Uncrossed, Alone
    <2>7. ASSUME ~torn', NEW v \in Installed(entry') PROVE v \in package'
        <3>1. v \in Installed(entry) /\ v \notin gone
            BY <2>2, <2>7, <1>4
        <3>2. v \in package \/ \E y \in Clis : Handles(y, v)
            BY <3>1, <2>1, <2>7 DEF CatalogInv, Packaged, RemoveRecord
        <3>3. \A y \in Clis : ~Handles(y, v)
            BY <3>1, <2>3, <1>1, <1>7 DEF Handles, Installing
        <3> QED
            BY <3>2, <3>3 DEF RemoveRecord
    <2> QED
        BY <2>6, <2>7 DEF Packaged
<1> QED
    BY <1>8, <1>9, <1>10 DEF CatalogInv

\* Every command keeps the invariant of the catalog.
LEMMA CatalogStepKeeps ==
    ASSUME CatalogInv, CatalogNext
    PROVE  CatalogInv'
<1>1. PICK x \in Clis :
        \/ InstallReplace(x) \/ InstallRecord(x) \/ UpdateInherit(x) \/ RemoveRecord(x)
        \/ InstallFails(x) \/ CommandDies(x)
        \/ \E c \in Bindings : Enable(x, c) \/ Disable(x, c)
        \/ \E v \in Versions, update \in BOOLEAN : InstallBegin(x, v, update)
        \/ \E vs \in {{v} : v \in Versions} \cup {Versions} : RemoveBegin(x, vs)
    BY DEF CatalogNext
<1>2. {{v} : v \in Versions} \cup {Versions} \subseteq SUBSET Versions
    OBVIOUS
<1> QED
    BY <1>1, <1>2, InstallReplaceKeeps, InstallRecordKeeps, UpdateInheritKeeps, RemoveRecordKeeps, InstallFailsKeeps,
       CommandDiesKeeps, EnableKeeps, DisableKeeps, InstallBeginKeeps, RemoveBeginKeeps

\* The other steps of a host only count commands.
LEMMA CatalogKeptElsewhere ==
    ASSUME CatalogInv, commands' \in 0..MaxCommands, UNCHANGED <<entry, package, command, chosen, crossed, torn>>
    PROVE  CatalogInv'
BY DEF CatalogInv, CatalogTypeOK, Finite, Uncrossed, Alone, BoundIn, Packaged, Handles, Installed

\* The invariant of the catalog holds in every reachable state: the daemon only reads it.
LEMMA CatalogInvHolds == Spec => []CatalogInv
<1>1. Init => CatalogInv
    <2> SUFFICES ASSUME Init PROVE CatalogInv
        OBVIOUS
    <2>1. entry = [v \in Versions |-> NoEntry] /\ command = [x \in Clis |-> Idle] /\ chosen = {} /\ package = {}
          /\ commands = 0 /\ crossed = FALSE /\ torn = FALSE
        BY DEF Init, CatalogInit
    <2>2. Installed(entry) = {}
        BY <2>1 DEF Installed
    <2>3. \A x \in Clis : command[x] = Idle /\ command[x] \notin Installing \cup Removing
        BY <2>1 DEF Idle, Installing, Removing
    <2>4. CatalogTypeOK
        <3>1. entry \in Catalog /\ command \in [Clis -> {Idle} \cup Installing \cup Removing]
            BY <2>1 DEF Catalog
        <3>2. commands \in 0..MaxCommands
            BY <2>1, CatalogAssumption
        <3> QED
            BY <2>1, <3>1, <3>2 DEF CatalogTypeOK
    <2>5. Finite
        BY <2>2, <2>3, FS_EmptySet DEF Finite
    <2>6. Uncrossed /\ Packaged
        BY <2>1, <2>2, <2>3 DEF Uncrossed, Packaged, Alone, BoundIn
    <2> QED
        BY <2>4, <2>5, <2>6 DEF CatalogInv
<1>2. CatalogInv /\ [Next]_vars => CatalogInv'
    <2> SUFFICES ASSUME CatalogInv, [Next]_vars PROVE CatalogInv'
        OBVIOUS
    <2>1. CASE CatalogNext
        BY <2>1, CatalogStepKeeps
    <2>2. CASE UNCHANGED catalogVars
        <3>1. commands' \in 0..MaxCommands
            BY <2>2 DEF catalogVars, CatalogInv, CatalogTypeOK
        <3> QED
            BY <2>2, <3>1, CatalogKeptElsewhere DEF catalogVars
    <2>3. ASSUME NEW x \in Clis, NEW i \in Ids, NEW t \in BOOLEAN, RuntimeRemove(x, i) \/ RuntimeAdd(x, i, t)
          PROVE  CatalogInv'
        <3>1. commands' \in 0..MaxCommands /\ UNCHANGED <<entry, package, command, chosen, crossed, torn>>
            BY <2>3, CatalogAssumption DEF RuntimeRemove, RuntimeAdd, CatalogInv, CatalogTypeOK
        <3> QED
            BY <3>1, CatalogKeptElsewhere
    <2>4. ASSUME NEW b \in Boots, DaemonStep(b) PROVE UNCHANGED catalogVars
        BY <2>4 DEF DaemonStep, Write, Boot, StartNext, LaunchDone, LaunchFails, Started, Heartbeat, Stop, CloseNext,
                    Stopped, Crash, DaemonStop, Gone
    <2>5. ASSUME NEW x \in Clis, Write(x) PROVE UNCHANGED catalogVars
        BY <2>5 DEF Write
    <2> QED
        BY <2>1, <2>2, <2>3, <2>4, <2>5 DEF Next, vars
<1> QED
    BY <1>1, <1>2, PTL DEF Spec

\* BoundByChoice: a version is bound to a channel only because an operator enabled the application
\* there and has not disabled it since, as long as no two commands have crossed.
THEOREM BoundByChoiceHolds == Spec => []BoundByChoice
<1>1. CatalogInv => BoundByChoice
    BY DEF CatalogInv, Uncrossed, BoundByChoice
<1> QED
    BY <1>1, CatalogInvHolds, PTL

\* ChosenLoads: a runtime loads what was chosen for its channels, or a newer version that was
\* enabled beside it, and each version it loads has its package.
THEOREM ChosenLoadsHolds == Spec => []ChosenLoads
<1>1. CatalogInv => ChosenLoads
    <2> SUFFICES ASSUME CatalogInv, ~crossed, ~torn, \A x \in Clis : command[x] = Idle,
                        NEW channels \in SUBSET Channels
                 PROVE  /\ \A k \in Loaded(entry, channels) : CanLoad(k[2])
                        /\ \A b \in chosen \cap Carried(channels) :
                            /\ Loaded(entry, channels) # {}
                            /\ b \in {k[1] : k \in Loaded(entry, channels)} \/ Eclipsed(b, channels)
        BY DEF ChosenLoads
    <2> DEFINE vs == EnabledFor(entry, channels)
    <2> DEFINE newest == Latest(vs)
    <2>1. Uncrossed /\ Packaged /\ IsFiniteSet(Installed(entry))
        BY DEF CatalogInv, Finite
    <2>2. vs \subseteq Installed(entry) /\ Installed(entry) \subseteq Versions
        BY DEF EnabledFor, Installed
    <2>3. IsFiniteSet(vs)
        BY <2>1, <2>2, FS_Subset
    <2>4. vs # {} => newest \in vs /\ \A w \in vs : w <= newest
        <3> SUFFICES ASSUME vs # {} PROVE newest \in vs /\ \A w \in vs : w <= newest
            OBVIOUS
        <3>1. \E v \in vs : \A w \in vs : w <= v
            BY <2>2, <2>3, FiniteHasLargest, CatalogAssumption DEF HasLargest
        <3> QED
            BY <3>1 DEF Latest
    <2>5. \A v \in Installed(entry) : CanLoad(v)
        <3>1. \A v : \A x \in Clis : ~Handles(x, v)
            BY DEF Handles, Idle, Installing, Removing
        <3> QED
            BY <2>1, <3>1 DEF Packaged, CanLoad
    <2>6. \A k \in Loaded(entry, channels) : k[2] = newest /\ vs # {}
        BY DEF Loaded
    <2>7. ASSUME NEW b \in chosen \cap Carried(channels)
          PROVE  /\ Loaded(entry, channels) # {}
                 /\ b \in {k[1] : k \in Loaded(entry, channels)} \/ Eclipsed(b, channels)
        <3>1. PICK v \in Installed(entry) : b \in entry[v].enabled
            BY <2>1 DEF Uncrossed, BoundIn
        <3>2. v \in vs
            BY <3>1 DEF EnabledFor
        <3>3. newest \in vs /\ \A w \in vs : w <= newest
            BY <3>2, <2>4
        <3>4. Loaded(entry, channels) = {<<a, newest>> : a \in entry[newest].enabled \cap Carried(channels)}
            BY <3>2 DEF Loaded
        <3>5. Loaded(entry, channels) # {}
            BY <3>3, <3>4 DEF EnabledFor
        <3>6. CASE b \in entry[newest].enabled
            <4>1. <<b, newest>> \in Loaded(entry, channels) /\ b = <<b, newest>>[1]
                BY <3>4, <3>6
            <4> QED
                BY <4>1, <3>5
        <3>7. CASE b \notin entry[newest].enabled
            <4>1. ASSUME NEW w \in Installed(entry), b \in entry[w].enabled PROVE w < newest
                <5>1. w \in vs /\ w # newest
                    BY <4>1, <3>7 DEF EnabledFor
                <5>2. w \in Nat /\ newest \in Nat
                    BY <5>1, <3>3, <2>2, CatalogAssumption
                <5> QED
                    BY <5>1, <5>2, <3>3
            <4> QED
                BY <4>1, <3>3, <3>5 DEF Eclipsed
        <3> QED
            BY <3>6, <3>7
    <2> QED
        BY <2>2, <2>4, <2>5, <2>6, <2>7
<1> QED
    BY <1>1, CatalogInvHolds, PTL

-----------------------------------------------------------------------------
(***************************************************************************)
(* The daemons and the status file.  StatusTruthful is not inductive: an   *)
(* edit in flight will overwrite the file with what it has read, and a     *)
(* daemon is between two statuses of a runtime most of the time.  HostInv  *)
(* says what an edit in flight carries and what each daemon will still     *)
(* write.                                                                  *)
(***************************************************************************)
\* Process p is between its read of the file and its write.
Pending(p) == edit[p] # NoEdit
Serving(b) == daemon[b].pc \in {"starting", "running"}
Online(b) == [state |-> "online", by |-> b]
OwnRows(b) ==
    {Online(b), [state |-> "starting", by |-> b], [state |-> "failed", by |-> b], [state |-> "offline", by |-> Nobody]}

\* Who edits the file, and what: a daemon that lives writes statuses of its own, a command
\* line registers and removes.
Editors ==
    /\ \A b \in Boots : ~Alive(b) => ~Pending(b) /\ DOMAIN active[b] = {}
    /\ \A b \in Boots : Pending(b) => edit[b].change.kind = "status" /\ edit[b].change.row \in OwnRows(b)
    /\ \A x \in Clis : Pending(x) => edit[x].change.kind \in {"register", "remove"}

\* A runtime is launched once.
Launching ==
    \A b \in Boots :
        /\ daemon[b].pc # "starting" => daemon[b].now = None
        /\ daemon[b].pc = "starting" =>
            /\ daemon[b].todo \cap DOMAIN active[b] = {}
            /\ daemon[b].now \notin daemon[b].todo \cup DOMAIN active[b]
            /\ daemon[b].now # None /\ Pending(b) =>
                edit[b].change.id = daemon[b].now /\ edit[b].change.row.state = "starting"

Current == \A p \in Procs : Pending(p) => edit[p].seen = file
OneAlive == \A a, b \in Boots : Alive(a) /\ Alive(b) => a = b

\* The statuses in the file, and the one a daemon is about to write, against what it runs.
RowFits(b, i) ==
    /\ file.row[i] = Online(b) => i \in DOMAIN active[b]
    /\ i \in DOMAIN active[b] => file.row[i].state \notin {"offline", "failed"}
    /\ daemon[b].now = i /\ ~Pending(b) => file.row[i].state \in {"starting", "none"}

EditFits(b) ==
    Pending(b) =>
        /\ edit[b].change.row.state = "online" => edit[b].change.id \in DOMAIN active[b]
        /\ edit[b].change.row.state \in {"offline", "failed"} => edit[b].change.id \notin DOMAIN active[b]

Told ==
    \A b \in Boots :
        /\ daemon[b].pc = "new" => \A i \in Ids : file.row[i].by # b
        /\ Serving(b) => EditFits(b) /\ \A i \in Ids : RowFits(b, i)

HostInv ==
    /\ HostTypeOK
    /\ Editors
    /\ Launching
    /\ ~raced => Current
    /\ ~doubled => OneAlive
    /\ ~raced /\ ~doubled => Told

-----------------------------------------------------------------------------
Edits == [kind : {"edit"}, seen : File, change : Change]
Daemons == [pc : {"new", "starting", "running", "stopping", "gone"}, todo : SUBSET Ids, now : Ids \cup {None}]
Loads == UNION {[S -> Consumers] : S \in SUBSET Ids}

\* An edit of the status file in flight has read a file, and is not mistaken for none.
LEMMA EditKinds ==
    ASSUME HostTypeOK, NEW p \in Procs
    PROVE  /\ edit[p] \in {NoEdit} \cup Edits
           /\ \A e \in Edits : e # NoEdit /\ e.seen \in File /\ e.change \in Change
BY DEF HostTypeOK, NoEdit, Edits

\* An edit changes the row it is about, and registers or removes what it is about.
LEMMA EditedRows ==
    ASSUME NEW f \in File, NEW d \in Change
    PROVE  /\ Edited(f, d) \in File
           /\ d.id \in Ids
           /\ \A i \in Ids : Edited(f, d).row[i] =
                IF d.kind = "register" \/ i # d.id THEN f.row[i] ELSE IF d.kind = "remove" THEN NoRow ELSE d.row
           /\ \A i \in f.registered : i \in Edited(f, d).registered \/ d = [kind |-> "remove", id |-> i]
<1>1. CASE d \in [kind : {"register"}, id : Ids, trusted : BOOLEAN]
    BY <1>1 DEF Edited, File
<1>2. CASE d \in [kind : {"remove"}, id : Ids]
    <2>1. Edited(f, d) = [f EXCEPT !.registered = @ \ {d.id}, !.trusted = @ \ {d.id}, !.row[d.id] = NoRow]
        BY <1>2 DEF Edited
    <2>2. d = [kind |-> "remove", id |-> d.id] /\ d.id \in Ids
        BY <1>2
    <2>3. /\ Edited(f, d).registered = f.registered \ {d.id} /\ Edited(f, d).trusted = f.trusted \ {d.id}
          /\ Edited(f, d).row = [f.row EXCEPT ![d.id] = NoRow]
          /\ Edited(f, d) \in File
        <3> DEFINE f1 == [f EXCEPT !.registered = @ \ {d.id}, !.trusted = @ \ {d.id},
                                !.row = [@ EXCEPT ![d.id] = NoRow]]
        <3>1. Edited(f, d) = f1
            BY <2>1
        <3>2. [f.row EXCEPT ![d.id] = NoRow] \in [Ids -> Row \cup {NoRow}]
            BY DEF File
        <3> HIDE DEF NoRow
        <3> QED
            BY <3>1, <3>2 DEF File
    <2>4. \A i \in Ids : Edited(f, d).row[i] = IF i # d.id THEN f.row[i] ELSE NoRow
        BY <2>3, <2>2 DEF File
    <2> QED
        BY <2>2, <2>3, <2>4, <1>2
<1>3. CASE d \in [kind : {"status"}, id : Ids, row : Row]
    <2>1. Edited(f, d) = [f EXCEPT !.row[d.id] = d.row]
        BY <1>3 DEF Edited
    <2> QED
        BY <2>1, <1>3 DEF File
<1> QED
    BY <1>1, <1>2, <1>3 DEF Change

LaunchesOnce(D, A, d) ==
    IF D.pc = "starting"
    THEN /\ D.todo \cap DOMAIN A = {} /\ D.now \notin D.todo \cup DOMAIN A
         /\ D.now # None => d.id = D.now /\ d.row.state = "starting"
    ELSE D.now = None

Honest(b, A, d) ==
    /\ \A i \in Ids : /\ file.row[i] = Online(b) => i \in DOMAIN A
                      /\ i \in DOMAIN A => file.row[i].state \notin {"offline", "failed"}
    /\ d.row.state = "online" => d.id \in DOMAIN A
    /\ d.row.state \in {"offline", "failed"} => d.id \notin DOMAIN A

\* A daemon that lives reads the file for a status of its own, as it moves to D with A running.
LEMMA DaemonReads ==
    ASSUME HostInv, NEW b \in Boots, Alive(b), ~Pending(b),
           NEW d \in Change, d.kind = "status", d.row \in OwnRows(b),
           edit' = [edit EXCEPT ![b] = [kind |-> "edit", seen |-> file, change |-> d]],
           NEW D \in Daemons, daemon' = [daemon EXCEPT ![b] = D], D.pc = daemon[b].pc,
           NEW A \in Loads, active' = [active EXCEPT ![b] = A],
           UNCHANGED <<file, raced, doubled>>,
           LaunchesOnce(D, A, d), ~raced /\ ~doubled /\ Serving(b) => Honest(b, A, d)
    PROVE  HostInv'
<1> DEFINE e == [kind |-> "edit", seen |-> file, change |-> d]
<1>1. e \in Edits /\ e # NoEdit /\ e.seen = file /\ e.change = d
    BY DEF HostInv, HostTypeOK, Edits, NoEdit
<1>2. /\ edit'[b] = e /\ \A p \in Procs \ {b} : edit'[p] = edit[p]
      /\ daemon'[b] = D /\ active'[b] = A
      /\ \A a \in Boots \ {b} : daemon'[a] = daemon[a] /\ active'[a] = active[a]
    BY DEF HostInv, HostTypeOK, Procs
<1>3. HostTypeOK'
    BY <1>1 DEF HostInv, HostTypeOK, Daemons, Loads, Edits, Procs
<1> HIDE DEF e
<1>4. Editors'
    <2>1. \A x \in Clis : x \in Procs \ {b}
        BY HostAssumption DEF Procs
    <2> QED
        BY <1>1, <1>2, <2>1 DEF HostInv, Editors, Alive, Pending, Procs
<1>5. Launching'
    BY <1>1, <1>2 DEF HostInv, Launching, Pending, Procs, LaunchesOnce
<1>6. ~raced' => Current'
    BY <1>1, <1>2 DEF HostInv, Current, Pending, Procs
<1>7. ~doubled' => OneAlive'
    BY <1>2 DEF HostInv, OneAlive, Alive
<1>8. ASSUME ~raced', ~doubled' PROVE Told'
    <2>1. Told
        BY <1>8 DEF HostInv
    <2>2. \A a \in Boots \ {b} : (daemon[a].pc = "new" => \A i \in Ids : file.row[i].by # a)' /\ ~Serving(a)'
        <3>1. OneAlive
            BY <1>8 DEF HostInv
        <3> QED
            BY <3>1, <2>1, <1>2 DEF Told, OneAlive, Alive, Serving
    <2>3. daemon'[b].pc # "new"
        BY <1>2 DEF Alive
    <2>4. ASSUME Serving(b)' PROVE EditFits(b)' /\ \A i \in Ids : RowFits(b, i)'
        <3>1. Serving(b)
            BY <2>4, <1>2 DEF Serving
        <3>2. EditFits(b)'
            BY <3>1, <1>1, <1>2, <1>8 DEF EditFits, Honest
        <3>3. Pending(b)'
            BY <1>1, <1>2 DEF Pending
        <3> QED
            BY <3>1, <3>2, <3>3, <1>2, <1>8 DEF RowFits, Honest
    <2> QED
        BY <2>2, <2>3, <2>4 DEF Told
<1> QED
    BY <1>3, <1>4, <1>5, <1>6, <1>7, <1>8 DEF HostInv

\* A daemon takes the next runtime from its list and reports it as starting.
LEMMA StartNextKeeps ==
    ASSUME HostInv, NEW b \in Boots, StartNext(b)
    PROVE  HostInv'
<1>1. PICK i \in daemon[b].todo :
        /\ daemon' = [daemon EXCEPT ![b].now = i, ![b].todo = @ \ {i}]
        /\ Status(b, i, "starting", b)
    BY DEF StartNext
<1> DEFINE d == [kind |-> "status", id |-> i, row |-> [state |-> "starting", by |-> b]]
<1> DEFINE D == [daemon[b] EXCEPT !.now = i, !.todo = @ \ {i}]
<1>2. daemon[b] \in Daemons /\ daemon[b].pc = "starting" /\ active[b] \in Loads /\ i \in Ids /\ i # None
    BY HostAssumption DEF StartNext, HostInv, HostTypeOK, Daemons, Loads, None
<1>3. d \in Change /\ d.kind = "status" /\ d.row \in OwnRows(b) /\ d.id = i /\ d.row.state = "starting"
    BY <1>2 DEF Change, Row, States, OwnRows
<1>4. D \in Daemons /\ D.pc = "starting" /\ D.now = i /\ D.todo = daemon[b].todo \ {i}
    BY <1>2 DEF Daemons
<1>5. daemon' = [daemon EXCEPT ![b] = D] /\ active' = [active EXCEPT ![b] = active[b]]
    BY <1>1 DEF StartNext, HostInv, HostTypeOK
<1>6. edit' = [edit EXCEPT ![b] = [kind |-> "edit", seen |-> file, change |-> d]] /\ ~Pending(b) /\ Alive(b)
    BY <1>1, <1>2 DEF Status, Read, Pending, Alive
<1>7. UNCHANGED <<file, raced, doubled>>
    BY DEF StartNext
<1>8. D.todo \cap DOMAIN active[b] = {} /\ D.now \notin D.todo \cup DOMAIN active[b]
    BY <1>2, <1>4 DEF HostInv, Launching
<1>9. ~raced /\ ~doubled => \A k \in Ids : /\ file.row[k] = Online(b) => k \in DOMAIN active[b]
                                           /\ k \in DOMAIN active[b] => file.row[k].state \notin {"offline", "failed"}
    BY <1>2 DEF HostInv, Told, Serving, RowFits
<1>10. LaunchesOnce(D, active[b], d) /\ (~raced /\ ~doubled => Honest(b, active[b], d))
    <2> HIDE DEF d, D
    <2>1. LaunchesOnce(D, active[b], d)
        BY <1>3, <1>4, <1>8, <1>9 DEF LaunchesOnce
    <2>2. ASSUME ~raced, ~doubled PROVE Honest(b, active[b], d)
        BY <2>2, <1>3, <1>4, <1>8, <1>9 DEF Honest
    <2> QED
        BY <2>1, <2>2
<1> HIDE DEF d, D
<1> QED
    BY <1>2, <1>3, <1>4, <1>5, <1>6, <1>7, <1>10, DaemonReads

\* What the catalog loads for a runtime is a set of consumers.
LEMMA LoadedConsumers ==
    ASSUME CatalogInv, NEW cs \in SUBSET Channels
    PROVE  Loaded(entry, cs) \in Consumers
<1> DEFINE vs == EnabledFor(entry, cs)
<1>1. vs \subseteq Installed(entry) /\ vs \subseteq Versions /\ IsFiniteSet(Installed(entry))
    BY DEF EnabledFor, Installed, CatalogInv, Finite
<1>2. vs # {} => Latest(vs) \in Versions
    BY <1>1, FS_Subset, LatestIsOne
<1> HIDE DEF vs
<1> QED
    BY <1>2 DEF Loaded, Consumers, Carried, Bindings, vs

\* A launched runtime is active before online is written.
LEMMA LaunchDoneKeeps ==
    ASSUME HostInv, CatalogInv, NEW b \in Boots, LaunchDone(b)
    PROVE  HostInv'
<1> DEFINE i == daemon[b].now
<1> DEFINE L == Loaded(entry, Carries[i])
<1> DEFINE d == [kind |-> "status", id |-> i, row |-> [state |-> "online", by |-> b]]
<1> DEFINE D == [daemon[b] EXCEPT !.now = None]
<1> DEFINE A == [k \in DOMAIN active[b] \cup {i} |-> IF k = i THEN L ELSE active[b][k]]
<1>1. daemon[b] \in Daemons /\ daemon[b].pc = "starting" /\ active[b] \in Loads /\ i \in Ids
    BY DEF LaunchDone, HostInv, HostTypeOK, Daemons, Loads
<1>2. L \in Consumers
    BY <1>1, HostAssumption, LoadedConsumers
<1>3. d \in Change /\ d.kind = "status" /\ d.row \in OwnRows(b) /\ d.id = i /\ d.row.state = "online"
    BY <1>1 DEF Change, Row, States, OwnRows, Online
<1>4. D \in Daemons /\ D.pc = "starting" /\ D.now = None /\ D.todo = daemon[b].todo
    BY <1>1 DEF Daemons
<1>5. A \in Loads /\ DOMAIN A = DOMAIN active[b] \cup {i}
    <2> HIDE DEF L, i
    <2>1. PICK S \in SUBSET Ids : active[b] \in [S -> Consumers]
        BY <1>1 DEF Loads
    <2>2. A \in [S \cup {i} -> Consumers] /\ S \cup {i} \in SUBSET Ids
        BY <1>1, <1>2, <2>1
    <2> QED
        BY <2>1, <2>2 DEF Loads
<1>6. daemon' = [daemon EXCEPT ![b] = D] /\ active' = [active EXCEPT ![b] = A]
    BY DEF LaunchDone, HostInv, HostTypeOK
<1>7. edit' = [edit EXCEPT ![b] = [kind |-> "edit", seen |-> file, change |-> d]] /\ ~Pending(b) /\ Alive(b)
    BY <1>1 DEF LaunchDone, Status, Read, Pending, Alive
<1>8. UNCHANGED <<file, raced, doubled>>
    BY DEF LaunchDone
<1>9. D.todo \cap DOMAIN A = {} /\ D.now \notin D.todo \cup DOMAIN A
    <2>1. None \notin Ids
        BY HostAssumption DEF None
    <2>2. daemon[b].todo \subseteq Ids /\ DOMAIN active[b] \subseteq Ids
        BY <1>1 DEF Daemons, Loads
    <2> QED
        BY <1>1, <1>4, <1>5, <2>1, <2>2 DEF HostInv, Launching
<1>10. ~raced /\ ~doubled => \A k \in Ids : /\ file.row[k] = Online(b) => k \in DOMAIN A
                                            /\ k \in DOMAIN A => file.row[k].state \notin {"offline", "failed"}
    <2> SUFFICES ASSUME ~raced, ~doubled, NEW k \in Ids
                 PROVE  /\ file.row[k] = Online(b) => k \in DOMAIN A
                        /\ k \in DOMAIN A => file.row[k].state \notin {"offline", "failed"}
        OBVIOUS
    <2>1. RowFits(b, k)
        BY <1>1 DEF HostInv, Told, Serving
    <2> QED
        BY <2>1, <1>5, <1>7 DEF RowFits
<1>11. LaunchesOnce(D, A, d) /\ (~raced /\ ~doubled => Honest(b, A, d))
    <2> HIDE DEF d, D, A
    <2>1. LaunchesOnce(D, A, d)
        BY <1>3, <1>4, <1>5, <1>9, <1>10 DEF LaunchesOnce
    <2>2. ASSUME ~raced, ~doubled PROVE Honest(b, A, d)
        BY <2>2, <1>3, <1>4, <1>5, <1>9, <1>10 DEF Honest
    <2> QED
        BY <2>1, <2>2
<1> HIDE DEF d, D, A
<1> QED
    BY <1>1, <1>3, <1>4, <1>5, <1>6, <1>7, <1>8, <1>11, DaemonReads

\* A runtime that cannot be launched is reported as failed.
LEMMA LaunchFailsKeeps ==
    ASSUME HostInv, NEW b \in Boots, LaunchFails(b)
    PROVE  HostInv'
<1> DEFINE i == daemon[b].now
<1> DEFINE d == [kind |-> "status", id |-> i, row |-> [state |-> "failed", by |-> b]]
<1> DEFINE D == [daemon[b] EXCEPT !.now = None]
<1>1. daemon[b] \in Daemons /\ daemon[b].pc = "starting" /\ active[b] \in Loads /\ i \in Ids
    BY DEF LaunchFails, HostInv, HostTypeOK, Daemons, Loads
<1>2. d \in Change /\ d.kind = "status" /\ d.row \in OwnRows(b) /\ d.id = i /\ d.row.state = "failed"
    BY <1>1 DEF Change, Row, States, OwnRows
<1>3. D \in Daemons /\ D.pc = "starting" /\ D.now = None /\ D.todo = daemon[b].todo
    BY <1>1 DEF Daemons
<1>4. daemon' = [daemon EXCEPT ![b] = D] /\ active' = [active EXCEPT ![b] = active[b]]
    BY DEF LaunchFails, HostInv, HostTypeOK
<1>5. edit' = [edit EXCEPT ![b] = [kind |-> "edit", seen |-> file, change |-> d]] /\ ~Pending(b) /\ Alive(b)
    BY <1>1 DEF LaunchFails, Status, Read, Pending, Alive
<1>6. UNCHANGED <<file, raced, doubled>>
    BY DEF LaunchFails
<1>7. D.todo \cap DOMAIN active[b] = {} /\ D.now \notin D.todo \cup DOMAIN active[b] /\ i \notin DOMAIN active[b]
    <2>1. None \notin Ids
        BY HostAssumption DEF None
    <2>2. daemon[b].todo \subseteq Ids /\ DOMAIN active[b] \subseteq Ids
        BY <1>1 DEF Daemons, Loads
    <2> QED
        BY <1>1, <1>3, <2>1, <2>2 DEF HostInv, Launching
<1>8. ~raced /\ ~doubled => \A k \in Ids : /\ file.row[k] = Online(b) => k \in DOMAIN active[b]
                                           /\ k \in DOMAIN active[b] => file.row[k].state \notin {"offline", "failed"}
    BY <1>1 DEF HostInv, Told, Serving, RowFits
<1>9. LaunchesOnce(D, active[b], d) /\ (~raced /\ ~doubled => Honest(b, active[b], d))
    <2> HIDE DEF d, D
    <2>1. LaunchesOnce(D, active[b], d)
        BY <1>2, <1>3, <1>7, <1>8 DEF LaunchesOnce
    <2>2. ASSUME ~raced, ~doubled PROVE Honest(b, active[b], d)
        BY <2>2, <1>2, <1>3, <1>7, <1>8 DEF Honest
    <2> QED
        BY <2>1, <2>2
<1> HIDE DEF d, D
<1> QED
    BY <1>1, <1>2, <1>3, <1>4, <1>5, <1>6, <1>9, DaemonReads

\* A heartbeat writes online for what is active.
LEMMA HeartbeatKeeps ==
    ASSUME HostInv, NEW b \in Boots, Heartbeat(b)
    PROVE  HostInv'
<1>1. PICK i \in Beating(b) : Status(b, i, "online", b)
    BY DEF Heartbeat
<1> DEFINE d == [kind |-> "status", id |-> i, row |-> [state |-> "online", by |-> b]]
<1>2. /\ daemon[b] \in Daemons /\ daemon[b].pc = "running" /\ daemon[b].now = None
      /\ active[b] \in Loads /\ i \in Ids /\ i \in DOMAIN active[b]
    BY <1>1 DEF Heartbeat, Beating, HostInv, HostTypeOK, Launching, Daemons, Loads
<1>3. d \in Change /\ d.kind = "status" /\ d.row \in OwnRows(b) /\ d.id = i /\ d.row.state = "online"
    BY <1>2 DEF Change, Row, States, OwnRows, Online
<1>4. daemon' = [daemon EXCEPT ![b] = daemon[b]] /\ active' = [active EXCEPT ![b] = active[b]]
    BY DEF Heartbeat, HostInv, HostTypeOK
<1>5. edit' = [edit EXCEPT ![b] = [kind |-> "edit", seen |-> file, change |-> d]] /\ ~Pending(b) /\ Alive(b)
    BY <1>1, <1>2 DEF Status, Read, Pending, Alive
<1>6. UNCHANGED <<file, raced, doubled>>
    BY DEF Heartbeat
<1>7. ~raced /\ ~doubled => \A k \in Ids : /\ file.row[k] = Online(b) => k \in DOMAIN active[b]
                                           /\ k \in DOMAIN active[b] => file.row[k].state \notin {"offline", "failed"}
    BY <1>2 DEF HostInv, Told, Serving, RowFits
<1>8. LaunchesOnce(daemon[b], active[b], d) /\ (~raced /\ ~doubled => Honest(b, active[b], d))
    <2> HIDE DEF d
    <2>1. LaunchesOnce(daemon[b], active[b], d)
        BY <1>2, <1>3, <1>7 DEF LaunchesOnce
    <2>2. ASSUME ~raced, ~doubled PROVE Honest(b, active[b], d)
        BY <2>2, <1>2, <1>3, <1>7 DEF Honest
    <2> QED
        BY <2>1, <2>2
<1> HIDE DEF d
<1> QED
    BY <1>2, <1>3, <1>4, <1>5, <1>6, <1>8, DaemonReads

\* A runtime that is closed is active no more when offline is written.
LEMMA CloseNextKeeps ==
    ASSUME HostInv, NEW b \in Boots, CloseNext(b)
    PROVE  HostInv'
<1>1. PICK i \in DOMAIN active[b] :
        /\ active' = [active EXCEPT ![b] = [k \in DOMAIN @ \ {i} |-> @[k]]]
        /\ Status(b, i, "offline", Nobody)
    BY DEF CloseNext
<1> DEFINE d == [kind |-> "status", id |-> i, row |-> [state |-> "offline", by |-> Nobody]]
<1> DEFINE A == [k \in DOMAIN active[b] \ {i} |-> active[b][k]]
<1>2. /\ daemon[b] \in Daemons /\ daemon[b].pc = "stopping" /\ daemon[b].now = None /\ active[b] \in Loads /\ i \in Ids
    BY DEF CloseNext, HostInv, HostTypeOK, Launching, Daemons, Loads
<1>3. d \in Change /\ d.kind = "status" /\ d.row \in OwnRows(b)
    BY <1>2 DEF Change, Row, States, OwnRows
<1>4. A \in Loads
    <2>1. PICK S \in SUBSET Ids : active[b] \in [S -> Consumers]
        BY <1>2 DEF Loads
    <2>2. A \in [S \ {i} -> Consumers] /\ S \ {i} \in SUBSET Ids
        BY <2>1
    <2> QED
        BY <2>2 DEF Loads
<1>5. daemon' = [daemon EXCEPT ![b] = daemon[b]] /\ active' = [active EXCEPT ![b] = A]
    BY <1>1 DEF CloseNext, HostInv, HostTypeOK
<1>6. edit' = [edit EXCEPT ![b] = [kind |-> "edit", seen |-> file, change |-> d]] /\ ~Pending(b) /\ Alive(b)
      /\ ~Serving(b)
    BY <1>1, <1>2 DEF Status, Read, Pending, Alive, Serving
<1>7. UNCHANGED <<file, raced, doubled>>
    BY DEF CloseNext
<1>8. LaunchesOnce(daemon[b], A, d)
    BY <1>2 DEF LaunchesOnce
<1> HIDE DEF d, A
<1> QED
    BY <1>2, <1>3, <1>4, <1>5, <1>6, <1>7, <1>8, DaemonReads

\* A daemon boots with nothing active.
LEMMA BootKeeps ==
    ASSUME HostInv, NEW b \in Boots, Boot(b)
    PROVE  HostInv'
<1> DEFINE D == [pc |-> "starting", todo |-> file.trusted, now |-> None]
<1>1. D \in Daemons /\ D.pc = "starting" /\ D.now = None /\ D.todo \subseteq Ids
    BY DEF Daemons, HostInv, HostTypeOK, File
<1>2. daemon' = [daemon EXCEPT ![b] = D] /\ UNCHANGED <<file, edit, active, raced>> /\ daemon[b].pc = "new"
    BY DEF Boot
<1>3. daemon'[b] = D /\ \A a \in Boots \ {b} : daemon'[a] = daemon[a]
    BY <1>2 DEF HostInv, HostTypeOK
<1>4. doubled' \in BOOLEAN /\ (~doubled' => ~doubled /\ \A a \in Boots : ~Alive(a))
    <2>1. doubled' = (doubled \/ \E a \in Boots : Alive(a))
        BY DEF Boot
    <2> QED
        BY <2>1, Zenon
<1> HIDE DEF D
<1>5. ~Pending(b) /\ DOMAIN active[b] = {}
    BY <1>2 DEF HostInv, Editors, Alive
<1>6. HostTypeOK'
    <2>1. daemon' \in [Boots -> Daemons]
        BY <1>1, <1>2 DEF HostInv, HostTypeOK, Daemons
    <2> QED
        BY <1>2, <1>4, <2>1 DEF HostInv, HostTypeOK, Daemons
<1>7. Editors'
    BY <1>1, <1>2, <1>3 DEF HostInv, Editors, Alive, Pending
<1>8. Launching'
    <2>1. None \notin Ids
        BY HostAssumption DEF None
    <2> QED
        BY <1>1, <1>2, <1>3, <1>5, <2>1 DEF HostInv, Launching, Pending
<1>9. ~raced' => Current'
    BY <1>2 DEF HostInv, Current, Pending
<1>10. ~doubled' => OneAlive'
    BY <1>3, <1>4 DEF OneAlive, Alive
<1>11. ASSUME ~raced', ~doubled' PROVE Told'
    <2>1. Told
        BY <1>2, <1>4, <1>11 DEF HostInv
    <2>2. \A a \in Boots \ {b} : (daemon[a].pc = "new" => \A i \in Ids : file.row[i].by # a)' /\ ~Serving(a)'
        BY <2>1, <1>2, <1>3, <1>4, <1>11 DEF Told, Alive, Serving
    <2>3. \A i \in Ids : file.row[i] # Online(b)
        BY <2>1, <1>2 DEF Told, Online
    <2>4. EditFits(b)' /\ \A i \in Ids : RowFits(b, i)'
        <3>1. None \notin Ids
            BY HostAssumption DEF None
        <3>2. file' = file /\ Online(b)' = Online(b)
            BY <1>2 DEF Online
        <3> QED
            BY <2>3, <3>1, <3>2, <1>1, <1>2, <1>3, <1>5 DEF EditFits, RowFits, Pending
    <2> QED
        BY <2>2, <2>4, <1>1, <1>3 DEF Told
<1> QED
    BY <1>6, <1>7, <1>8, <1>9, <1>10, <1>11 DEF HostInv

\* The list of the runtimes to launch is empty.
LEMMA StartedKeeps ==
    ASSUME HostInv, NEW b \in Boots, Started(b)
    PROVE  HostInv'
<1> DEFINE D == [daemon[b] EXCEPT !.pc = "running"]
<1>1. D \in Daemons /\ D.pc = "running" /\ D.now = None /\ daemon[b].now = None /\ daemon[b].pc = "starting"
    BY DEF Daemons, HostInv, HostTypeOK, Started
<1>2. daemon' = [daemon EXCEPT ![b] = D] /\ UNCHANGED <<file, edit, active, raced, doubled>>
    BY DEF Started
<1>3. daemon'[b] = D /\ \A a \in Boots \ {b} : daemon'[a] = daemon[a]
    BY <1>2 DEF HostInv, HostTypeOK
<1> HIDE DEF D
<1>4. HostTypeOK'
    <2>1. daemon' \in [Boots -> Daemons]
        BY <1>1, <1>2 DEF HostInv, HostTypeOK, Daemons
    <2> QED
        BY <1>2, <2>1 DEF HostInv, HostTypeOK, Daemons
<1>5. Editors' /\ Launching'
    BY <1>1, <1>2, <1>3 DEF HostInv, Editors, Launching, Alive, Pending
<1>6. (~raced' => Current') /\ (~doubled' => OneAlive')
    BY <1>1, <1>2, <1>3 DEF HostInv, Current, Pending, OneAlive, Alive
<1>7. ASSUME ~raced', ~doubled' PROVE Told'
    BY <1>1, <1>2, <1>3, <1>7 DEF HostInv, Told, Serving, EditFits, RowFits, Pending
<1> QED
    BY <1>4, <1>5, <1>6, <1>7 DEF HostInv

\* A daemon told to stop closes what it runs.
LEMMA StopKeeps ==
    ASSUME HostInv, NEW b \in Boots, Stop(b)
    PROVE  HostInv'
<1> DEFINE D == [daemon[b] EXCEPT !.pc = "stopping"]
<1>1. D \in Daemons /\ D.pc = "stopping" /\ D.now = None /\ daemon[b].pc = "running"
    BY DEF Daemons, HostInv, HostTypeOK, Launching, Stop
<1>2. daemon' = [daemon EXCEPT ![b] = D] /\ UNCHANGED <<file, edit, active, raced, doubled>>
    BY DEF Stop
<1>3. daemon'[b] = D /\ \A a \in Boots \ {b} : daemon'[a] = daemon[a]
    BY <1>2 DEF HostInv, HostTypeOK
<1> HIDE DEF D
<1>4. HostTypeOK'
    <2>1. daemon' \in [Boots -> Daemons]
        BY <1>1, <1>2 DEF HostInv, HostTypeOK, Daemons
    <2> QED
        BY <1>2, <2>1 DEF HostInv, HostTypeOK, Daemons
<1>5. Editors' /\ Launching'
    BY <1>1, <1>2, <1>3 DEF HostInv, Editors, Launching, Alive, Pending
<1>6. (~raced' => Current') /\ (~doubled' => OneAlive')
    BY <1>1, <1>2, <1>3 DEF HostInv, Current, Pending, OneAlive, Alive
<1>7. ASSUME ~raced', ~doubled' PROVE Told'
    BY <1>1, <1>2, <1>3, <1>7 DEF HostInv, Told, Serving, EditFits, RowFits, Pending
<1> QED
    BY <1>4, <1>5, <1>6, <1>7 DEF HostInv

\* A daemon that is gone takes its runtimes and its edit along.
LEMMA GoneKeeps ==
    ASSUME HostInv, NEW b \in Boots, Gone(b)
    PROVE  HostInv'
<1> DEFINE D == [pc |-> "gone", todo |-> {}, now |-> None]
<1>1. D \in Daemons /\ D.pc = "gone" /\ D.now = None
    BY DEF Daemons
<1>2. /\ daemon' = [daemon EXCEPT ![b] = D] /\ active' = [active EXCEPT ![b] = << >>]
      /\ edit' = [edit EXCEPT ![b] = NoEdit] /\ UNCHANGED <<file, raced, doubled>>
    BY DEF Gone
<1>3. /\ daemon'[b] = D /\ active'[b] = << >> /\ edit'[b] = NoEdit
      /\ \A a \in Boots \ {b} : daemon'[a] = daemon[a] /\ active'[a] = active[a]
      /\ \A p \in Procs \ {b} : edit'[p] = edit[p]
    BY <1>2 DEF HostInv, HostTypeOK, Procs
<1> HIDE DEF D
<1>4. HostTypeOK'
    <2>1. daemon' \in [Boots -> Daemons]
        BY <1>1, <1>2 DEF HostInv, HostTypeOK, Daemons
    <2>2. << >> \in Loads
        <3>1. << >> \in [{} -> Consumers]
            OBVIOUS
        <3>2. {} \in SUBSET Ids
            OBVIOUS
        <3> QED
            BY <3>1, <3>2 DEF Loads
    <2>3. active' \in [Boots -> Loads]
        BY <1>2, <2>2 DEF HostInv, HostTypeOK, Loads
    <2>4. edit' \in [Procs -> {NoEdit} \cup Edits]
        BY <1>2 DEF HostInv, HostTypeOK, Edits
    <2> QED
        BY <1>2, <2>1, <2>3, <2>4 DEF HostInv, HostTypeOK, Daemons, Loads, Edits
<1>5. \A x \in Clis : x \in Procs \ {b}
    BY HostAssumption DEF Procs
<1>6. Editors' /\ Launching'
    <2>1. DOMAIN active'[b] = {}
        BY <1>3
    <2> QED
        BY <1>1, <1>3, <1>5, <2>1 DEF HostInv, Editors, Launching, Alive, Pending, Procs
<1>7. (~raced' => Current') /\ (~doubled' => OneAlive')
    BY <1>1, <1>2, <1>3 DEF HostInv, Current, Pending, OneAlive, Alive
<1>8. ASSUME ~raced', ~doubled' PROVE Told'
    <2>1. Told
        BY <1>2, <1>8 DEF HostInv
    <2> QED
        BY <2>1, <1>1, <1>2, <1>3 DEF Told, Serving, EditFits, RowFits, Pending, Procs, Online
<1> QED
    BY <1>4, <1>6, <1>7, <1>8 DEF HostInv

\* A command line reads the file before it changes it.
LEMMA CommandReads ==
    ASSUME HostInv, NEW x \in Clis, NEW d \in Change, d.kind \in {"register", "remove"}, Read(x, d),
           UNCHANGED <<file, daemon, active, raced, doubled>>
    PROVE  HostInv'
<1> DEFINE e == [kind |-> "edit", seen |-> file, change |-> d]
<1>1. e \in Edits /\ e # NoEdit /\ e.seen = file /\ e.change = d
    BY DEF HostInv, HostTypeOK, Edits, NoEdit
<1>2. edit' = [edit EXCEPT ![x] = e] /\ edit'[x] = e /\ \A p \in Procs \ {x} : edit'[p] = edit[p]
    BY DEF Read, HostInv, HostTypeOK, Procs
<1> HIDE DEF e
<1>3. \A b \in Boots : b \in Procs \ {x}
    BY HostAssumption DEF Procs
<1>4. HostTypeOK'
    BY <1>1, <1>2 DEF HostInv, HostTypeOK, Edits
<1>5. Editors' /\ Launching'
    BY <1>1, <1>2, <1>3 DEF HostInv, Editors, Launching, Alive, Pending, Procs
<1>6. (~raced' => Current') /\ (~doubled' => OneAlive')
    BY <1>1, <1>2 DEF HostInv, Current, Pending, OneAlive, Alive, Procs
<1>7. (~raced' /\ ~doubled') => Told'
    BY <1>2, <1>3 DEF HostInv, Told, Serving, EditFits, RowFits, Pending, Online
<1> QED
    BY <1>4, <1>5, <1>6, <1>7 DEF HostInv

\* The file is replaced by what was made of the one that was read.
LEMMA WriteKeeps ==
    ASSUME HostInv, NEW p \in Procs, Write(p)
    PROVE  HostInv'
<1> DEFINE d == edit[p].change
<1> DEFINE f == edit[p].seen
<1>1. edit[p] \in Edits /\ d \in Change /\ f \in File /\ Pending(p)
    BY EditKinds DEF HostInv, Write, Pending
<1>2. file' = Edited(f, d) /\ edit' = [edit EXCEPT ![p] = NoEdit] /\ UNCHANGED <<daemon, active, doubled>>
    BY DEF Write
<1>3. edit'[p] = NoEdit /\ \A q \in Procs \ {p} : edit'[q] = edit[q]
    BY <1>2 DEF HostInv, HostTypeOK
<1>4. raced' \in BOOLEAN /\ (~raced' => ~raced /\ \A q \in Procs \ {p} : ~Pending(q))
    <2>1. raced' = (raced \/ \E q \in Procs \ {p} : edit[q] # NoEdit)
        BY DEF Write
    <2> QED
        BY <2>1, Zenon DEF Pending
<1>5. HostTypeOK'
    <2>1. file' \in File
        BY <1>1, <1>2, EditedRows
    <2>2. edit' \in [Procs -> {NoEdit} \cup Edits]
        BY <1>2 DEF HostInv, HostTypeOK, Edits
    <2> QED
        BY <1>2, <1>4, <2>1, <2>2 DEF HostInv, HostTypeOK, Edits
<1>6. Editors' /\ Launching'
    BY <1>2, <1>3 DEF HostInv, Editors, Launching, Alive, Pending, Procs
<1>7. ~raced' => \A q \in Procs : ~Pending(q)'
    BY <1>3, <1>4 DEF Pending
<1>8. (~raced' => Current') /\ (~doubled' => OneAlive')
    BY <1>2, <1>7 DEF HostInv, Current, OneAlive, Alive
<1>9. ASSUME ~raced', ~doubled' PROVE Told'
    <2>1. Told /\ OneAlive /\ f = file
        BY <1>1, <1>2, <1>4, <1>9 DEF HostInv, Current
    <2>2. d.id \in Ids /\ \A i \in Ids : file'.row[i] =
            IF d.kind = "register" \/ i # d.id THEN file.row[i] ELSE IF d.kind = "remove" THEN NoRow ELSE d.row
        BY <1>1, <1>2, <2>1, EditedRows
    <2>3. \A b \in Boots : ~Pending(b)'
        BY <1>7, <1>9 DEF Procs
    <2>4. CASE p \in Clis
        <3>1. d.kind \in {"register", "remove"}
            BY <2>4, <1>1 DEF HostInv, Editors
        <3>2. \A i \in Ids : file'.row[i] \in {file.row[i], NoRow}
            BY <2>2, <3>1
        <3>3. \A b \in Boots : b \in Procs /\ b # p /\ ~Pending(b)
            BY <2>4, <1>4, <1>9, HostAssumption DEF Procs
        <3>4. \A b \in Boots : NoRow.by # b /\ NoRow # Online(b) /\ NoRow.state = "none"
            BY HostAssumption DEF NoRow, Online, Nobody
        <3>5. \A b \in Boots, i \in Ids : Serving(b) => RowFits(b, i)'
            <4> SUFFICES ASSUME NEW b \in Boots, NEW i \in Ids, Serving(b) PROVE RowFits(b, i)'
                OBVIOUS
            <4>1. RowFits(b, i)
                BY <2>1 DEF Told
            <4> QED
                BY <4>1, <3>2, <3>3, <3>4, <1>2 DEF RowFits, Online
        <3>6. \A b \in Boots : daemon[b].pc = "new" => \A i \in Ids : file'.row[i].by # b
            BY <2>1, <3>2, <3>4 DEF Told
        <3> QED
            BY <3>5, <3>6, <2>3, <1>2 DEF Told, Serving, EditFits
    <2>5. CASE p \in Boots
        <3>1. Alive(p) /\ d.kind = "status" /\ d.row \in OwnRows(p)
            BY <2>5, <1>1 DEF HostInv, Editors
        <3>2. \A b \in Boots \ {p} : ~Serving(b) /\ ~Alive(b)
            BY <2>1, <2>5, <3>1 DEF OneAlive, Alive, Serving
        <3>3. \A b \in Boots : daemon[b].pc = "new" => \A i \in Ids : file'.row[i].by # b
            <4>1. \A b \in Boots \ {p} : d.row.by # b
                BY <3>1, HostAssumption DEF OwnRows, Online, Nobody
            <4>2. \A b \in Boots : daemon[b].pc = "new" => b # p
                BY <3>1 DEF Alive
            <4> QED
                BY <4>1, <4>2, <2>1, <2>2, <3>1 DEF Told
        <3>4. ASSUME Serving(p), NEW i \in Ids PROVE RowFits(p, i)'
            <4>1. RowFits(p, i) /\ EditFits(p)
                BY <3>4, <2>1, <2>5 DEF Told
            <4>2. i # d.id => file'.row[i] = file.row[i]
                BY <2>2
            <4>3. i = d.id => file'.row[i] = d.row
                BY <2>2, <3>1
            <4>4. CASE i # d.id
                <5>1. daemon[p].now # i
                    <6>1. daemon[p].pc = "starting" /\ daemon[p].now # None => d.id = daemon[p].now
                        BY <2>5, <1>1 DEF HostInv, Launching
                    <6>2. daemon[p].pc # "starting" => daemon[p].now = None
                        BY <2>5 DEF HostInv, Launching
                    <6>3. None \notin Ids
                        BY HostAssumption DEF None
                    <6> QED
                        BY <6>1, <6>2, <6>3, <4>4
                <5> QED
                    BY <5>1, <4>1, <4>2, <4>4, <1>2 DEF RowFits, Online
            <4>5. CASE i = d.id
                <5>1. d.row.state = "online" => i \in DOMAIN active[p]
                    BY <4>1, <4>5, <1>1 DEF EditFits
                <5>2. d.row.state \in {"offline", "failed"} => i \notin DOMAIN active[p]
                    BY <4>1, <4>5, <1>1 DEF EditFits
                <5>3. daemon[p].now = i => d.row.state = "starting"
                    <6>1. None \notin Ids
                        BY HostAssumption DEF None
                    <6> QED
                        BY <6>1, <2>5, <1>1 DEF HostInv, Launching
                <5>4. d.row = Online(p) => d.row.state = "online"
                    BY DEF Online
                <5> QED
                    BY <5>1, <5>2, <5>3, <5>4, <4>3, <4>5, <1>2 DEF RowFits, Online
            <4> QED
                BY <4>4, <4>5
        <3> QED
            BY <3>2, <3>3, <3>4, <2>3, <1>2 DEF Told, Serving, EditFits
    <2> QED
        BY <2>4, <2>5 DEF Procs
<1> QED
    BY <1>5, <1>6, <1>8, <1>9 DEF HostInv

\* Every step of the host keeps its invariant.
LEMMA HostStepKeeps ==
    ASSUME HostInv, CatalogInv, [Next]_vars
    PROVE  HostInv'
<1>1. CASE UNCHANGED hostVars
    BY <1>1 DEF hostVars, HostInv, HostTypeOK, Editors, Launching, Current, OneAlive, Told, Alive, Serving, Pending,
                RowFits, EditFits
<1>2. ASSUME NEW b \in Boots, DaemonStep(b) PROVE HostInv'
    <2>1. b \in Procs
        BY DEF Procs
    <2> QED
        BY <1>2, <2>1, WriteKeeps, BootKeeps, StartNextKeeps, LaunchDoneKeeps, LaunchFailsKeeps, StartedKeeps,
           HeartbeatKeeps, StopKeeps, CloseNextKeeps, GoneKeeps DEF DaemonStep, Stopped, Crash, DaemonStop
<1>3. ASSUME NEW x \in Clis, Write(x) PROVE HostInv'
    BY <1>3, WriteKeeps DEF Procs
<1>4. ASSUME NEW x \in Clis, NEW i \in Ids, NEW t \in BOOLEAN, RuntimeRemove(x, i) \/ RuntimeAdd(x, i, t)
      PROVE  HostInv'
    <2>1. CASE RuntimeRemove(x, i)
        <3>1. [kind |-> "remove", id |-> i] \in Change
            BY DEF Change
        <3> QED
            BY <2>1, <3>1, CommandReads DEF RuntimeRemove
    <2>2. CASE RuntimeAdd(x, i, t)
        <3>1. [kind |-> "register", id |-> i, trusted |-> t] \in Change
            BY DEF Change
        <3> QED
            BY <2>2, <3>1, CommandReads DEF RuntimeAdd
    <2> QED
        BY <1>4, <2>1, <2>2
<1> QED
    BY <1>1, <1>2, <1>3, <1>4 DEF Next, vars

\* The invariant of the host holds in every reachable state.
LEMMA HostInvHolds == Spec => []HostInv
<1>1. Init => HostInv
    <2> SUFFICES ASSUME Init PROVE HostInv
        OBVIOUS
    <2>1. HostTypeOK
        <3>1. << >> \in Loads
            <4>1. << >> \in [{} -> Consumers] /\ {} \in SUBSET Ids
                OBVIOUS
            <4> QED
                BY <4>1 DEF Loads
        <3>2. active \in [Boots -> Loads]
            BY <3>1 DEF Init
        <3>3. file \in File
            BY DEF Init, File
        <3> QED
            BY <3>2, <3>3 DEF Init, HostTypeOK, Loads
    <2>2. \A b \in Boots : daemon[b].pc = "new" /\ daemon[b].now = None /\ DOMAIN active[b] = {} /\ b \in Procs
        BY DEF Init, Procs
    <2>3. \A p \in Procs : ~Pending(p)
        BY DEF Init, Pending
    <2>4. \A b \in Boots, i \in Ids : file.row[i].by # b
        BY HostAssumption DEF Init, NoRow, Nobody
    <2> QED
        BY <2>1, <2>2, <2>3, <2>4 DEF HostInv, Editors, Launching, Current, OneAlive, Told, Alive, Serving, Procs
<1>2. HostInv /\ CatalogInv /\ [Next]_vars => HostInv'
    BY HostStepKeeps
<1> QED
    BY <1>1, <1>2, CatalogInvHolds, PTL DEF Spec

\* What runtime list shows of a runtime that is running, or not, is true unless the file was
\* raced for or two daemons ran.
THEOREM StatusTruthfulHolds == Spec => []StatusTruthful
<1>1. HostInv => StatusTruthful
    BY DEF HostInv, Told, Serving, RowFits, Online, StatusTruthful
<1> QED
    BY <1>1, HostInvHolds, PTL

\* Without a race only remove takes a registration out of the file.
THEOREM RegistrationKeptHolds == Spec => RegistrationKept
<1> DEFINE Kept2 == ~raced' => \A i \in file.registered :
        \/ i \in file'.registered
        \/ \E p \in Procs : edit[p] # NoEdit /\ edit[p].change = [kind |-> "remove", id |-> i]
<1>1. HostInv /\ [Next]_vars => [Kept2]_file
    <2> SUFFICES ASSUME HostInv, [Next]_vars, file' # file PROVE Kept2
        OBVIOUS
    <2>1. PICK p \in Procs : Write(p)
        BY DEF Next, vars, hostVars, DaemonStep, Boot, StartNext, LaunchDone, LaunchFails, Started, Heartbeat, Stop,
               CloseNext, Stopped, Crash, DaemonStop, Gone, RuntimeRemove, RuntimeAdd, Procs
    <2>2. edit[p] \in Edits /\ edit[p].change \in Change /\ Pending(p)
        BY <2>1, EditKinds DEF HostInv, Write, Pending
    <2> SUFFICES ASSUME ~raced', NEW i \in file.registered
                 PROVE  i \in file'.registered \/ edit[p].change = [kind |-> "remove", id |-> i]
        BY <2>2 DEF Pending
    <2>3. raced' = (raced \/ \E q \in Procs \ {p} : edit[q] # NoEdit)
        BY <2>1 DEF Write
    <2>4. ~raced
        BY <2>3, Zenon
    <2>5. edit[p].seen = file /\ file \in File
        BY <2>2, <2>4 DEF HostInv, HostTypeOK, Current
    <2>6. file' = Edited(file, edit[p].change)
        BY <2>1, <2>5 DEF Write
    <2> QED
        BY <2>2, <2>5, <2>6, EditedRows
<1> QED
    BY <1>1, HostInvHolds, PTL DEF Spec, RegistrationKept

-----------------------------------------------------------------------------
(***************************************************************************)
(* The turns of the app server.  OutcomeFits is not inductive: what will   *)
(* be reported depends on the lines the child has written and nobody has   *)
(* read.  TurnsInv follows a turn from the request to the completion that  *)
(* is read, and says which of the two maps finds its event there.          *)
(***************************************************************************)
\* Event s is queued before event e on one channel.
Before(s, e) == \E c \in Inboxes : \E i, j \in DOMAIN Inbox[c] : i < j /\ s = Inbox[c][i] /\ e = Inbox[c][j]
Written(kind, t) == \E i \in DOMAIN stdout : stdout[i].kind = kind /\ stdout[i].turn = t
Awaited(t) == Running(t) \/ Written("completed", t)
InHand == offer.step \in Steps

\* The app server took the turn of the event that is handed to it, and the adapter will know.
Replied(t) == offer.event = t /\ (At("replied") \/ (At("asked") /\ Written("reply", t)))

\* An event gets one turn: its channel gets one thread, which dies with the child.
OneTurn ==
    /\ child # "running" => known = {}
    /\ At("thread") \/ At("opening") => ChannelOf(offer.event) \notin cached
    /\ At("asked") => ChannelOf(offer.event) \in cached
    /\ InHand => offer.event \notin accepted
    /\ \A t \in Events :
        /\ turn[t] # "none" => ChannelOf(t) \in cached
        /\ Running(t) => ChannelOf(t) \in known
        /\ turn[t] # "none" /\ ChannelOf(t) \in known => t \in accepted \/ Replied(t)

\* What can be read: one answer, to the request that waits, and one completion of each turn.
Readable ==
    /\ \A i \in DOMAIN stdout :
        /\ stdout[i].kind \in {"reply", "error"} => (At("asked") \/ At("opening")) /\ stdout[i].turn = offer.event
        /\ stdout[i].kind = "completed" => turn[stdout[i].turn] = "done"
    /\ \A i, j \in DOMAIN stdout :
        \/ i = j
        \/ stdout[i].kind \notin {"reply", "error"} \/ stdout[j].kind \notin {"reply", "error"}
    /\ \A i, j \in DOMAIN stdout :
        i # j /\ stdout[i].kind = "completed" /\ stdout[j].kind = "completed" => stdout[i].turn # stdout[j].turn
    /\ \A p \in handling : turn[p[1]] = "done" /\ ~Written("completed", p[1])

\* The events of a channel have their turns in its order.
InOrder ==
    /\ \A s, e \in Events : Before(s, e) /\ turn[e] # "none" => Settled(s)
    /\ InHand => \A e \in Events :
        /\ Before(e, offer.event) => Settled(e)
        /\ Before(offer.event, e) => turn[e] = "none"

\* Without a fallback only the completion of a turn is an outcome.
Reports == ~fallback => ~At("run") /\ \A p \in reported : turn[p[1]] = "done" /\ ~Written("completed", p[1])

\* A turn whose completion is awaited and that the adapter cannot find by its name: it is in
\* the adapter's hands, what its child left is read before its run ends, or, without a
\* fallback, its channel waits for it.
Unnamed ==
    names => \A t \in Events :
        Awaited(t) /\ t \notin byTurn =>
            \/ Replied(t)
            \/ fallback /\ child # "running" /\ offer.event = t /\ offer.step \in {"refused", "run"}
            \/ ~fallback /\ ~Settled(t)

Found ==
    /\ At("asked") => byThread[ChannelOf(offer.event)] \in {offer.event, NoEvent}
    /\ names \/ ~overlapped =>
        \A t \in Events : Awaited(t) => (names /\ t \in byTurn) \/ byThread[ChannelOf(t)] \in {t, NoEvent}

\* What the outcome handler is awaited with.
HandedFits == names \/ ~overlapped => \A p \in handling : p[1] = p[2]

TurnsInv ==
    /\ TurnsTypeOK
    /\ OneTurn
    /\ Readable
    /\ InOrder
    /\ Reports
    /\ Unnamed
    /\ Found
    /\ HandedFits
    /\ OutcomeFits

\* Once the process has ended nothing of it moves.
TurnsOver == TurnsTypeOK /\ OutcomeFits /\ offer = Crashed /\ stdout = << >> /\ handling = {}

-----------------------------------------------------------------------------
\* An event stands in the inbox of one channel.
LEMMA EventFacts ==
    /\ \A e \in Events : /\ e # NoEvent /\ ChannelOf(e) \in Inboxes
                         /\ \E i \in DOMAIN Inbox[ChannelOf(e)] : Inbox[ChannelOf(e)][i] = e
    /\ \A c \in Inboxes : \A i \in DOMAIN Inbox[c] : Inbox[c][i] \in Events /\ ChannelOf(Inbox[c][i]) = c /\ i \in Nat
<1>1. \A c \in Inboxes : ToSet(Inbox[c]) \subseteq Events
    BY DEF Events
<1>2. \A e \in Events : \E c \in Inboxes : e \in ToSet(Inbox[c])
    BY DEF Events
<1>3. \A e \in Events : ChannelOf(e) \in Inboxes /\ e \in ToSet(Inbox[ChannelOf(e)])
    BY <1>2 DEF ChannelOf
<1>4. \A c, d \in Inboxes : \A e \in ToSet(Inbox[c]) \cap ToSet(Inbox[d]) : c = d
    BY InboxAssumption DEF Inboxes
<1>5. \A c \in Inboxes : \A i \in DOMAIN Inbox[c] : Inbox[c][i] \in ToSet(Inbox[c]) /\ i \in Nat
    BY InboxAssumption DEF ToSet, Inboxes
<1>6. \A e \in Events : e # NoEvent
    BY <1>2, InboxAssumption DEF Inboxes
<1>7. \A e \in Events : \E i \in DOMAIN Inbox[ChannelOf(e)] : Inbox[ChannelOf(e)][i] = e
    BY <1>3 DEF ToSet
<1>8. \A c \in Inboxes : \A i \in DOMAIN Inbox[c] : Inbox[c][i] \in Events /\ ChannelOf(Inbox[c][i]) = c
    BY <1>1, <1>3, <1>4, <1>5
<1> QED
    BY <1>3, <1>5, <1>6, <1>7, <1>8

\* Two events of one channel come one before the other.
LEMMA BeforeFacts ==
    /\ \A s, e \in Events : s # e /\ ChannelOf(s) = ChannelOf(e) => Before(s, e) \/ Before(e, s)
    /\ \A s, e \in Events : Before(s, e) => s # e /\ ChannelOf(s) = ChannelOf(e)
<1>1. ASSUME NEW s \in Events, NEW e \in Events, s # e, ChannelOf(s) = ChannelOf(e)
      PROVE  Before(s, e) \/ Before(e, s)
    <2>1. PICK i \in DOMAIN Inbox[ChannelOf(s)] : Inbox[ChannelOf(s)][i] = s
        BY EventFacts
    <2>2. PICK j \in DOMAIN Inbox[ChannelOf(s)] : Inbox[ChannelOf(s)][j] = e
        BY EventFacts, <1>1
    <2>3. i < j \/ j < i
        BY <2>1, <2>2, <1>1, EventFacts
    <2> QED
        BY <2>1, <2>2, <2>3, EventFacts DEF Before
<1>2. ASSUME NEW s \in Events, NEW e \in Events, Before(s, e)
      PROVE  s # e /\ ChannelOf(s) = ChannelOf(e)
    <2>1. PICK c \in Inboxes : \E i, j \in DOMAIN Inbox[c] : i < j /\ s = Inbox[c][i] /\ e = Inbox[c][j]
        BY <1>2 DEF Before
    <2>2. PICK i, j \in DOMAIN Inbox[c] : i < j /\ s = Inbox[c][i] /\ e = Inbox[c][j]
        BY <2>1
    <2>3. i # j
        BY <2>2, EventFacts
    <2>4. s # e
        BY <2>2, <2>3, InboxAssumption DEF IsInjective, Inboxes
    <2> QED
        BY <2>2, <2>4, EventFacts
<1> QED
    BY <1>1, <1>2

\* A line is read, or written.
LEMMA LineRead ==
    ASSUME stdout \in Seq(Line), stdout # << >>, stdout' = Tail(stdout)
    PROVE  /\ stdout' \in Seq(Line) /\ Head(stdout) \in Line /\ 1 \in DOMAIN stdout /\ stdout[1] = Head(stdout)
           /\ \A i \in DOMAIN stdout' :
                  i + 1 \in DOMAIN stdout /\ i + 1 # 1 /\ stdout'[i] = stdout[i + 1] /\ i \in Nat
           /\ \A j \in DOMAIN stdout : j = 1 \/ (j - 1 \in DOMAIN stdout' /\ stdout'[j - 1] = stdout[j])
<1>1. stdout' \in Seq(Line) /\ Head(stdout) \in Line /\ Len(stdout) \in Nat /\ DOMAIN stdout = 1..Len(stdout)
      /\ Len(stdout) # 0 /\ Len(stdout') = Len(stdout) - 1
      /\ DOMAIN stdout' = 1..Len(stdout') /\ stdout[1] = Head(stdout)
    OBVIOUS
<1>2. \A i \in 1..Len(stdout') : stdout'[i] = stdout[i + 1]
    OBVIOUS
<1>3. \A j \in 1..Len(stdout) : j = 1 \/ j - 1 \in 1..Len(stdout')
    BY <1>1
<1> QED
    BY <1>1, <1>2, <1>3

\* Reading a line takes that line, and nothing else, from what the child has written.
LEMMA WrittenAfterRead ==
    ASSUME stdout \in Seq(Line), stdout # << >>, stdout' = Tail(stdout)
    PROVE  /\ \A k, t : Written(k, t)' => Written(k, t)
           /\ \A k, t : Written(k, t) => Written(k, t)' \/ (Head(stdout).kind = k /\ Head(stdout).turn = t)
<1>1. ASSUME NEW k, NEW t, Written(k, t)' PROVE Written(k, t)
    BY <1>1, LineRead DEF Written
<1>2. ASSUME NEW k, NEW t, Written(k, t), ~(Head(stdout).kind = k /\ Head(stdout).turn = t)
      PROVE  Written(k, t)'
    <2>1. PICK j \in DOMAIN stdout : stdout[j].kind = k /\ stdout[j].turn = t
        BY <1>2 DEF Written
    <2>2. j - 1 \in DOMAIN stdout' /\ stdout'[j - 1] = stdout[j]
        BY <2>1, <1>2, LineRead
    <2> QED
        BY <2>1, <2>2 DEF Written
<1> QED
    BY <1>1, <1>2

\* Writing a line adds that line, at the end.
LEMMA LineWritten ==
    ASSUME stdout \in Seq(Line), NEW l \in Line, stdout' = Append(stdout, l)
    PROVE  /\ stdout' \in Seq(Line)
           /\ DOMAIN stdout \subseteq DOMAIN stdout' /\ \A i \in DOMAIN stdout : stdout'[i] = stdout[i]
           /\ \E n \in DOMAIN stdout' :
                n \notin DOMAIN stdout /\ stdout'[n] = l /\ DOMAIN stdout' = DOMAIN stdout \cup {n}
           /\ \A k, t : Written(k, t)' <=> Written(k, t) \/ (l.kind = k /\ l.turn = t)
<1>1. stdout' \in Seq(Line) /\ Len(stdout) \in Nat /\ DOMAIN stdout = 1..Len(stdout)
      /\ DOMAIN stdout' = 1..(Len(stdout) + 1) /\ stdout'[Len(stdout) + 1] = l
    OBVIOUS
<1>2. \A i \in 1..Len(stdout) : stdout'[i] = stdout[i]
    OBVIOUS
<1>3. DOMAIN stdout' = DOMAIN stdout \cup {Len(stdout) + 1} /\ Len(stdout) + 1 \notin DOMAIN stdout
    BY <1>1
<1>4. \A k, t : Written(k, t)' <=> Written(k, t) \/ (l.kind = k /\ l.turn = t)
    BY <1>1, <1>2, <1>3 DEF Written
<1> QED
    BY <1>1, <1>2, <1>3, <1>4

-----------------------------------------------------------------------------
\* The queue hands the next event of a channel to the first adapter.
LEMMA OfferTurn ==
    ASSUME TurnsInv, NEW c \in Inboxes, Offer(c)
    PROVE  TurnsInv'
<1>1. PICK i \in DOMAIN Inbox[c] :
        /\ ~Settled(Inbox[c][i]) /\ \A j \in 1..(i - 1) : Settled(Inbox[c][j])
        /\ offer' = [event |-> Inbox[c][i], step |-> IF c \in cached THEN "turn" ELSE "thread"]
    BY DEF Offer
<1> DEFINE e == Inbox[c][i]
<1>2. e \in Events /\ ChannelOf(e) = c /\ c \in Inboxes
    BY EventFacts
<1>3. offer'.event = e /\ offer'.step \in {"turn", "thread"} /\ (offer'.step = "thread" => c \notin cached)
    BY <1>1
<1>4. offer.event = NoEvent /\ offer.step = "idle"
    BY DEF Offer, NoOffer
<1>5. \A s \in Events : Before(s, e) => Settled(s)
    <2> SUFFICES ASSUME NEW s \in Events, Before(s, e) PROVE Settled(s)
        OBVIOUS
    <2>1. PICK d \in Inboxes : \E k, j \in DOMAIN Inbox[d] : k < j /\ s = Inbox[d][k] /\ e = Inbox[d][j]
        BY DEF Before
    <2>2. PICK k, j \in DOMAIN Inbox[d] : k < j /\ s = Inbox[d][k] /\ e = Inbox[d][j]
        BY <2>1
    <2>3. d = c
        BY <2>2, EventFacts
    <2>4. j = i
        BY <2>2, <2>3, InboxAssumption DEF IsInjective, Inboxes
    <2>5. k \in 1..(i - 1)
        BY <2>2, <2>3, <2>4, InboxAssumption DEF Inboxes
    <2> QED
        BY <2>2, <2>3, <2>5, <1>1
<1>6. UNCHANGED <<settings, child, known, cached, byThread, byTurn, turn, stdout, handling, accepted, reported,
                  counters, overlapped, chased>>
    BY DEF Offer
<1> HIDE DEF e
<1>7. \A t \in Events : ~Replied(t) /\ ~Replied(t)'
    BY <1>3, <1>4, EventFacts DEF Replied, At
<1>8. TurnsTypeOK'
    BY <1>1, <1>2, <1>6 DEF TurnsInv, TurnsTypeOK, settings, counters, Steps, e
<1>9. OneTurn'
    BY <1>1, <1>2, <1>3, <1>6, <1>7 DEF TurnsInv, OneTurn, At, InHand, Running, Settled, e
<1>10. Readable'
    BY <1>3, <1>4, <1>6 DEF TurnsInv, Readable, At, Written
<1>11. InOrder'
    BY <1>1, <1>2, <1>3, <1>5, <1>6 DEF TurnsInv, InOrder, Settled, Answered, e
<1>12. Reports'
    BY <1>3, <1>6 DEF TurnsInv, Reports, At, Written, settings
<1>13. Unnamed'
    BY <1>4, <1>6, <1>7 DEF TurnsInv, Unnamed, Awaited, Running, Written, Settled, Answered, settings
<1>14. Found' /\ OutcomeFits' /\ HandedFits'
    BY <1>3, <1>6 DEF TurnsInv, Found, OutcomeFits, HandedFits, Awaited, Running, Written, At, settings
<1> QED
    BY <1>8, <1>9, <1>10, <1>11, <1>12, <1>13, <1>14 DEF TurnsInv

\* A thread is asked for, of a child that is started or of a new one.
LEMMA ThreadTurn ==
    ASSUME TurnsInv, ThreadAsked, ~ProcessEnds
    PROVE  TurnsInv'
<1> DEFINE e == offer.event
<1>1. e \in Events /\ offer.step = "thread" /\ ChannelOf(e) \in Inboxes /\ InHand
    BY EventFacts DEF TurnsInv, TurnsTypeOK, ThreadAsked, At, NoOffer, Crashed, InHand, Steps
<1>2. /\ UNCHANGED <<settings, known, cached, byThread, byTurn, turn, stdout, handling, accepted, reported, counters,
                     overlapped, chased>>
      /\ \/ child' = child /\ offer' = [offer EXCEPT !.step = "opening"]
         \/ /\ child = "exited" /\ child' \in {"running", "stuck"}
            /\ \E step \in {"opening", "refused"} : offer' = [offer EXCEPT !.step = step]
    BY DEF ThreadAsked, Sent, ChildStarted
<1>3. offer' \in [event : Events, step : Steps] /\ offer'.event = e /\ offer'.step \in {"opening", "refused"}
    BY <1>1, <1>2 DEF TurnsInv, TurnsTypeOK, NoOffer, Crashed, Steps
<1>4. /\ child' \in {"running", "dead", "exited", "stuck"} /\ (child' # "running" => known' = {})
      /\ \A i \in DOMAIN stdout : stdout[i].kind \notin {"reply", "error"}
    BY <1>1, <1>2 DEF TurnsInv, TurnsTypeOK, OneTurn, Readable, At
<1> HIDE DEF e
<1>5. \A t \in Events : ~Replied(t) /\ ~Replied(t)'
    BY <1>1, <1>3 DEF Replied, At
<1>6. TurnsTypeOK'
    BY <1>1, <1>2, <1>3, <1>4 DEF TurnsInv, TurnsTypeOK, settings, counters
<1>7. OneTurn'
    BY <1>1, <1>2, <1>3, <1>4, <1>5 DEF TurnsInv, OneTurn, At, InHand, Running, e
<1>8. Readable'
    BY <1>1, <1>2, <1>3, <1>4 DEF TurnsInv, Readable, At, Written
<1>9. InOrder'
    BY <1>1, <1>2, <1>3 DEF TurnsInv, InOrder, Settled, Answered, InHand, e
<1>10. Reports'
    BY <1>2, <1>3 DEF TurnsInv, Reports, At, Written, settings
<1>11. Unnamed'
    BY <1>1, <1>2, <1>5 DEF TurnsInv, Unnamed, Awaited, Running, Written, Settled, Answered, settings
<1>12. Found' /\ OutcomeFits' /\ HandedFits'
    BY <1>2, <1>3 DEF TurnsInv, Found, OutcomeFits, HandedFits, Awaited, Running, Written, At, settings
<1> QED
    BY <1>6, <1>7, <1>8, <1>9, <1>10, <1>11, <1>12 DEF TurnsInv

\* The turn is asked for on the thread of the channel.
LEMMA AskedTurn ==
    ASSUME TurnsInv, TurnAsked, ~ProcessEnds
    PROVE  TurnsInv'
<1> DEFINE e == offer.event
<1> DEFINE c == ChannelOf(e)
<1>1. e \in Events /\ offer.step = "turn" /\ c \in Inboxes /\ InHand
    BY EventFacts DEF TurnsInv, TurnsTypeOK, TurnAsked, At, NoOffer, Crashed, InHand, Steps
<1>2. /\ \E step \in {"asked", "refused"} : offer' = [offer EXCEPT !.step = step]
      /\ byThread' = [byThread EXCEPT ![c] = e] /\ cached' = cached \cup {c}
      /\ UNCHANGED <<settings, child, known, byTurn, turn, stdout, handling, accepted, reported, counters, chased>>
    BY DEF TurnAsked, Sent
<1>3. overlapped' \in BOOLEAN /\ (~overlapped' => ~overlapped /\ \A t \in ToSet(Inbox[c]) : ~Unfinished(t))
    <2>1. overlapped' = (overlapped \/ \E t \in ToSet(Inbox[c]) : Unfinished(t))
        BY DEF TurnAsked
    <2> QED
        BY <2>1, Zenon
<1>4. /\ offer' \in [event : Events, step : Steps] /\ offer'.event = e
      /\ offer'.step \in {"asked", "refused"}
    BY <1>1, <1>2 DEF TurnsInv, TurnsTypeOK, NoOffer, Crashed, Steps
<1>5. byThread'[c] = e /\ \A d \in Inboxes \ {c} : byThread'[d] = byThread[d]
    BY <1>1, <1>2 DEF TurnsInv, TurnsTypeOK
<1>6. \A i \in DOMAIN stdout : stdout[i].kind \notin {"reply", "error"}
    BY <1>1 DEF TurnsInv, Readable, At
<1> HIDE DEF e, c
<1>7. \A t \in Events : ~Replied(t) /\ ~Replied(t)'
    BY <1>1, <1>2, <1>4, <1>6 DEF Replied, At, Written
<1>8. TurnsTypeOK'
    BY <1>1, <1>2, <1>3, <1>4 DEF TurnsInv, TurnsTypeOK, settings, counters
<1>9. OneTurn'
    BY <1>1, <1>2, <1>4, <1>7 DEF TurnsInv, OneTurn, At, InHand, Running, e, c
<1>10. Readable'
    BY <1>2, <1>6 DEF TurnsInv, Readable, At, Written
<1>11. InOrder'
    BY <1>1, <1>2, <1>4 DEF TurnsInv, InOrder, Settled, Answered, InHand, e
<1>12. Reports'
    BY <1>2, <1>4 DEF TurnsInv, Reports, At, Written, settings
<1>13. Unnamed'
    BY <1>1, <1>2, <1>7 DEF TurnsInv, Unnamed, Awaited, Running, Written, Settled, Answered, settings
<1>14. Found'
    <2>1. ASSUME names, NEW t \in Events, Awaited(t), t \notin byTurn, ChannelOf(t) = c PROVE t = e
        <3>1. ~fallback /\ ~Settled(t)
            BY <2>1, <1>1, <1>7 DEF TurnsInv, Unnamed
        <3>2. turn[t] # "none"
            BY <2>1 DEF Awaited, Running, Written, TurnsInv, Readable
        <3>3. ~Before(t, e) /\ ~Before(e, t)
            BY <3>1, <3>2, <1>1, <2>1 DEF TurnsInv, InOrder, e
        <3> QED
            BY <3>3, <2>1, <1>1, BeforeFacts DEF c
    <2>2. ASSUME ~overlapped', NEW t \in Events, ChannelOf(t) = c PROVE ~Awaited(t)
        <3>1. t \in ToSet(Inbox[c])
            BY <2>2, EventFacts DEF ToSet
        <3>2. ~Unfinished(t)
            BY <1>3, <2>2, <3>1
        <3>3. ASSUME NEW i \in DOMAIN stdout, stdout[i].kind = "completed", stdout[i].turn = t PROVE FALSE
            <4>1. stdout[i] \in Line
                BY <1>1 DEF TurnsInv, TurnsTypeOK
            <4>2. stdout[i] = [kind |-> "completed", turn |-> t]
                BY <4>1, <3>3 DEF Line
            <4> QED
                BY <4>2, <3>2 DEF Unfinished, ToSet
        <3> QED
            BY <3>2, <3>3 DEF Unfinished, Awaited, Written
    <2>3. \A t \in Events : ChannelOf(t) \in Inboxes
        BY EventFacts
    <2>4. ASSUME names' \/ ~overlapped', NEW t \in Events, Awaited(t)'
          PROVE  (names /\ t \in byTurn) \/ byThread'[ChannelOf(t)] \in {t, NoEvent}
        <3>1. Awaited(t)
            BY <2>4, <1>2 DEF Awaited, Running, Written
        <3>2. CASE ChannelOf(t) = c
            BY <3>1, <3>2, <2>1, <2>2, <2>4, <1>2, <1>5 DEF settings
        <3>3. CASE ChannelOf(t) # c
            BY <3>1, <3>3, <2>3, <2>4, <1>2, <1>3, <1>5 DEF TurnsInv, Found, settings
        <3> QED
            BY <3>2, <3>3
    <2>5. byThread'[ChannelOf(offer'.event)] = offer'.event
        BY <1>4, <1>5 DEF c
    <2> QED
        BY <2>4, <2>5, <1>2 DEF Found, settings
<1>15. OutcomeFits' /\ HandedFits'
    BY <1>2, <1>3 DEF TurnsInv, OutcomeFits, HandedFits, settings
<1> QED
    BY <1>8, <1>9, <1>10, <1>11, <1>12, <1>13, <1>14, <1>15 DEF TurnsInv

\* An answered request makes the event accepted.
LEMMA AcceptedTurn ==
    ASSUME TurnsInv, TurnAccepted
    PROVE  TurnsInv'
<1> DEFINE e == offer.event
<1>1. e \in Events /\ offer.step = "replied" /\ InHand
    BY DEF TurnsInv, TurnsTypeOK, TurnAccepted, At, NoOffer, Crashed, InHand, Steps
<1>2. /\ byTurn' = (IF names THEN byTurn \cup {e} ELSE byTurn) /\ accepted' = accepted \cup {e} /\ offer' = NoOffer
      /\ UNCHANGED <<settings, child, known, cached, byThread, turn, stdout, handling, reported, counters, overlapped,
                     chased>>
    BY DEF TurnAccepted
<1>3. offer'.event = NoEvent /\ offer'.step = "idle" /\ e # NoEvent
    BY <1>1, <1>2, EventFacts DEF NoOffer
<1> HIDE DEF e
<1>4. \A t \in Events : (Replied(t) => t = e) /\ ~Replied(t)'
    BY <1>3, EventFacts DEF Replied, e
<1>5. TurnsTypeOK'
    BY <1>1, <1>2 DEF TurnsInv, TurnsTypeOK, settings, counters
<1>6. OneTurn'
    BY <1>1, <1>2, <1>3, <1>4 DEF TurnsInv, OneTurn, At, InHand, Running, Steps
<1>7. Readable'
    BY <1>1, <1>2, <1>3 DEF TurnsInv, Readable, At, Written
<1>8. InOrder'
    BY <1>2, <1>3 DEF TurnsInv, InOrder, Settled, Answered, InHand, Steps
<1>9. Reports'
    BY <1>2, <1>3 DEF TurnsInv, Reports, At, Written, settings
<1>10. Unnamed'
    <2> SUFFICES ASSUME names', NEW t \in Events, Awaited(t)', t \notin byTurn'
                 PROVE  ~fallback' /\ ~Settled(t)'
        BY DEF Unnamed
    <2>1. names /\ Awaited(t) /\ t \notin byTurn /\ t # e
        BY <1>2 DEF settings, Awaited, Running, Written
    <2>2. ~fallback /\ ~Settled(t)
        BY <2>1, <1>1, <1>4 DEF TurnsInv, Unnamed
    <2> QED
        BY <2>1, <2>2, <1>2 DEF Settled, Answered, settings
<1>11. Found' /\ OutcomeFits' /\ HandedFits'
    BY <1>2, <1>3 DEF TurnsInv, Found, OutcomeFits, HandedFits, Awaited, Running, Written, At, settings
<1> QED
    BY <1>5, <1>6, <1>7, <1>8, <1>9, <1>10, <1>11 DEF TurnsInv

\* A request that fails is handed to the next adapter, or back to the queue.
LEMMA DeferredTurn ==
    ASSUME TurnsInv, TurnDeferred
    PROVE  TurnsInv'
<1> DEFINE e == offer.event
<1>1. e \in Events /\ offer.step = "refused" /\ InHand
    BY DEF TurnsInv, TurnsTypeOK, TurnDeferred, At, NoOffer, Crashed, InHand, Steps
<1>2. /\ offer' = NextAdapter(e)
      /\ UNCHANGED <<settings, child, known, cached, byThread, byTurn, turn, stdout, handling, accepted, reported,
                     counters, overlapped, chased>>
    BY DEF TurnDeferred
<1>3. \/ fallback /\ offer'.event = e /\ offer'.step = "run"
      \/ ~fallback /\ offer'.event = NoEvent /\ offer'.step = "idle"
    BY <1>2 DEF NextAdapter, NoOffer
<1>4. offer' \in {NoOffer} \cup [event : Events, step : Steps]
    BY <1>1, <1>2 DEF NextAdapter, Steps
<1> HIDE DEF e
<1>5. \A t \in Events : ~Replied(t) /\ ~Replied(t)'
    BY <1>1, <1>3 DEF Replied, At
<1>6. TurnsTypeOK'
    BY <1>2, <1>4 DEF TurnsInv, TurnsTypeOK, settings, counters
<1>7. OneTurn'
    BY <1>1, <1>2, <1>3, <1>5 DEF TurnsInv, OneTurn, At, InHand, Running, Steps, e
<1>8. Readable'
    BY <1>1, <1>2, <1>3 DEF TurnsInv, Readable, At, Written
<1>9. InOrder'
    BY <1>1, <1>2, <1>3 DEF TurnsInv, InOrder, Settled, Answered, InHand, Steps, e
<1>10. Reports'
    BY <1>2, <1>3 DEF TurnsInv, Reports, At, Written, settings
<1>11. Unnamed'
    BY <1>1, <1>2, <1>3, <1>5 DEF TurnsInv, Unnamed, Awaited, Running, Written, Settled, Answered, settings, e
<1>12. Found' /\ OutcomeFits' /\ HandedFits'
    BY <1>2, <1>3 DEF TurnsInv, Found, OutcomeFits, HandedFits, Awaited, Running, Written, At, settings
<1> QED
    BY <1>6, <1>7, <1>8, <1>9, <1>10, <1>11, <1>12 DEF TurnsInv

\* The fallback runs a process of its own, whose exit decides what is reported.
LEMMA RunTurn ==
    ASSUME TurnsInv, NEW run \in Runs, NEW exit \in ExitCodes, NEW taken \in BOOLEAN, RunEnds(run, exit, taken)
    PROVE  TurnsInv'
<1> DEFINE e == offer.event
<1>1. e \in Events /\ offer.step = "run" /\ InHand
    BY DEF TurnsInv, TurnsTypeOK, RunEnds, At, NoOffer, Crashed, InHand, Steps
<1>2. /\ offer' = NoOffer /\ (child = "running" \/ stdout = << >>)
      /\ accepted' \in {accepted, accepted \cup {e}} /\ reported' \in {reported, reported \cup {<<e, e>>}}
      /\ UNCHANGED <<settings, child, known, cached, byThread, byTurn, turn, stdout, handling, exits, questions,
                     overlapped, chased>>
    BY DEF RunEnds, Serves
<1>3. offer'.event = NoEvent /\ offer'.step = "idle" /\ e # NoEvent
    BY <1>1, <1>2, EventFacts DEF NoOffer
<1>4. refusals' \in 0..MaxRefusals
    BY InboxAssumption DEF RunEnds, TurnsInv, TurnsTypeOK
<1> HIDE DEF e
<1>5. \A t \in Events : ~Replied(t) /\ ~Replied(t)'
    BY <1>1, <1>3 DEF Replied, At
<1>6. TurnsTypeOK'
    BY <1>1, <1>2, <1>4 DEF TurnsInv, TurnsTypeOK, settings, counters
<1>7. OneTurn'
    BY <1>1, <1>2, <1>3, <1>5 DEF TurnsInv, OneTurn, At, InHand, Running, Steps
<1>8. Readable'
    BY <1>1, <1>2, <1>3 DEF TurnsInv, Readable, At, Written
<1>9. \A t \in Events : Settled(t) => Settled(t)'
    BY <1>2 DEF Settled, Answered
<1>10. InOrder'
    BY <1>2, <1>3, <1>9 DEF TurnsInv, InOrder, InHand, Steps
<1>11. fallback
    BY <1>1 DEF TurnsInv, Reports, At
<1>12. Reports'
    BY <1>2, <1>11 DEF Reports, settings
<1>13. Unnamed'
    <2>1. child # "running" => \A t \in Events : ~Awaited(t)
        BY <1>2 DEF TurnsInv, OneTurn, Awaited, Written
    <2> QED
        BY <2>1, <1>2, <1>5, <1>11 DEF TurnsInv, Unnamed, Awaited, Running, Written, settings
<1>14. Found'
    BY <1>2, <1>3 DEF TurnsInv, Found, Awaited, Running, Written, At, settings
<1>15. OutcomeFits' /\ HandedFits'
    <2>1. <<e, e>>[1] = <<e, e>>[2]
        OBVIOUS
    <2> QED
        BY <2>1, <1>2 DEF TurnsInv, OutcomeFits, HandedFits, settings
<1> QED
    BY <1>6, <1>7, <1>8, <1>10, <1>12, <1>13, <1>14, <1>15 DEF TurnsInv

\* The handler has taken the outcome of a turn.
LEMMA HandledTurn ==
    ASSUME TurnsInv, NEW t \in Events, Handled(t)
    PROVE  TurnsInv'
<1> DEFINE c == ChannelOf(t)
<1>1. PICK e \in Events : /\ <<t, e>> \in handling
                          /\ reported' = reported \cup {<<t, e>>} /\ handling' = handling \ {<<t, e>>}
    BY DEF Handled
<1>2. /\ byTurn' \in {byTurn, byTurn \ {t}} /\ byThread' = [byThread EXCEPT ![c] = NoEvent]
      /\ UNCHANGED <<settings, child, known, cached, offer, turn, stdout, accepted, counters, overlapped, chased>>
      /\ c \in Inboxes /\ \A s \in Events : ChannelOf(s) \in Inboxes
    BY EventFacts DEF Handled
<1>3. byThread'[c] = NoEvent /\ \A d \in Inboxes \ {c} : byThread'[d] = byThread[d]
    BY <1>2 DEF TurnsInv, TurnsTypeOK
<1>4. /\ <<t, e>>[1] = t /\ <<t, e>>[2] = e /\ turn[t] = "done" /\ ~Written("completed", t) /\ ~Awaited(t)
      /\ names \/ ~overlapped => e = t
    BY <1>1 DEF TurnsInv, Readable, Awaited, Running, HandedFits
<1> HIDE DEF c
<1>5. TurnsTypeOK'
    BY <1>1, <1>2 DEF TurnsInv, TurnsTypeOK, settings, counters
<1>6. OneTurn'
    BY <1>2 DEF TurnsInv, OneTurn, At, InHand, Running, Replied, Written
<1>7. Readable'
    BY <1>1, <1>2 DEF TurnsInv, Readable, At, Written
<1>8. InOrder' /\ Reports'
    <2>1. \A s \in Events : Settled(s) => Settled(s)'
        BY <1>1, <1>2 DEF Settled, Answered
    <2>2. InOrder'
        BY <2>1, <1>2 DEF TurnsInv, InOrder, InHand
    <2>3. \A p \in reported' : p \in reported \/ p[1] = t
        BY <1>1, <1>4
    <2> QED
        BY <2>2, <2>3, <1>2, <1>4 DEF TurnsInv, Reports, At, Written, settings
<1>9. Unnamed'
    <2> SUFFICES ASSUME names', NEW s \in Events, Awaited(s)', s \notin byTurn', ~Replied(s)'
                 PROVE  \/ fallback' /\ child' # "running" /\ offer'.event = s /\ offer'.step \in {"refused", "run"}
                        \/ ~fallback' /\ ~Settled(s)'
        BY DEF Unnamed
    <2>1. names /\ Awaited(s) /\ ~Replied(s) /\ s # t /\ s \notin byTurn
        BY <1>2, <1>4 DEF Awaited, Running, Written, settings, Replied, At
    <2>2. \/ fallback /\ child # "running" /\ offer.event = s /\ offer.step \in {"refused", "run"}
          \/ ~fallback /\ ~Settled(s)
        BY <2>1 DEF TurnsInv, Unnamed
    <2>3. Settled(s)' => Settled(s)
        BY <2>1, <1>1, <1>2, <1>4 DEF Settled, Answered
    <2> QED
        BY <2>2, <2>3, <1>2 DEF settings
<1>10. Found'
    <2>1. offer.step = "asked" => offer.event \in Events
        BY DEF TurnsInv, TurnsTypeOK, NoOffer, Crashed
    <2>2. At("asked")' => byThread'[ChannelOf(offer'.event)] \in {offer'.event, NoEvent}
        BY <2>1, <1>2, <1>3 DEF TurnsInv, Found, At
    <2>3. ASSUME names' \/ ~overlapped', NEW s \in Events, Awaited(s)'
          PROVE  (names' /\ s \in byTurn') \/ byThread'[ChannelOf(s)] \in {s, NoEvent}
        <3>1. Awaited(s) /\ s # t /\ (names \/ ~overlapped)
            BY <2>3, <1>2, <1>4 DEF Awaited, Running, Written, settings
        <3>2. (names /\ s \in byTurn) \/ byThread[ChannelOf(s)] \in {s, NoEvent}
            BY <3>1 DEF TurnsInv, Found
        <3> QED
            BY <3>1, <3>2, <1>2, <1>3 DEF settings
    <2> QED
        BY <2>2, <2>3 DEF Found
<1>11. OutcomeFits' /\ HandedFits'
    BY <1>1, <1>2, <1>4 DEF TurnsInv, OutcomeFits, HandedFits, settings
<1> QED
    BY <1>5, <1>6, <1>7, <1>8, <1>9, <1>10, <1>11 DEF TurnsInv

-----------------------------------------------------------------------------
\* The child opens a thread and answers.
LEMMA OpensTurn ==
    ASSUME TurnsInv, ChildOpens
    PROVE  TurnsInv'
<1> DEFINE e == offer.event
<1> DEFINE c == ChannelOf(e)
<1> DEFINE l == [kind |-> "reply", turn |-> e]
<1>1. /\ e \in Events /\ offer.step = "opening" /\ InHand /\ c \in Inboxes /\ child = "running"
      /\ \A i \in DOMAIN stdout : stdout[i].kind \notin {"reply", "error"}
    BY EventFacts DEF TurnsInv, TurnsTypeOK, ChildOpens, Waiting, Serves, At, NoOffer, Crashed, InHand, Steps
<1>2. /\ known' = known \cup {c} /\ stdout' = Append(stdout, l)
      /\ UNCHANGED <<settings, child, cached, byThread, byTurn, offer, turn, handling, accepted, reported, counters,
                     overlapped, chased>>
    BY DEF ChildOpens
<1>3. l \in Line /\ l.kind = "reply" /\ l.turn = e /\ stdout \in Seq(Line)
    BY <1>1 DEF Line, TurnsInv, TurnsTypeOK
<1> HIDE DEF e, c, l
<1>4. /\ stdout' \in Seq(Line)
      /\ DOMAIN stdout \subseteq DOMAIN stdout' /\ \A i \in DOMAIN stdout : stdout'[i] = stdout[i]
      /\ \E n \in DOMAIN stdout' : n \notin DOMAIN stdout /\ stdout'[n] = l /\ DOMAIN stdout' = DOMAIN stdout \cup {n}
      /\ \A k, t : Written(k, t)' <=> Written(k, t) \/ (l.kind = k /\ l.turn = t)
    BY <1>2, <1>3, LineWritten
<1>5. PICK n \in DOMAIN stdout' : n \notin DOMAIN stdout /\ stdout'[n] = l /\ DOMAIN stdout' = DOMAIN stdout \cup {n}
    BY <1>4
<1>6. \A k, t : k # "reply" => (Written(k, t)' <=> Written(k, t))
    BY <1>3, <1>4
<1>7. \A t \in Events : (Awaited(t)' <=> Awaited(t)) /\ ~Replied(t) /\ ~Replied(t)'
    BY <1>1, <1>2, <1>6 DEF Awaited, Running, Replied, At
<1>8. TurnsTypeOK'
    BY <1>1, <1>2, <1>4 DEF TurnsInv, TurnsTypeOK, settings, counters
<1>9. OneTurn'
    <2>1. \A t \in Events : turn[t] # "none" => ChannelOf(t) # c
        BY <1>1 DEF TurnsInv, OneTurn, At, c, e
    <2> QED
        BY <2>1, <1>1, <1>2, <1>7 DEF TurnsInv, OneTurn, At, InHand, Running
<1>10. Readable'
    <2>1. \A i \in DOMAIN stdout' : stdout'[i].kind \in {"reply", "error"} => i = n
        BY <1>1, <1>4, <1>5
    <2>2. \A i \in DOMAIN stdout' : stdout'[i].kind = "completed" => i \in DOMAIN stdout /\ stdout'[i] = stdout[i]
        BY <1>3, <1>4, <1>5
    <2>3. stdout'[n].turn = offer'.event /\ At("opening")'
        BY <1>1, <1>2, <1>3, <1>5 DEF At, e
    <2> QED
        BY <2>1, <2>2, <2>3, <1>2, <1>6 DEF TurnsInv, Readable
<1>11. InOrder' /\ Reports'
    BY <1>2, <1>6 DEF TurnsInv, InOrder, Reports, Settled, Answered, InHand, At, settings
<1>12. Unnamed' /\ Found' /\ OutcomeFits' /\ HandedFits'
    BY <1>2, <1>7 DEF TurnsInv, Unnamed, Found, OutcomeFits, HandedFits, Settled, Answered, At, settings
<1> QED
    BY <1>8, <1>9, <1>10, <1>11, <1>12 DEF TurnsInv

\* The child takes a turn and answers.
LEMMA TakenTurn ==
    ASSUME TurnsInv, ChildTakes
    PROVE  TurnsInv'
<1> DEFINE e == offer.event
<1> DEFINE l == [kind |-> "reply", turn |-> e]
<1>1. /\ e \in Events /\ offer.step = "asked" /\ InHand /\ ChannelOf(e) \in known
      /\ \A i \in DOMAIN stdout : stdout[i].kind \notin {"reply", "error"}
    BY DEF TurnsInv, TurnsTypeOK, ChildTakes, Waiting, Serves, At, NoOffer, Crashed, InHand, Steps
<1>2. /\ turn' = [turn EXCEPT ![e] = "running"] /\ stdout' = Append(stdout, l)
      /\ UNCHANGED <<settings, child, known, cached, byThread, byTurn, offer, handling, accepted, reported, counters,
                     overlapped, chased>>
    BY DEF ChildTakes
<1>3. /\ l \in Line /\ l.kind = "reply" /\ l.turn = e
      /\ stdout \in Seq(Line) /\ turn \in [Events -> {"none", "running", "asking", "done", "lost"}]
    BY <1>1 DEF Line, TurnsInv, TurnsTypeOK
<1> HIDE DEF e, l
<1>4. /\ turn'[e] = "running" /\ \A t \in Events \ {e} : turn'[t] = turn[t]
    BY <1>1, <1>2, <1>3
<1>5. /\ stdout' \in Seq(Line)
      /\ DOMAIN stdout \subseteq DOMAIN stdout' /\ \A i \in DOMAIN stdout : stdout'[i] = stdout[i]
      /\ \E n \in DOMAIN stdout' : n \notin DOMAIN stdout /\ stdout'[n] = l /\ DOMAIN stdout' = DOMAIN stdout \cup {n}
      /\ \A k, t : Written(k, t)' <=> Written(k, t) \/ (l.kind = k /\ l.turn = t)
    BY <1>2, <1>3, LineWritten
<1>6. PICK n \in DOMAIN stdout' : n \notin DOMAIN stdout /\ stdout'[n] = l /\ DOMAIN stdout' = DOMAIN stdout \cup {n}
    BY <1>5
<1>7. \A t \in Events : ~Replied(t)
    BY <1>1 DEF Replied, At, Written
<1>8. \A t \in Events : Replied(t)' <=> t = e
    BY <1>1, <1>2, <1>3, <1>5 DEF Replied, At, e
<1>9. turn[e] = "none" /\ ~Awaited(e)
    BY <1>1, <1>7 DEF TurnsInv, OneTurn, e, Awaited, Running, Written, Readable
<1>10. \A k, t : k # "reply" => (Written(k, t)' <=> Written(k, t))
    BY <1>3, <1>5
<1>11. \A t \in Events \ {e} : Awaited(t)' <=> Awaited(t)
    BY <1>4, <1>10 DEF Awaited, Running
<1>12. TurnsTypeOK'
    BY <1>1, <1>2, <1>5 DEF TurnsInv, TurnsTypeOK, settings, counters
<1>13. OneTurn'
    <2>1. ChannelOf(e) \in cached
        BY <1>1 DEF TurnsInv, OneTurn, At, e
    <2>2. ASSUME NEW t \in Events
          PROVE  /\ turn'[t] # "none" => ChannelOf(t) \in cached
                 /\ turn'[t] \in {"running", "asking"} => ChannelOf(t) \in known
                 /\ turn'[t] # "none" /\ ChannelOf(t) \in known => t \in accepted \/ Replied(t)'
        <3>1. CASE t = e
            BY <3>1, <2>1, <1>1, <1>8
        <3>2. CASE t # e
            BY <3>2, <1>4, <1>7 DEF TurnsInv, OneTurn, Running
        <3> QED
            BY <3>1, <3>2
    <2> QED
        BY <2>1, <2>2, <1>1, <1>2 DEF TurnsInv, OneTurn, At, InHand, Running
<1>14. Readable'
    <2>1. \A i \in DOMAIN stdout' : stdout'[i].kind \in {"reply", "error"} => i = n
        BY <1>1, <1>5, <1>6
    <2>2. \A i \in DOMAIN stdout' : stdout'[i].kind = "completed" =>
            i \in DOMAIN stdout /\ stdout'[i] = stdout[i] /\ turn'[stdout[i].turn] = "done"
        <3> SUFFICES ASSUME NEW i \in DOMAIN stdout', stdout'[i].kind = "completed"
                     PROVE  i \in DOMAIN stdout /\ stdout'[i] = stdout[i] /\ turn'[stdout[i].turn] = "done"
            OBVIOUS
        <3>1. i \in DOMAIN stdout /\ stdout'[i] = stdout[i]
            BY <1>3, <1>5, <1>6
        <3>2. turn[stdout[i].turn] = "done" /\ stdout[i] \in Line
            BY <3>1, <1>3 DEF TurnsInv, Readable
        <3> QED
            BY <3>1, <3>2, <1>4, <1>9 DEF Line
    <2>3. \A p \in handling : p[1] \in Events /\ turn'[p[1]] = "done" /\ ~Written("completed", p[1])'
        BY <1>4, <1>9, <1>10 DEF TurnsInv, TurnsTypeOK, Readable
    <2>4. stdout'[n].turn = offer'.event /\ At("asked")'
        BY <1>1, <1>2, <1>3, <1>6 DEF At, e
    <2> QED
        BY <2>1, <2>2, <2>3, <2>4, <1>2 DEF TurnsInv, Readable
<1>15. InOrder'
    BY <1>1, <1>2, <1>4, BeforeFacts DEF TurnsInv, InOrder, Settled, Answered, InHand, e
<1>16. Reports'
    BY <1>1, <1>2, <1>4, <1>9, <1>10 DEF TurnsInv, TurnsTypeOK, Reports, At, settings
<1>17. Unnamed'
    <2> SUFFICES ASSUME names', NEW t \in Events, Awaited(t)', t \notin byTurn', ~Replied(t)'
                 PROVE  ~fallback' /\ ~Settled(t)'
        BY DEF Unnamed
    <2> t # e
        BY <1>8
    <2>1. names /\ Awaited(t) /\ t \notin byTurn
        BY <1>2, <1>11 DEF settings
    <2>2. ~fallback /\ ~Settled(t)
        BY <2>1, <1>1, <1>7 DEF TurnsInv, Unnamed
    <2> QED
        BY <2>2, <1>2 DEF Settled, Answered, settings
<1>18. Found'
    <2>1. byThread[ChannelOf(e)] \in {e, NoEvent}
        BY <1>1 DEF TurnsInv, Found, At, e
    <2> QED
        BY <2>1, <1>2, <1>11 DEF TurnsInv, Found, At, settings
<1>19. OutcomeFits' /\ HandedFits'
    BY <1>2 DEF TurnsInv, OutcomeFits, HandedFits, settings
<1> QED
    BY <1>12, <1>13, <1>14, <1>15, <1>16, <1>17, <1>18, <1>19 DEF TurnsInv

\* The child refuses a turn.
LEMMA RefusedTurn ==
    ASSUME TurnsInv, ChildRefuses
    PROVE  TurnsInv'
<1> DEFINE e == offer.event
<1> DEFINE l == [kind |-> "error", turn |-> e]
<1>1. /\ e \in Events /\ offer.step \in {"opening", "asked"} /\ InHand
      /\ \A i \in DOMAIN stdout : stdout[i].kind \notin {"reply", "error"}
    BY DEF TurnsInv, TurnsTypeOK, ChildRefuses, Waiting, Serves, At, NoOffer, Crashed, InHand, Steps
<1>2. /\ stdout' = Append(stdout, l)
      /\ UNCHANGED <<settings, child, known, cached, byThread, byTurn, offer, turn, handling, accepted, reported, exits,
                     questions, overlapped, chased>>
    BY DEF ChildRefuses
<1>3. l \in Line /\ l.kind = "error" /\ l.turn = e /\ stdout \in Seq(Line)
    BY <1>1 DEF Line, TurnsInv, TurnsTypeOK
<1>4. refusals' \in 0..MaxRefusals
    BY InboxAssumption DEF ChildRefuses, TurnsInv, TurnsTypeOK
<1> HIDE DEF e, l
<1>5. /\ stdout' \in Seq(Line)
      /\ DOMAIN stdout \subseteq DOMAIN stdout' /\ \A i \in DOMAIN stdout : stdout'[i] = stdout[i]
      /\ \E n \in DOMAIN stdout' : n \notin DOMAIN stdout /\ stdout'[n] = l /\ DOMAIN stdout' = DOMAIN stdout \cup {n}
      /\ \A k, t : Written(k, t)' <=> Written(k, t) \/ (l.kind = k /\ l.turn = t)
    BY <1>2, <1>3, LineWritten
<1>6. PICK n \in DOMAIN stdout' : n \notin DOMAIN stdout /\ stdout'[n] = l /\ DOMAIN stdout' = DOMAIN stdout \cup {n}
    BY <1>5
<1>7. \A k, t : k # "error" => (Written(k, t)' <=> Written(k, t))
    BY <1>3, <1>5
<1>8. \A t \in Events : (Awaited(t)' <=> Awaited(t)) /\ (Replied(t)' <=> Replied(t))
    BY <1>2, <1>7 DEF Awaited, Running, Replied, At
<1>9. TurnsTypeOK'
    BY <1>1, <1>2, <1>4, <1>5 DEF TurnsInv, TurnsTypeOK, settings, counters
<1>10. OneTurn'
    BY <1>2, <1>8 DEF TurnsInv, OneTurn, At, InHand, Running
<1>11. Readable'
    <2>1. \A i \in DOMAIN stdout' : stdout'[i].kind \in {"reply", "error"} => i = n
        BY <1>1, <1>5, <1>6
    <2>2. \A i \in DOMAIN stdout' : stdout'[i].kind = "completed" => i \in DOMAIN stdout /\ stdout'[i] = stdout[i]
        BY <1>3, <1>5, <1>6
    <2>3. stdout'[n].turn = offer'.event /\ (At("opening") \/ At("asked"))'
        BY <1>1, <1>2, <1>3, <1>6 DEF At, e
    <2> QED
        BY <2>1, <2>2, <2>3, <1>2, <1>7 DEF TurnsInv, Readable
<1>12. InOrder' /\ Reports'
    BY <1>2, <1>7 DEF TurnsInv, InOrder, Reports, Settled, Answered, InHand, At, settings
<1>13. Unnamed' /\ Found' /\ OutcomeFits' /\ HandedFits'
    BY <1>2, <1>8 DEF TurnsInv, Unnamed, Found, OutcomeFits, HandedFits, Settled, Answered, At, settings
<1> QED
    BY <1>9, <1>10, <1>11, <1>12, <1>13 DEF TurnsInv

\* The child completes a turn that runs.
LEMMA CompletedTurn ==
    ASSUME TurnsInv, NEW t \in Events, ChildCompletes(t)
    PROVE  TurnsInv'
<1> DEFINE l == [kind |-> "completed", turn |-> t]
<1>1. /\ turn' = [turn EXCEPT ![t] = "done"] /\ stdout' = Append(stdout, l) /\ turn[t] = "running"
      /\ UNCHANGED <<settings, child, known, cached, byThread, byTurn, offer, handling, accepted, reported, counters,
                     overlapped, chased>>
    BY DEF ChildCompletes
<1>2. /\ l \in Line /\ l.kind = "completed" /\ l.turn = t
      /\ stdout \in Seq(Line) /\ turn \in [Events -> {"none", "running", "asking", "done", "lost"}]
    BY DEF Line, TurnsInv, TurnsTypeOK
<1> HIDE DEF l
<1>3. /\ turn'[t] = "done" /\ \A s \in Events \ {t} : turn'[s] = turn[s]
    BY <1>1, <1>2
<1>4. /\ stdout' \in Seq(Line)
      /\ DOMAIN stdout \subseteq DOMAIN stdout' /\ \A i \in DOMAIN stdout : stdout'[i] = stdout[i]
      /\ \E n \in DOMAIN stdout' : n \notin DOMAIN stdout /\ stdout'[n] = l /\ DOMAIN stdout' = DOMAIN stdout \cup {n}
      /\ \A k, s : Written(k, s)' <=> Written(k, s) \/ (l.kind = k /\ l.turn = s)
    BY <1>1, <1>2, LineWritten
<1>5. PICK n \in DOMAIN stdout' : n \notin DOMAIN stdout /\ stdout'[n] = l /\ DOMAIN stdout' = DOMAIN stdout \cup {n}
    BY <1>4
<1>6. \A k, s : k # "completed" \/ s # t => (Written(k, s)' <=> Written(k, s))
    BY <1>2, <1>4
<1>7. \A s \in Events : (Awaited(s)' <=> Awaited(s)) /\ (Replied(s)' <=> Replied(s))
    BY <1>1, <1>2, <1>3, <1>4, <1>6 DEF Awaited, Running, Replied, At
<1>8. TurnsTypeOK'
    BY <1>1, <1>4 DEF TurnsInv, TurnsTypeOK, settings, counters
<1>9. OneTurn'
    BY <1>1, <1>3, <1>7 DEF TurnsInv, OneTurn, At, InHand, Running
<1>10. Readable'
    <2>1. \A i \in DOMAIN stdout : stdout[i] \in Line /\ (stdout[i].kind = "completed" => stdout[i].turn # t)
        BY <1>1, <1>2 DEF TurnsInv, Readable
    <2>2. \A i \in DOMAIN stdout' : stdout'[i].kind = "completed" => turn'[stdout'[i].turn] = "done"
        <3> SUFFICES ASSUME NEW i \in DOMAIN stdout', stdout'[i].kind = "completed"
                     PROVE  turn'[stdout'[i].turn] = "done"
            OBVIOUS
        <3>1. CASE i = n
            BY <3>1, <1>2, <1>3, <1>5
        <3>2. CASE i \in DOMAIN stdout
            BY <3>2, <2>1, <1>3, <1>4 DEF TurnsInv, Readable, Line
        <3> QED
            BY <3>1, <3>2, <1>5
    <2>3. \A i \in DOMAIN stdout' :
              stdout'[i].kind \in {"reply", "error"} => i \in DOMAIN stdout /\ stdout'[i] = stdout[i]
        BY <1>2, <1>4, <1>5
    <2>4. \A i \in DOMAIN stdout' : i = n \/ (i \in DOMAIN stdout /\ stdout'[i] = stdout[i])
        BY <1>4, <1>5
    <2>5. \A i, j \in DOMAIN stdout' :
            i # j /\ stdout'[i].kind = "completed" /\ stdout'[j].kind = "completed" => stdout'[i].turn # stdout'[j].turn
        BY <2>1, <2>4, <1>2, <1>5 DEF TurnsInv, Readable
    <2>6. \A p \in handling : p[1] \in Events /\ turn'[p[1]] = "done" /\ ~Written("completed", p[1])'
        BY <1>1, <1>3, <1>6 DEF TurnsInv, TurnsTypeOK, Readable
    <2>7. (At("asked")' <=> At("asked")) /\ (At("opening")' <=> At("opening"))
        BY <1>1 DEF At
    <2> QED
        BY <2>2, <2>3, <2>5, <2>6, <2>7, <1>1 DEF TurnsInv, Readable
<1>11. InOrder'
    BY <1>1, <1>3 DEF TurnsInv, TurnsTypeOK, InOrder, Settled, Answered, InHand, NoOffer, Crashed, Steps
<1>12. Reports'
    BY <1>1, <1>3, <1>6 DEF TurnsInv, TurnsTypeOK, Reports, At, settings
<1>13. Unnamed' /\ Found' /\ OutcomeFits' /\ HandedFits'
    BY <1>1, <1>7 DEF TurnsInv, Unnamed, Found, OutcomeFits, HandedFits, Settled, Answered, At, settings
<1> QED
    BY <1>8, <1>9, <1>10, <1>11, <1>12, <1>13 DEF TurnsInv

\* The child asks its client, which changes no turn.
LEMMA AskingTurn ==
    ASSUME TurnsInv, NEW t \in Events, ChildAsks(t)
    PROVE  TurnsInv'
<1> DEFINE l == [kind |-> "request", turn |-> t]
<1>1. /\ turn' = [turn EXCEPT ![t] = "asking"] /\ stdout' = Append(stdout, l) /\ turn[t] = "running"
      /\ UNCHANGED <<settings, child, known, cached, byThread, byTurn, offer, handling, accepted, reported, exits,
                     refusals, overlapped, chased>>
    BY DEF ChildAsks
<1>2. /\ l \in Line /\ l.kind = "request" /\ l.turn = t
      /\ stdout \in Seq(Line) /\ turn \in [Events -> {"none", "running", "asking", "done", "lost"}]
    BY DEF Line, TurnsInv, TurnsTypeOK
<1>3. questions' \in 0..MaxQuestions
    BY InboxAssumption DEF ChildAsks, TurnsInv, TurnsTypeOK
<1> HIDE DEF l
<1>4. /\ turn'[t] = "asking" /\ \A s \in Events \ {t} : turn'[s] = turn[s]
    BY <1>1, <1>2
<1>5. /\ stdout' \in Seq(Line)
      /\ DOMAIN stdout \subseteq DOMAIN stdout' /\ \A i \in DOMAIN stdout : stdout'[i] = stdout[i]
      /\ \E n \in DOMAIN stdout' : n \notin DOMAIN stdout /\ stdout'[n] = l /\ DOMAIN stdout' = DOMAIN stdout \cup {n}
      /\ \A k, s : Written(k, s)' <=> Written(k, s) \/ (l.kind = k /\ l.turn = s)
    BY <1>1, <1>2, LineWritten
<1>6. \A k, s : k # "request" => (Written(k, s)' <=> Written(k, s))
    BY <1>2, <1>5
<1>7. \A s \in Events : (Awaited(s)' <=> Awaited(s)) /\ (Replied(s)' <=> Replied(s))
    BY <1>1, <1>4, <1>6 DEF Awaited, Running, Replied, At
<1>8. TurnsTypeOK'
    BY <1>1, <1>3, <1>5 DEF TurnsInv, TurnsTypeOK, settings
<1>9. OneTurn'
    BY <1>1, <1>4, <1>7 DEF TurnsInv, OneTurn, At, InHand, Running
<1>10. Readable'
    <2>1. \A i \in DOMAIN stdout' : stdout'[i].kind # "request" => i \in DOMAIN stdout /\ stdout'[i] = stdout[i]
        BY <1>2, <1>5
    <2>2. \A i \in DOMAIN stdout' : stdout'[i].kind = "completed" => turn'[stdout'[i].turn] = "done"
        <3> SUFFICES ASSUME NEW i \in DOMAIN stdout', stdout'[i].kind = "completed"
                     PROVE  turn'[stdout'[i].turn] = "done"
            OBVIOUS
        <3>1. i \in DOMAIN stdout /\ stdout'[i] = stdout[i] /\ stdout[i] \in Line
            BY <2>1, <1>2
        <3>2. turn[stdout[i].turn] = "done"
            BY <3>1 DEF TurnsInv, Readable
        <3> QED
            BY <3>1, <3>2, <1>1, <1>4 DEF Line
    <2>3. \A p \in handling : p[1] \in Events /\ turn'[p[1]] = "done" /\ ~Written("completed", p[1])'
        BY <1>1, <1>4, <1>6 DEF TurnsInv, TurnsTypeOK, Readable
    <2>4. (At("asked")' <=> At("asked")) /\ (At("opening")' <=> At("opening"))
        BY <1>1 DEF At
    <2> QED
        BY <2>1, <2>2, <2>3, <2>4, <1>1 DEF TurnsInv, Readable
<1>11. InOrder'
    BY <1>1, <1>4 DEF TurnsInv, TurnsTypeOK, InOrder, Settled, Answered, InHand, NoOffer, Crashed, Steps
<1>12. Reports'
    BY <1>1, <1>4, <1>6 DEF TurnsInv, TurnsTypeOK, Reports, At, settings
<1>13. Unnamed' /\ Found' /\ OutcomeFits' /\ HandedFits'
    BY <1>1, <1>7 DEF TurnsInv, Unnamed, Found, OutcomeFits, HandedFits, Settled, Answered, At, settings
<1> QED
    BY <1>8, <1>9, <1>10, <1>11, <1>12, <1>13 DEF TurnsInv

\* With the child its threads and turns are gone.
LEMMA DiesTurn ==
    ASSUME TurnsInv, NEW heard \in BOOLEAN, ChildDies(heard)
    PROVE  TurnsInv'
<1>1. /\ child' = "dead" /\ known' = {} /\ exits' = exits + 1 /\ exits < MaxExits
      /\ stdout' = IF heard THEN stdout ELSE << >>
      /\ turn' = [t \in Events |->
                    IF Running(t) \/ (~heard /\ [kind |-> "completed", turn |-> t] \in ToSet(stdout))
                    THEN "lost" ELSE turn[t]]
      /\ UNCHANGED <<settings, cached, byThread, byTurn, offer, handling, accepted, reported, refusals, questions,
                     overlapped, chased>>
    BY DEF ChildDies
<1>2. stdout \in Seq(Line) /\ stdout' \in Seq(Line) /\ \A i \in DOMAIN stdout : stdout[i] \in Line
    BY <1>1 DEF TurnsInv, TurnsTypeOK
<1>3. \A i \in DOMAIN stdout' : heard /\ i \in DOMAIN stdout /\ stdout'[i] = stdout[i]
    BY <1>1
<1>4. \A k, t : (Written(k, t)' => heard) /\ (Written(k, t)' <=> heard /\ Written(k, t))
    BY <1>1, <1>3 DEF Written
<1>5. \A t \in Events : [kind |-> "completed", turn |-> t] \in ToSet(stdout) => Written("completed", t)
    BY <1>2 DEF Written, ToSet
<1>6. \A t \in Events : /\ turn'[t] \in {"lost", turn[t]} /\ turn'[t] \notin {"running", "asking"}
                        /\ turn[t] = "none" <=> turn'[t] = "none"
                        /\ turn[t] = "done" /\ ~Written("completed", t) => turn'[t] = "done"
                        /\ turn[t] = "done" /\ heard => turn'[t] = "done"
    <2> SUFFICES ASSUME NEW t \in Events
                 PROVE  /\ turn'[t] \in {"lost", turn[t]} /\ turn'[t] \notin {"running", "asking"}
                        /\ turn[t] = "none" <=> turn'[t] = "none"
                        /\ turn[t] = "done" /\ ~Written("completed", t) => turn'[t] = "done"
                        /\ turn[t] = "done" /\ heard => turn'[t] = "done"
        OBVIOUS
    <2>1. Written("completed", t) => turn[t] = "done"
        BY DEF TurnsInv, Readable, Written
    <2>2. turn'[t] = IF Running(t) \/ (~heard /\ [kind |-> "completed", turn |-> t] \in ToSet(stdout))
                     THEN "lost" ELSE turn[t]
        BY <1>1
    <2> QED
        BY <2>1, <2>2, <1>5 DEF Running
<1>7. TurnsTypeOK'
    <2>1. exits' \in 0..MaxExits
        BY <1>1, InboxAssumption DEF TurnsInv, TurnsTypeOK
    <2>2. turn' \in [Events -> {"none", "running", "asking", "done", "lost"}]
        BY <1>1 DEF TurnsInv, TurnsTypeOK
    <2> QED
        BY <1>1, <1>2, <2>1, <2>2 DEF TurnsInv, TurnsTypeOK, settings
<1>8. OneTurn'
    BY <1>1, <1>6 DEF TurnsInv, OneTurn, Running, At, InHand
<1>9. Readable'
    <2>1. \A i \in DOMAIN stdout' :
            /\ stdout'[i].kind \in {"reply", "error"} => (At("asked") \/ At("opening"))' /\ stdout'[i].turn = offer'.event
            /\ stdout'[i].kind = "completed" => turn'[stdout'[i].turn] = "done"
        BY <1>1, <1>2, <1>3, <1>6 DEF TurnsInv, Readable, Line, At
    <2>2. \A p \in handling : p[1] \in Events /\ turn'[p[1]] = "done" /\ ~Written("completed", p[1])'
        BY <1>4, <1>6 DEF TurnsInv, TurnsTypeOK, Readable
    <2> QED
        BY <2>1, <2>2, <1>1, <1>3 DEF TurnsInv, Readable
<1>10. InOrder'
    BY <1>1, <1>6 DEF TurnsInv, InOrder, Settled, Answered, InHand
<1>11. Reports'
    BY <1>1, <1>4, <1>6 DEF TurnsInv, TurnsTypeOK, Reports, At, settings
<1>12. \A t \in Events : Awaited(t)' => heard /\ Awaited(t) /\ (Replied(t) => Replied(t)')
    BY <1>1, <1>4, <1>6 DEF Awaited, Running, Replied, At
<1>13. Unnamed'
    BY <1>1, <1>12 DEF TurnsInv, Unnamed, Settled, Answered, settings
<1>14. Found' /\ OutcomeFits' /\ HandedFits'
    BY <1>1, <1>12 DEF TurnsInv, Found, OutcomeFits, HandedFits, settings, At
<1> QED
    BY <1>7, <1>8, <1>9, <1>10, <1>11, <1>13, <1>14 DEF TurnsInv

\* The exit of the child is seen: the request is rejected, and its answers become stale.
LEMMA SeenTurn ==
    ASSUME TurnsInv, ExitSeen
    PROVE  TurnsInv'
<1>1. /\ child = "dead" /\ child' = "exited" /\ stdout' = [i \in DOMAIN stdout |-> Unasked(stdout[i])]
      /\ offer' = IF At("opening") \/ At("asked") THEN [offer EXCEPT !.step = "refused"] ELSE offer
      /\ UNCHANGED <<settings, known, cached, byThread, byTurn, turn, handling, accepted, reported, counters,
                     overlapped, chased>>
    BY DEF ExitSeen
<1>2. /\ stdout \in Seq(Line) /\ Len(stdout) \in Nat
      /\ DOMAIN stdout = 1..Len(stdout) /\ \A i \in DOMAIN stdout : stdout[i] \in Line
    BY DEF TurnsInv, TurnsTypeOK
<1>3. \A l \in Line : /\ Unasked(l) \in Line /\ Unasked(l).turn = l.turn /\ Unasked(l).kind \notin {"reply", "error"}
                      /\ Unasked(l).kind = "completed" <=> l.kind = "completed"
    BY DEF Line, Unasked
<1>4. /\ stdout' \in Seq(Line) /\ DOMAIN stdout' = DOMAIN stdout
      /\ \A i \in DOMAIN stdout' : /\ stdout'[i].turn = stdout[i].turn
                                   /\ stdout'[i].kind \notin {"reply", "error"}
                                   /\ stdout'[i].kind = "completed" <=> stdout[i].kind = "completed"
    <2>1. DOMAIN stdout' = 1..Len(stdout) /\ \A i \in 1..Len(stdout) : stdout'[i] = Unasked(stdout[i])
        BY <1>1, <1>2
    <2>2. stdout' \in [1..Len(stdout) -> Line]
        <3>1. stdout' = [i \in 1..Len(stdout) |-> Unasked(stdout[i])]
            BY <1>1, <1>2
        <3> QED
            BY <3>1, <1>2, <1>3
    <2> QED
        BY <2>1, <2>2, <1>2, <1>3
<1>5. \A t \in Events : Written("completed", t)' <=> Written("completed", t)
    BY <1>4 DEF Written
<1>6. /\ offer'.event = offer.event /\ (offer' = offer \/ offer'.step = "refused")
      /\ (At("asked") \/ At("opening") <=> offer' # offer)
      /\ offer' \in {NoOffer, Crashed} \cup [event : Events, step : Steps] /\ ~At("asked")' /\ ~At("opening")'
    BY <1>1 DEF TurnsInv, TurnsTypeOK, At, NoOffer, Crashed, Steps
<1>7. (InHand' => InHand) /\ (At("thread")' => At("thread")) /\ (At("run")' => At("run"))
    BY <1>6 DEF InHand, At, Steps
<1>8. \A t \in Events : ~Running(t) /\ (Awaited(t)' <=> Awaited(t))
    <2>1. \A t \in Events : ~Running(t)
        BY <1>1 DEF TurnsInv, OneTurn
    <2> QED
        BY <2>1, <1>1, <1>5 DEF Awaited, Running
<1>9. TurnsTypeOK'
    BY <1>1, <1>4, <1>6 DEF TurnsInv, TurnsTypeOK, settings, counters
<1>10. OneTurn'
    BY <1>1, <1>6, <1>7, <1>8 DEF TurnsInv, OneTurn, Running
<1>11. Readable'
    <2>1. \A i \in DOMAIN stdout' : stdout'[i].kind = "completed" => turn'[stdout'[i].turn] = "done"
        BY <1>1, <1>4 DEF TurnsInv, Readable
    <2>2. \A p \in handling : p[1] \in Events /\ turn'[p[1]] = "done" /\ ~Written("completed", p[1])'
        BY <1>1, <1>5 DEF TurnsInv, TurnsTypeOK, Readable
    <2>3. \A i, j \in DOMAIN stdout' :
            i # j /\ stdout'[i].kind = "completed" /\ stdout'[j].kind = "completed" => stdout'[i].turn # stdout'[j].turn
        BY <1>4 DEF TurnsInv, Readable
    <2> QED
        BY <2>1, <2>2, <2>3, <1>1, <1>4 DEF Readable
<1>12. InOrder'
    BY <1>1, <1>6, <1>7 DEF TurnsInv, InOrder, Settled, Answered
<1>13. Reports'
    BY <1>1, <1>5, <1>7 DEF TurnsInv, TurnsTypeOK, Reports, settings
<1>14. Unnamed'
    <2> SUFFICES ASSUME names', NEW t \in Events, Awaited(t)', t \notin byTurn', ~Replied(t)'
                 PROVE  \/ fallback' /\ child' # "running" /\ offer'.event = t /\ offer'.step \in {"refused", "run"}
                        \/ ~fallback' /\ ~Settled(t)'
        BY DEF Unnamed
    <2>1. names /\ Awaited(t) /\ t \notin byTurn /\ Written("completed", t)
        BY <1>1, <1>8 DEF settings, Awaited
    <2>2. \/ Replied(t) \/ (~fallback /\ ~Settled(t))
          \/ fallback /\ offer.event = t /\ offer.step \in {"refused", "run"}
        BY <2>1 DEF TurnsInv, Unnamed
    <2>3. CASE ~fallback /\ ~Settled(t)
        BY <2>3, <1>1 DEF Settled, Answered, settings
    <2>4. CASE fallback /\ offer.event = t /\ offer.step \in {"refused", "run"}
        BY <2>4, <1>1, <1>6 DEF settings
    <2>5. CASE Replied(t)
        <3>1. offer.event = t /\ At("asked")
            BY <2>5, <1>6 DEF Replied, At
        <3>2. offer'.event = t /\ offer'.step = "refused"
            BY <3>1, <1>6
        <3>3. ASSUME ~fallback PROVE ~Settled(t)
            <4>1. t \notin accepted
                BY <3>1 DEF TurnsInv, OneTurn, InHand, At, Steps
            <4>2. ASSUME NEW s \in Events, <<s, t>> \in reported PROVE FALSE
                <5>1. <<s, t>>[1] = <<s, t>>[2]
                    BY <4>2, <2>1 DEF TurnsInv, OutcomeFits
                <5>2. ~Written("completed", <<s, t>>[1])
                    BY <4>2, <3>3 DEF TurnsInv, Reports
                <5> QED
                    BY <5>1, <5>2, <2>1
            <4> QED
                BY <4>1, <4>2 DEF Settled, Answered
        <3> QED
            BY <3>2, <3>3, <1>1 DEF Settled, Answered, settings
    <2> QED
        BY <2>2, <2>3, <2>4, <2>5
<1>15. Found' /\ OutcomeFits' /\ HandedFits'
    BY <1>1, <1>6, <1>8 DEF TurnsInv, Found, OutcomeFits, HandedFits, settings
<1> QED
    BY <1>9, <1>10, <1>11, <1>12, <1>13, <1>14, <1>15 DEF TurnsInv

\* What stays readable when a line is read.
LEMMA ReadableRead ==
    ASSUME TurnsInv, stdout # << >>, stdout' = Tail(stdout)
    PROVE  /\ \A i, j \in DOMAIN stdout' :
                \/ i = j
                \/ stdout'[i].kind \notin {"reply", "error"} \/ stdout'[j].kind \notin {"reply", "error"}
           /\ \A i, j \in DOMAIN stdout' :
                i # j /\ stdout'[i].kind = "completed" /\ stdout'[j].kind = "completed"
                    => stdout'[i].turn # stdout'[j].turn
           /\ \A i \in DOMAIN stdout' : \E k \in DOMAIN stdout : k # 1 /\ stdout'[i] = stdout[k]
           /\ stdout' \in Seq(Line) /\ Head(stdout) \in Line /\ 1 \in DOMAIN stdout /\ stdout[1] = Head(stdout)
<1>1. stdout \in Seq(Line)
    BY DEF TurnsInv, TurnsTypeOK
<1>2. /\ stdout' \in Seq(Line) /\ Head(stdout) \in Line /\ 1 \in DOMAIN stdout /\ stdout[1] = Head(stdout)
      /\ \A i \in DOMAIN stdout' : i + 1 \in DOMAIN stdout /\ i + 1 # 1 /\ stdout'[i] = stdout[i + 1] /\ i \in Nat
    BY <1>1, LineRead
<1>3. \A i, j \in DOMAIN stdout' : i # j => i + 1 # j + 1
    BY <1>2
<1>4. \A i, j \in DOMAIN stdout' :
        \/ i = j
        \/ stdout'[i].kind \notin {"reply", "error"} \/ stdout'[j].kind \notin {"reply", "error"}
    BY <1>2, <1>3 DEF TurnsInv, Readable
<1>5. \A i, j \in DOMAIN stdout' :
        i # j /\ stdout'[i].kind = "completed" /\ stdout'[j].kind = "completed" => stdout'[i].turn # stdout'[j].turn
    BY <1>2, <1>3 DEF TurnsInv, Readable
<1> QED
    BY <1>2, <1>4, <1>5

\* An answer nobody waits for is skipped.
LEMMA StaleTurn ==
    ASSUME TurnsInv, ReadStale
    PROVE  TurnsInv'
<1>1. /\ stdout # << >> /\ Head(stdout).kind = "stale" /\ stdout' = Tail(stdout)
      /\ UNCHANGED <<settings, child, known, cached, byThread, byTurn, offer, turn, handling, accepted, reported, counters,
                     overlapped, chased>>
    BY DEF ReadStale
<1>2. stdout \in Seq(Line)
    BY DEF TurnsInv, TurnsTypeOK
<1>3. /\ \A k, t : Written(k, t)' => Written(k, t)
      /\ \A k, t : k # "stale" => (Written(k, t)' <=> Written(k, t))
    BY <1>1, <1>2, WrittenAfterRead
<1>4. \A t \in Events : (Awaited(t)' <=> Awaited(t)) /\ (Replied(t)' <=> Replied(t))
    BY <1>1, <1>3 DEF Awaited, Running, Replied, At
<1>5. TurnsTypeOK'
    BY <1>1, ReadableRead DEF TurnsInv, TurnsTypeOK, settings, counters
<1>6. OneTurn'
    BY <1>1, <1>4 DEF TurnsInv, OneTurn, At, InHand, Running
<1>7. Readable'
    <2>1. \A i \in DOMAIN stdout' : \E k \in DOMAIN stdout : k # 1 /\ stdout'[i] = stdout[k]
        BY <1>1, ReadableRead
    <2>2. \A p \in handling' : turn'[p[1]] = "done" /\ ~Written("completed", p[1])'
        BY <1>1, <1>3 DEF TurnsInv, Readable
    <2>3. \A i \in DOMAIN stdout' :
            /\ stdout'[i].kind \in {"reply", "error"} => (At("asked") \/ At("opening"))' /\ stdout'[i].turn = offer'.event
            /\ stdout'[i].kind = "completed" => turn'[stdout'[i].turn] = "done"
        BY <2>1, <1>1 DEF TurnsInv, Readable, At
    <2>4. \A i, j \in DOMAIN stdout' :
            \/ i = j
            \/ stdout'[i].kind \notin {"reply", "error"} \/ stdout'[j].kind \notin {"reply", "error"}
        BY <1>1, ReadableRead
    <2>5. \A i, j \in DOMAIN stdout' :
            i # j /\ stdout'[i].kind = "completed" /\ stdout'[j].kind = "completed" => stdout'[i].turn # stdout'[j].turn
        BY <1>1, ReadableRead
    <2> QED
        BY <2>2, <2>3, <2>4, <2>5 DEF Readable
<1>8. InOrder' /\ Reports'
    BY <1>1, <1>3 DEF TurnsInv, InOrder, Reports, Settled, Answered, InHand, At, settings
<1>9. Unnamed' /\ Found' /\ OutcomeFits' /\ HandedFits'
    BY <1>1, <1>4 DEF TurnsInv, Unnamed, Found, OutcomeFits, HandedFits, Settled, Answered, At, settings
<1> QED
    BY <1>5, <1>6, <1>7, <1>8, <1>9 DEF TurnsInv

\* A request of the child is answered.
LEMMA RequestTurn ==
    ASSUME TurnsInv, ReadRequest, ~ProcessEnds
    PROVE  TurnsInv'
<1>1. /\ stdout # << >> /\ Head(stdout).kind = "request"
      /\ RequestAnswered(Head(stdout).turn)
      /\ UNCHANGED <<settings, child, known, cached, byThread, byTurn, accepted, reported, counters,
                     overlapped, chased>>
    BY DEF ReadRequest
<1>2. /\ stdout \in Seq(Line) /\ Head(stdout).turn \in Events
      /\ turn \in [Events -> {"none", "running", "asking", "done", "lost"}]
    <2>1. stdout \in Seq(Line) /\ turn \in [Events -> {"none", "running", "asking", "done", "lost"}]
        BY DEF TurnsInv, TurnsTypeOK
    <2>2. Head(stdout) \in Line
        BY <2>1, <1>1
    <2> QED
        BY <2>1, <2>2 DEF Line
<1>3. /\ turn' \in [Events -> {"none", "running", "asking", "done", "lost"}]
      /\ \A t \in Events : turn'[t] = turn[t] \/ (turn[t] = "asking" /\ turn'[t] = "running")
    BY <1>1, <1>2 DEF RequestAnswered
<1>4. \A t \in Events : Running(t)' <=> Running(t)
    BY <1>3 DEF Running
<1>5. stdout' = Tail(stdout) /\ UNCHANGED <<offer, handling>>
    BY DEF ReadRequest
<1>6. /\ \A k, t : Written(k, t)' => Written(k, t)
      /\ \A k, t : k # "request" => (Written(k, t)' <=> Written(k, t))
    BY <1>1, <1>2, <1>5, WrittenAfterRead
<1>7. \A t \in Events : (Awaited(t)' <=> Awaited(t)) /\ (Replied(t)' <=> Replied(t))
    BY <1>4, <1>5, <1>6 DEF Awaited, Replied, At
<1>8. TurnsTypeOK'
    BY <1>1, <1>3, <1>5, ReadableRead DEF TurnsInv, TurnsTypeOK, settings, counters
<1>9. OneTurn'
    BY <1>1, <1>3, <1>4, <1>5, <1>7 DEF TurnsInv, OneTurn, At, InHand
<1>10. Readable'
    <2>1. \A i \in DOMAIN stdout' : \E k \in DOMAIN stdout : k # 1 /\ stdout'[i] = stdout[k] /\ stdout[k] \in Line
        BY <1>1, <1>2, <1>5, ReadableRead
    <2>2. \A p \in handling' : p[1] \in Events /\ turn'[p[1]] = "done" /\ ~Written("completed", p[1])'
        BY <1>3, <1>5, <1>6 DEF TurnsInv, TurnsTypeOK, Readable
    <2>3. \A i \in DOMAIN stdout' :
              stdout'[i].kind \in {"reply", "error"} => (At("asked") \/ At("opening"))' /\ stdout'[i].turn = offer'.event
        BY <2>1, <1>5 DEF TurnsInv, Readable, At
    <2>4. \A i \in DOMAIN stdout' : stdout'[i].kind = "completed" => turn'[stdout'[i].turn] = "done"
        BY <2>1, <1>3 DEF TurnsInv, Readable, Line
    <2>5. \A i, j \in DOMAIN stdout' :
            \/ i = j
            \/ stdout'[i].kind \notin {"reply", "error"} \/ stdout'[j].kind \notin {"reply", "error"}
        BY <1>1, <1>5, ReadableRead
    <2>6. \A i, j \in DOMAIN stdout' :
            i # j /\ stdout'[i].kind = "completed" /\ stdout'[j].kind = "completed"
                => stdout'[i].turn # stdout'[j].turn
        BY <1>1, <1>5, ReadableRead
    <2> QED
        BY <2>2, <2>3, <2>4, <2>5, <2>6 DEF Readable
<1>11. InOrder'
    <2>1. \A t \in Events : turn'[t] # "none" <=> turn[t] # "none"
        BY <1>3
    <2> QED
        BY <2>1, <1>1, <1>5 DEF TurnsInv, InOrder, Settled, Answered, InHand
<1>12. Reports'
    BY <1>1, <1>3, <1>5, <1>6 DEF TurnsInv, TurnsTypeOK, Reports, At, settings
<1>13. Unnamed' /\ Found' /\ OutcomeFits' /\ HandedFits'
    BY <1>1, <1>5, <1>7 DEF TurnsInv, Unnamed, Found, OutcomeFits, HandedFits, Settled, Answered, At, settings
<1> QED
    BY <1>8, <1>9, <1>10, <1>11, <1>12, <1>13 DEF TurnsInv

\* The answer settles the request that waits.
LEMMA ReplyTurn ==
    ASSUME TurnsInv, ReadReply
    PROVE  TurnsInv'
<1> DEFINE e == offer.event
<1>1. /\ stdout # << >> /\ Head(stdout).kind \in {"reply", "error"} /\ stdout' = Tail(stdout)
      /\ offer' = [offer EXCEPT !.step = IF Head(stdout).kind = "error" THEN "refused"
                                          ELSE IF At("opening") THEN "turn" ELSE "replied"]
      /\ UNCHANGED <<settings, child, known, cached, byThread, byTurn, turn, handling, accepted, reported, counters,
                     overlapped, chased>>
    BY DEF ReadReply
<1>2. stdout \in Seq(Line) /\ 1 \in DOMAIN stdout /\ stdout[1] = Head(stdout)
    BY <1>1, ReadableRead DEF TurnsInv, TurnsTypeOK
<1>3. offer.step \in {"asked", "opening"} /\ Head(stdout).turn = e /\ e \in Events /\ InHand
    BY <1>1, <1>2 DEF TurnsInv, TurnsTypeOK, Readable, At, NoOffer, Crashed, InHand, Steps
<1>4. /\ offer' \in [event : Events, step : Steps] /\ offer'.event = e
      /\ offer'.step \in {"replied", "refused", "turn"} /\ (offer'.step = "turn" => offer.step = "opening")
      /\ (offer'.step = "replied" <=> Head(stdout).kind = "reply" /\ offer.step = "asked")
    BY <1>1, <1>3 DEF TurnsInv, TurnsTypeOK, NoOffer, Crashed, Steps, At
<1>5. \A i \in DOMAIN stdout : i # 1 => stdout[i].kind \notin {"reply", "error"}
    BY <1>1, <1>2 DEF TurnsInv, Readable
<1> HIDE DEF e
<1>6. /\ \A k, t : Written(k, t)' => Written(k, t)
      /\ \A k, t : k \notin {"reply", "error"} => (Written(k, t)' <=> Written(k, t))
    BY <1>1, <1>2, WrittenAfterRead
<1>7. \A t \in Events : Awaited(t)' <=> Awaited(t)
    BY <1>1, <1>6 DEF Awaited, Running
<1>8. \A t \in Events : Replied(t)' <=> Replied(t)
    <2>1. \A t \in Events : Replied(t) <=> t = e /\ Head(stdout).kind = "reply" /\ offer.step = "asked"
        BY <1>2, <1>3, <1>5 DEF Replied, At, Written, e
    <2>2. \A t \in Events : Replied(t)' <=> t = e /\ Head(stdout).kind = "reply" /\ offer.step = "asked"
        BY <1>4 DEF Replied, At
    <2> QED
        BY <2>1, <2>2
<1>9. TurnsTypeOK'
    BY <1>1, <1>4, ReadableRead DEF TurnsInv, TurnsTypeOK, settings, counters
<1>10. OneTurn'
    BY <1>1, <1>3, <1>4, <1>8 DEF TurnsInv, OneTurn, At, InHand, Running, e
<1>11. Readable'
    <2>1. \A i \in DOMAIN stdout' : \E k \in DOMAIN stdout : k # 1 /\ stdout'[i] = stdout[k]
        BY <1>1, ReadableRead
    <2>2. \A p \in handling' : turn'[p[1]] = "done" /\ ~Written("completed", p[1])'
        BY <1>1, <1>6 DEF TurnsInv, Readable
    <2>3. \A i \in DOMAIN stdout' : /\ stdout'[i].kind \notin {"reply", "error"}
                                    /\ stdout'[i].kind = "completed" => turn'[stdout'[i].turn] = "done"
        BY <2>1, <1>1, <1>5 DEF TurnsInv, Readable
    <2>4. \A i, j \in DOMAIN stdout' :
            i # j /\ stdout'[i].kind = "completed" /\ stdout'[j].kind = "completed" => stdout'[i].turn # stdout'[j].turn
        BY <1>1, ReadableRead
    <2> QED
        BY <2>2, <2>3, <2>4 DEF Readable
<1>12. InOrder'
    BY <1>1, <1>3, <1>4 DEF TurnsInv, InOrder, Settled, Answered, InHand, e
<1>13. Reports'
    BY <1>1, <1>4, <1>6 DEF TurnsInv, Reports, At, settings
<1>14. Unnamed'
    BY <1>1, <1>3, <1>7, <1>8 DEF TurnsInv, Unnamed, Settled, Answered, settings
<1>15. Found' /\ OutcomeFits' /\ HandedFits'
    BY <1>1, <1>4, <1>7 DEF TurnsInv, Found, OutcomeFits, HandedFits, At, settings
<1> QED
    BY <1>9, <1>10, <1>11, <1>12, <1>13, <1>14, <1>15 DEF TurnsInv

\* A completion finds the event by its turn or by its thread.
LEMMA CompletionTurn ==
    ASSUME TurnsInv, NEW t, t = Head(stdout).turn, ReadCompleted
    PROVE  TurnsInv'
<1>1. /\ stdout # << >> /\ Head(stdout).kind = "completed" /\ stdout' = Tail(stdout)
      /\ UNCHANGED <<settings, child, known, cached, byThread, byTurn, offer, turn, accepted, reported, counters,
                     overlapped>>
      /\ handling' = IF EventOf(t) = NoEvent THEN handling ELSE handling \cup {<<t, EventOf(t)>>}
    BY DEF ReadCompleted
<1>2. chased' \in BOOLEAN
    <2>1. chased' = (chased \/ offer.event = t)
        BY DEF ReadCompleted
    <2> QED
        BY <2>1, Zenon
<1>3. stdout \in Seq(Line) /\ 1 \in DOMAIN stdout /\ stdout[1] = Head(stdout) /\ t \in Events
    BY <1>1, ReadableRead DEF TurnsInv, TurnsTypeOK, Line
<1>4. turn[t] = "done" /\ Written("completed", t)
    BY <1>1, <1>3 DEF TurnsInv, Readable, Written
<1>5. /\ \A k, s : Written(k, s)' => Written(k, s)
      /\ \A k, s : k # "completed" \/ s # t => (Written(k, s)' <=> Written(k, s))
    BY <1>1, <1>3, WrittenAfterRead
<1>6. ~Written("completed", t)'
    <2>1. \A i \in DOMAIN stdout' : \E k \in DOMAIN stdout : k # 1 /\ stdout'[i] = stdout[k]
        BY <1>1, ReadableRead
    <2>2. \A k \in DOMAIN stdout : k # 1 /\ stdout[k].kind = "completed" => stdout[k].turn # stdout[1].turn
        BY <1>1, <1>3 DEF TurnsInv, Readable
    <2>3. ASSUME NEW i \in DOMAIN stdout', stdout'[i].kind = "completed", stdout'[i].turn = t PROVE FALSE
        BY <2>1, <2>2, <2>3, <1>3
    <2> QED
        BY <2>3 DEF Written
<1>7. EventOf(t) \in Events \cup {NoEvent}
    BY <1>3, EventFacts DEF EventOf, TurnsInv, TurnsTypeOK
<1>8. names \/ ~overlapped => EventOf(t) \in {t, NoEvent}
    BY <1>3, <1>4 DEF TurnsInv, Found, EventOf, Awaited
<1>9. \A s \in Events : Awaited(s)' => Awaited(s) /\ s # t
    <2>1. ~Running(t)
        BY <1>4 DEF Running
    <2>2. \A s \in Events : Running(s)' <=> Running(s)
        BY <1>1 DEF Running
    <2> QED
        BY <2>1, <2>2, <1>5, <1>6 DEF Awaited
<1>10. \A s \in Events : Replied(s)' <=> Replied(s)
    BY <1>1, <1>5 DEF Replied, At
<1>11. /\ \A p \in handling' : p \in handling \/ (p[1] = t /\ p = <<t, EventOf(t)>> /\ EventOf(t) # NoEvent)
       /\ <<t, EventOf(t)>>[1] = t /\ <<t, EventOf(t)>>[2] = EventOf(t)
    BY <1>1
<1>12. TurnsTypeOK'
    <2>1. handling' \subseteq Events \X Events
        BY <1>3, <1>7, <1>11 DEF TurnsInv, TurnsTypeOK
    <2>2. stdout' \in Seq(Line)
        BY <1>1, <1>3, ReadableRead DEF TurnsInv, TurnsTypeOK
    <2> QED
        BY <1>1, <1>2, <2>1, <2>2 DEF TurnsInv, TurnsTypeOK, settings, counters
<1>13. OneTurn'
    BY <1>1, <1>10 DEF TurnsInv, OneTurn, At, InHand, Running
<1>14. Readable'
    <2>1. \A i \in DOMAIN stdout' : \E k \in DOMAIN stdout : k # 1 /\ stdout'[i] = stdout[k]
        BY <1>1, ReadableRead
    <2>2. \A p \in handling' : turn'[p[1]] = "done" /\ ~Written("completed", p[1])'
        BY <1>1, <1>4, <1>5, <1>6, <1>11 DEF TurnsInv, Readable
    <2>3. \A i \in DOMAIN stdout' :
            /\ stdout'[i].kind \in {"reply", "error"} => (At("asked") \/ At("opening"))' /\ stdout'[i].turn = offer'.event
            /\ stdout'[i].kind = "completed" => turn'[stdout'[i].turn] = "done"
        BY <2>1, <1>1 DEF TurnsInv, Readable, At
    <2>4. \A i, j \in DOMAIN stdout' :
            \/ i = j
            \/ stdout'[i].kind \notin {"reply", "error"} \/ stdout'[j].kind \notin {"reply", "error"}
        BY <1>1, ReadableRead
    <2>5. \A i, j \in DOMAIN stdout' :
            i # j /\ stdout'[i].kind = "completed" /\ stdout'[j].kind = "completed" => stdout'[i].turn # stdout'[j].turn
        BY <1>1, ReadableRead
    <2> QED
        BY <2>2, <2>3, <2>4, <2>5 DEF Readable
<1>15. \A s \in Events : Settled(s)' <=> Settled(s)
    BY <1>1 DEF Settled, Answered
<1>16. InOrder'
    BY <1>1, <1>15 DEF TurnsInv, InOrder, InHand
<1>17. Reports'
    BY <1>1, <1>5 DEF TurnsInv, Reports, At, settings
<1>18. Unnamed'
    BY <1>1, <1>9, <1>10, <1>15 DEF TurnsInv, Unnamed, settings
<1>19. Found'
    BY <1>1, <1>9 DEF TurnsInv, Found, At, settings
<1>20. OutcomeFits' /\ HandedFits'
    BY <1>1, <1>8, <1>11 DEF TurnsInv, OutcomeFits, HandedFits, settings
<1> QED
    BY <1>12, <1>13, <1>14, <1>16, <1>17, <1>18, <1>19, <1>20 DEF TurnsInv

-----------------------------------------------------------------------------
\* The invariant holds before the first event is offered.
LEMMA TurnsInvInit == TurnsInit => TurnsInv
<1> SUFFICES ASSUME TurnsInit PROVE TurnsInv
    OBVIOUS
<1> USE DEF TurnsInit
<1>1. TurnsTypeOK
    <2>1. names \in BOOLEAN /\ fallback \in BOOLEAN /\ overlapped \in BOOLEAN /\ chased \in BOOLEAN
        BY Zenon
    <2>2. /\ byThread \in [Inboxes -> Events \cup {NoEvent}]
          /\ turn \in [Events -> {"none", "running", "asking", "done", "lost"}]
        OBVIOUS
    <2>3. exits \in 0..MaxExits /\ refusals \in 0..MaxRefusals /\ questions \in 0..MaxQuestions
        BY InboxAssumption
    <2>4. stdout \in Seq(Line)
        OBVIOUS
    <2> QED
        BY <2>1, <2>2, <2>3, <2>4 DEF TurnsTypeOK
<1>2. offer.event = NoEvent /\ offer.step = "idle" /\ ~InHand
    BY DEF NoOffer, InHand, Steps
<1>3. \A t \in Events : ~Awaited(t) /\ ~Running(t)
    BY DEF Awaited, Running, Written
<1>4. OneTurn /\ Readable /\ InOrder /\ Reports
    BY <1>2, <1>3 DEF OneTurn, Readable, InOrder, Reports, At
<1>5. Unnamed /\ Found /\ OutcomeFits /\ HandedFits
    BY <1>2, <1>3 DEF Unnamed, Found, OutcomeFits, HandedFits, At
<1> QED
    BY <1>1, <1>4, <1>5 DEF TurnsInv

\* A failure without a handler ends the process.
LEMMA EndTurn ==
    ASSUME TurnsInv, ThreadAsked \/ TurnAsked \/ ReadRequest \/ HandlerFails, ProcessEnds
    PROVE  TurnsOver'
<1>1. offer' = Crashed /\ stdout' = << >> /\ handling' = {}
    BY DEF ProcessEnds
<1>2. /\ UNCHANGED <<settings, known, byTurn, accepted, reported, counters, chased>>
      /\ child' \in {"running", "dead", "exited", "stuck"}
    BY DEF ThreadAsked, TurnAsked, ReadRequest, HandlerFails, TurnsInv, TurnsTypeOK
<1>3. cached' \subseteq Inboxes /\ byThread' \in [Inboxes -> Events \cup {NoEvent}]
    <2>1. CASE TurnAsked
        <3>1. offer.event \in Events
            BY <2>1 DEF TurnAsked, TurnsInv, TurnsTypeOK, At, NoOffer, Crashed
        <3> QED
            BY <2>1, <3>1, EventFacts DEF TurnAsked, TurnsInv, TurnsTypeOK
    <2>2. CASE ~TurnAsked
        BY <2>2 DEF ThreadAsked, ReadRequest, HandlerFails, TurnsInv, TurnsTypeOK
    <2> QED
        BY <2>1, <2>2
<1>4. turn' \in [Events -> {"none", "running", "asking", "done", "lost"}]
    BY DEF ThreadAsked, TurnAsked, ReadRequest, HandlerFails, RequestAnswered, TurnsInv, TurnsTypeOK
<1>5. overlapped' \in BOOLEAN /\ (~overlapped' => ~overlapped)
    <2>1. CASE TurnAsked
        <3>1. overlapped' = (overlapped \/ \E t \in ToSet(Inbox[ChannelOf(offer.event)]) : Unfinished(t))
            BY <2>1 DEF TurnAsked
        <3> QED
            BY <3>1, Zenon
    <2>2. CASE ~TurnAsked
        BY <2>2 DEF ThreadAsked, ReadRequest, HandlerFails, TurnsInv, TurnsTypeOK
    <2> QED
        BY <2>1, <2>2
<1>6. stdout' \in Seq(Line) /\ handling' \subseteq Events \X Events
    BY <1>1
<1>7. TurnsTypeOK'
    BY <1>1, <1>2, <1>3, <1>4, <1>5, <1>6 DEF TurnsInv, TurnsTypeOK, settings, counters
<1>8. OutcomeFits'
    BY <1>2, <1>5 DEF TurnsInv, OutcomeFits, settings
<1> QED
    BY <1>1, <1>7, <1>8 DEF TurnsOver

LEMMA OverStays == TurnsOver /\ [TurnsNext]_turnsVars => TurnsOver'
<1> SUFFICES ASSUME TurnsOver, [TurnsNext]_turnsVars PROVE TurnsOver'
    OBVIOUS
<1> USE DEF TurnsOver
<1>1. offer = Crashed /\ offer.step = "crashed" /\ offer # NoOffer /\ ~Serves
    BY DEF Crashed, NoOffer, Serves
<1>2. ~Deliver
    BY <1>1 DEF Deliver, Offer, ThreadAsked, TurnAsked, TurnAccepted, TurnDeferred, RunEnds, At
<1>3. ~Answer /\ ~Listen /\ ~HandlerFails
    BY <1>1 DEF Answer, ChildOpens, ChildTakes, ChildRefuses, Waiting, Listen, ExitSeen, ReadReply, ReadStale,
                ReadRequest, ReadCompleted, Handled, HandlerFails
<1>4. \A t \in Events : ~ChildCompletes(t) /\ ~ChildAsks(t)
    BY <1>1 DEF ChildCompletes, ChildAsks
<1>5. \A heard \in BOOLEAN : ~ChildDies(heard)
    BY <1>1 DEF ChildDies
<1>6. UNCHANGED turnsVars
    BY <1>2, <1>3, <1>4, <1>5 DEF TurnsNext
<1>7. TurnsTypeOK' /\ UNCHANGED <<names, overlapped, reported, offer, stdout, handling>>
    BY <1>6 DEF turnsVars, settings, counters, TurnsTypeOK
<1> QED
    BY <1>7 DEF OutcomeFits

\* A step keeps the invariant or ends the process.
LEMMA TurnsInvNext == TurnsInv /\ [TurnsNext]_turnsVars => TurnsInv' \/ TurnsOver'
<1> SUFFICES ASSUME TurnsInv, [TurnsNext]_turnsVars PROVE TurnsInv' \/ TurnsOver'
    OBVIOUS
<1>1. CASE Deliver
    BY <1>1, OfferTurn, ThreadTurn, AskedTurn, AcceptedTurn, DeferredTurn, RunTurn, EndTurn DEF Deliver
<1>2. CASE Answer
    BY <1>2, OpensTurn, TakenTurn, RefusedTurn DEF Answer
<1>3. CASE Listen
    BY <1>3, SeenTurn, ReplyTurn, StaleTurn, RequestTurn, CompletionTurn, HandledTurn, EndTurn DEF Listen
<1>4. CASE \E t \in Events : ChildCompletes(t) \/ ChildAsks(t)
    BY <1>4, CompletedTurn, AskingTurn
<1>5. CASE \E heard \in BOOLEAN : ChildDies(heard)
    BY <1>5, DiesTurn
<1>7. CASE HandlerFails
    BY <1>7, EndTurn DEF HandlerFails
<1>6. CASE UNCHANGED turnsVars
    <2>1. UNCHANGED <<settings, child, known, cached, byThread, byTurn, offer, turn, stdout, handling, accepted, reported,
                      counters, overlapped, chased>>
        BY <1>6 DEF turnsVars
    <2>2. \A k, t : Written(k, t)' <=> Written(k, t)
        BY <2>1 DEF Written
    <2>3. \A t \in Events : (Awaited(t)' <=> Awaited(t)) /\ (Replied(t)' <=> Replied(t))
        BY <2>1, <2>2 DEF Awaited, Replied, Running, At
    <2>4. TurnsTypeOK'
        BY <2>1 DEF TurnsInv, TurnsTypeOK, settings, counters
    <2>5. OneTurn' /\ Readable'
        BY <2>1, <2>2, <2>3 DEF TurnsInv, OneTurn, Readable, At, InHand, Running
    <2>6. InOrder' /\ Reports'
        BY <2>1, <2>2 DEF TurnsInv, InOrder, Reports, At, InHand, Settled, Answered, settings
    <2>7. Unnamed' /\ Found' /\ OutcomeFits' /\ HandedFits'
        BY <2>1, <2>3 DEF TurnsInv, Unnamed, Found, OutcomeFits, HandedFits, At, Settled, Answered, settings
    <2> QED
        BY <2>4, <2>5, <2>6, <2>7 DEF TurnsInv
<1> QED
    BY <1>1, <1>2, <1>3, <1>4, <1>5, <1>6, <1>7 DEF TurnsNext

\* In every reachable state the invariant of the turns holds or the process has ended.
LEMMA TurnsInvHolds == TurnsSpec => [](TurnsInv \/ TurnsOver)
<1>1. TurnsInit => TurnsInv
    BY TurnsInvInit
<1>2. (TurnsInv \/ TurnsOver) /\ [TurnsNext]_turnsVars => (TurnsInv \/ TurnsOver)'
    BY TurnsInvNext, OverStays
<1> QED
    BY <1>1, <1>2, PTL DEF TurnsSpec

\* The outcome of a turn is reported for the event the turn was started for: always where the
\* app server names its turns, and otherwise as long as no two turns of a thread overlap.
THEOREM OutcomeFitsHolds == TurnsSpec => []OutcomeFits
<1>1. TurnsInv \/ TurnsOver => OutcomeFits
    BY DEF TurnsInv, TurnsOver
<1> QED
    BY <1>1, TurnsInvHolds, PTL
=============================================================================
