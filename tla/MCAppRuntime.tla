---------------------------- MODULE MCAppRuntime ----------------------------
(***************************************************************************)
(* Instances of AppRuntime for TLC: two events of one task, and one that   *)
(* no consumer accepts.                                                    *)
(***************************************************************************)
EXTENDS AppRuntime, TLC

CONSTANTS e1, e2, e3, task1, pump, outcome, p, q

MCContextOf == [e \in Events |-> task1]

\* The calls are alike, so are the processes, and the events of one task that the consumer accepts.
MCSymmetry == Permutations(Calls) \cup Permutations(Events \cap Supported) \cup Permutations(Procs)

\* An event that nobody accepts is followed in the first runtime only; two processes at once are
\* followed as long as each makes one call at a time and the harness reports no outcome.
Short ==
    /\ starts > 1 => record[Received(e3)] = "none"
    /\ shared => /\ \A e \in Events : record[OutcomeOf(e)] = "none"
                 /\ \A r \in Procs : Cardinality({t \in Calls : call[r][t] # Idle}) <= 1
=============================================================================
