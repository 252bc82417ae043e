---------------------------- MODULE HarnessTurns ----------------------------
(***************************************************************************)
(* Events handed to a Codex app server (harness-codex/src/index.ts) behind *)
(* RuntimeIngressDispatcher (runtime-ingress/src/index.ts), with one run   *)
(* of a command per event to fall back on: a process (ingress-process),    *)
(* codex exec (harness-codex) or claude -p (harness-claude-code).          *)
(*                                                                         *)
(* The app server is a child process that talks lines of JSON.  It may ask *)
(* its client in the middle of a turn, for an approval for instance, and   *)
(* goes on when it is answered: nobody set onServerRequest, so it is       *)
(* refused.                                                                *)
(*                                                                         *)
(* Three failures have no handler and end this process: an answer that     *)
(* cannot be written since the child is gone, an error of the pipe to a    *)
(* child that has died and whose exit was not seen yet, and an outcome     *)
(* handler that fails.  A spawn that fails leaves #started set: what is    *)
(* asked of that child is never answered.                                  *)
(*                                                                         *)
(* A channel keeps one thread; the turn of an event is answered twice, by  *)
(* a reply to turn/start and, later, by the notification turn/completed.   *)
(* The adapter finds the event of a notification in two maps, by turn and  *)
(* by thread, and drops the entries after it has awaited the outcome       *)
(* handler.                                                                *)
(*                                                                         *)
(* An event has one turn at most: its thread is asked again only after the *)
(* child refused it, and dies with the child.  A turn is named by its      *)
(* event and a thread by its channel.                                      *)
(***************************************************************************)
EXTENDS Integers, Sequences, SequencesExt

CONSTANTS
    Inbox,      \* Inbox[c]: the events of a channel, as the pump offers them
    NoEvent,
    MaxExits,   \* bound on the deaths of the child
    MaxRefusals, \* bound on the turns the child refuses and the runs that leave an event undelivered
    MaxQuestions     \* bound on the requests of the child

ASSUME InboxAssumption ==
    /\ \A c \in DOMAIN Inbox : DOMAIN Inbox[c] = 1..Len(Inbox[c]) /\ Len(Inbox[c]) \in Nat /\ IsInjective(Inbox[c])
    /\ \A c, d \in DOMAIN Inbox : c # d => ToSet(Inbox[c]) \cap ToSet(Inbox[d]) = {}
    /\ \A c \in DOMAIN Inbox : NoEvent \notin ToSet(Inbox[c])
    /\ MaxExits \in Nat /\ MaxRefusals \in Nat /\ MaxQuestions \in Nat

Inboxes == DOMAIN Inbox
Events == UNION {ToSet(Inbox[c]) : c \in Inboxes}
ChannelOf(e) == CHOOSE c \in Inboxes : e \in ToSet(Inbox[c])

VARIABLES
    names,      \* whether the app server names its turns
    fallback,   \* RuntimeIngressDispatcherOptions.fallbackOnDeferred
    child,      \* "dead": its exit was not seen yet, "exited": it was, "stuck": the spawn failed
    known,      \* threads the child has
    cached,     \* #threadByChannel
    byThread,   \* #eventByThread
    byTurn,     \* #eventByTurn: the turns it has
    offer,      \* the delivery the pump awaits
    turn,       \* what became of the turn of each event
    stdout,     \* lines of the child that were not read yet
    handling,   \* <<t, e>>: the outcome handler is awaited with the outcome of the turn of t for e
    accepted,   \* events the adapters accepted
    reported,   \* <<t, e>>: the handler has taken the outcome of the turn of t for e
    exits, refusals, questions,
    overlapped, \* history: a turn was asked for in a thread that was not done with another one
    chased      \* history: a turn was completed before the reply to turn/start was acted on

settings == <<names, fallback>>
counters == <<exits, refusals, questions>>
turnsVars == <<settings, child, known, cached, byThread, byTurn, offer, turn, stdout, handling, accepted, reported,
               counters, overlapped, chased>>

NoOffer == [event |-> NoEvent, step |-> "idle"]
Crashed == [event |-> NoEvent, step |-> "crashed"]
Steps == {"thread", "opening", "turn", "asked", "replied", "refused", "run"}
Line == [kind : {"reply", "error", "stale", "request", "completed"}, turn : Events]
Runs == {"process", "codex-exec", "claude-print"}

TurnsTypeOK ==
    /\ names \in BOOLEAN /\ fallback \in BOOLEAN /\ child \in {"running", "dead", "exited", "stuck"}
    /\ known \subseteq Inboxes /\ cached \subseteq Inboxes
    /\ byThread \in [Inboxes -> Events \cup {NoEvent}]
    /\ byTurn \subseteq Events
    /\ offer \in {NoOffer, Crashed} \cup [event : Events, step : Steps]
    /\ turn \in [Events -> {"none", "running", "asking", "done", "lost"}]
    /\ stdout \in Seq(Line)
    /\ accepted \subseteq Events
    /\ handling \subseteq Events \X Events /\ reported \subseteq Events \X Events
    /\ exits \in 0..MaxExits /\ refusals \in 0..MaxRefusals /\ questions \in 0..MaxQuestions
    /\ overlapped \in BOOLEAN /\ chased \in BOOLEAN

TurnsInit ==
    /\ names \in BOOLEAN /\ fallback \in BOOLEAN
    /\ child \in {"running", "stuck"}
    /\ known = {} /\ cached = {} /\ byTurn = {}
    /\ byThread = [c \in Inboxes |-> NoEvent]
    /\ offer = NoOffer
    /\ turn = [e \in Events |-> "none"]
    /\ stdout = << >>
    /\ handling = {} /\ accepted = {} /\ reported = {}
    /\ exits = 0 /\ refusals = 0 /\ questions = 0
    /\ overlapped = FALSE /\ chased = FALSE

Answered(e) == \E t \in Events : <<t, e>> \in reported
Settled(e) == e \in accepted \/ Answered(e)
At(step) == offer.step = step

\* A rejection or an error event without a handler: the process ends.
ProcessEnds == offer' = Crashed /\ stdout' = << >> /\ handling' = {}
ChildStarted == child # "exited"
Serves == child = "running" /\ offer # Crashed

-----------------------------------------------------------------------------
\* The pump offers the first event of a channel that is neither accepted nor answered, and
\* awaits its delivery.
Offer(c) ==
    /\ offer = NoOffer
    /\ \E i \in DOMAIN Inbox[c] :
        /\ ~Settled(Inbox[c][i]) /\ \A j \in 1..(i - 1) : Settled(Inbox[c][j])
        /\ offer' = [event |-> Inbox[c][i], step |-> IF c \in cached THEN "turn" ELSE "thread"]
    /\ UNCHANGED <<settings, child, known, cached, byThread, byTurn, turn, stdout, handling, accepted, reported,
                   counters, overlapped, chased>>

\* A line is written to the child, and an answer awaited.  A child that has just died may fail
\* the pipe.
Sent(step) ==
    \/ offer' = [offer EXCEPT !.step = step] /\ UNCHANGED <<stdout, handling>>
    \/ child = "dead" /\ ProcessEnds

\* startThread starts a child that has exited; initialize and thread/start are one exchange.
ThreadAsked ==
    /\ At("thread")
    /\ \/ ChildStarted /\ Sent("opening") /\ UNCHANGED child
       \/ /\ ~ChildStarted
          /\ \/ child' = "running" /\ offer' = [offer EXCEPT !.step = "opening"]
             \/ child' = "stuck" /\ offer' = [offer EXCEPT !.step = "refused"]
          /\ UNCHANGED <<stdout, handling>>
    /\ UNCHANGED <<settings, known, cached, byThread, byTurn, turn, accepted, reported, counters, overlapped, chased>>

Running(t) == turn[t] \in {"running", "asking"}
Unfinished(t) ==
    \/ Running(t) \/ [kind |-> "completed", turn |-> t] \in ToSet(stdout)
    \/ \E e \in Events : <<t, e>> \in handling

\* The thread is remembered and its turn asked for; startTurn does not start a child.
TurnAsked ==
    /\ At("turn")
    /\ LET c == ChannelOf(offer.event)
       IN  /\ cached' = cached \cup {c}
           /\ byThread' = [byThread EXCEPT ![c] = offer.event]
           /\ overlapped' = (overlapped \/ \E t \in ToSet(Inbox[c]) : Unfinished(t))
    /\ IF ChildStarted THEN Sent("asked")
       ELSE offer' = [offer EXCEPT !.step = "refused"] /\ UNCHANGED <<stdout, handling>>
    /\ UNCHANGED <<settings, child, known, byTurn, turn, accepted, reported, counters, chased>>

\* The child: it opens a thread, and takes a turn of a thread it has, or refuses either.
Waiting ==
    /\ Serves /\ (At("opening") \/ At("asked"))
    /\ \A i \in DOMAIN stdout : stdout[i].kind \notin {"reply", "error"}

ChildOpens ==
    /\ Waiting /\ At("opening")
    /\ known' = known \cup {ChannelOf(offer.event)}
    /\ stdout' = Append(stdout, [kind |-> "reply", turn |-> offer.event])
    /\ UNCHANGED <<settings, child, cached, byThread, byTurn, offer, turn, handling, accepted, reported, counters,
                   overlapped, chased>>

ChildTakes ==
    /\ Waiting /\ At("asked") /\ ChannelOf(offer.event) \in known
    /\ turn' = [turn EXCEPT ![offer.event] = "running"]
    /\ stdout' = Append(stdout, [kind |-> "reply", turn |-> offer.event])
    /\ UNCHANGED <<settings, child, known, cached, byThread, byTurn, offer, handling, accepted, reported, counters,
                   overlapped, chased>>

ChildRefuses ==
    /\ Waiting
    /\ IF At("opening") \/ ChannelOf(offer.event) \in known THEN refusals < MaxRefusals /\ refusals' = refusals + 1
       ELSE refusals' = refusals
    /\ stdout' = Append(stdout, [kind |-> "error", turn |-> offer.event])
    /\ UNCHANGED <<settings, child, known, cached, byThread, byTurn, offer, turn, handling, accepted, reported, exits,
                   questions, overlapped, chased>>

ChildCompletes(t) ==
    /\ Serves /\ turn[t] = "running"
    /\ turn' = [turn EXCEPT ![t] = "done"]
    /\ stdout' = Append(stdout, [kind |-> "completed", turn |-> t])
    /\ UNCHANGED <<settings, child, known, cached, byThread, byTurn, offer, handling, accepted, reported, counters,
                   overlapped, chased>>

\* The child dies: its threads and turns are gone, and what it had written may still be read.
ChildDies(heard) ==
    /\ Serves /\ exits < MaxExits
    /\ child' = "dead" /\ exits' = exits + 1 /\ known' = {}
    /\ stdout' = IF heard THEN stdout ELSE << >>
    /\ turn' = [t \in Events |->
                  IF Running(t) \/ (~heard /\ [kind |-> "completed", turn |-> t] \in ToSet(stdout))
                  THEN "lost" ELSE turn[t]]
    /\ UNCHANGED <<settings, cached, byThread, byTurn, offer, handling, accepted, reported, refusals, questions,
                   overlapped, chased>>

\* Its exit is seen: the request that waits is rejected, and an answer still to be read finds
\* no request.
Unasked(l) == IF l.kind \in {"reply", "error"} THEN [l EXCEPT !.kind = "stale"] ELSE l

ExitSeen ==
    /\ child = "dead" /\ offer # Crashed
    /\ child' = "exited"
    /\ stdout' = [i \in DOMAIN stdout |-> Unasked(stdout[i])]
    /\ offer' = IF At("opening") \/ At("asked") THEN [offer EXCEPT !.step = "refused"] ELSE offer
    /\ UNCHANGED <<settings, known, cached, byThread, byTurn, turn, handling, accepted, reported, counters,
                   overlapped, chased>>

\* The child questions its client, and waits for the answer.
ChildAsks(t) ==
    /\ Serves /\ turn[t] = "running" /\ questions < MaxQuestions
    /\ questions' = questions + 1
    /\ turn' = [turn EXCEPT ![t] = "asking"]
    /\ stdout' = Append(stdout, [kind |-> "request", turn |-> t])
    /\ UNCHANGED <<settings, child, known, cached, byThread, byTurn, offer, handling, accepted, reported, exits,
                   refusals, overlapped, chased>>

-----------------------------------------------------------------------------
\* #respondToServerRequest.
RequestAnswered(t) == turn' = IF turn[t] = "asking" THEN [turn EXCEPT ![t] = "running"] ELSE turn

ReadRequest ==
    /\ stdout # << >> /\ Head(stdout).kind = "request"
    /\ RequestAnswered(Head(stdout).turn)
    /\ \/ ChildStarted /\ stdout' = Tail(stdout) /\ UNCHANGED <<offer, handling>>
       \/ child \in {"dead", "exited"} /\ ProcessEnds
    /\ UNCHANGED <<settings, child, known, cached, byThread, byTurn, accepted, reported, counters, overlapped, chased>>

\* A reply settles the request; what deliver does with it comes later, after other lines of
\* the same chunk.
ReadReply ==
    /\ stdout # << >> /\ Head(stdout).kind \in {"reply", "error"}
    /\ offer' = [offer EXCEPT !.step = IF Head(stdout).kind = "error" THEN "refused"
                                        ELSE IF At("opening") THEN "turn" ELSE "replied"]
    /\ stdout' = Tail(stdout)
    /\ UNCHANGED <<settings, child, known, cached, byThread, byTurn, turn, handling, accepted, reported, counters,
                   overlapped, chased>>

ReadStale ==
    /\ stdout # << >> /\ Head(stdout).kind = "stale"
    /\ stdout' = Tail(stdout)
    /\ UNCHANGED <<settings, child, known, cached, byThread, byTurn, offer, turn, handling, accepted, reported, counters,
                   overlapped, chased>>

\* #handleNotification up to the outcome handler: the event by its turn, or else by its thread.
\* Mutants of EventOf: by its thread only, by the turn only.
EventOfThread(t) == byThread[ChannelOf(t)]
EventOfTurn(t) == IF names /\ t \in byTurn THEN t ELSE NoEvent

EventOf(t) == IF names /\ t \in byTurn THEN t ELSE byThread[ChannelOf(t)]

ReadCompleted ==
    /\ stdout # << >> /\ Head(stdout).kind = "completed"
    /\ LET t == Head(stdout).turn
       IN  /\ handling' = IF EventOf(t) = NoEvent THEN handling ELSE handling \cup {<<t, EventOf(t)>>}
           /\ chased' = (chased \/ offer.event = t)
    /\ stdout' = Tail(stdout)
    /\ UNCHANGED <<settings, child, known, cached, byThread, byTurn, offer, turn, accepted, reported, counters,
                   overlapped>>

\* ... and after it.
Handled(t) ==
    /\ \E e \in Events : <<t, e>> \in handling /\ reported' = reported \cup {<<t, e>>} /\ handling' = handling \ {<<t, e>>}
    /\ byTurn' = byTurn \ (IF names THEN {t} ELSE {})
    /\ byThread' = [byThread EXCEPT ![ChannelOf(t)] = NoEvent]
    /\ UNCHANGED <<settings, child, known, cached, offer, turn, stdout, accepted, counters, overlapped, chased>>

\* The event is not pending any more, or the home cannot be reached: the handler fails, in a
\* promise nobody waits for.
HandlerFails ==
    /\ handling # {} /\ ProcessEnds
    /\ UNCHANGED <<settings, child, known, cached, byThread, byTurn, turn, accepted, reported, counters, overlapped,
                   chased>>

\* The rest of deliver.
TurnAccepted ==
    /\ At("replied")
    /\ byTurn' = IF names THEN byTurn \cup {offer.event} ELSE byTurn
    /\ accepted' = accepted \cup {offer.event}
    /\ offer' = NoOffer
    /\ UNCHANGED <<settings, child, known, cached, byThread, turn, stdout, handling, reported, counters, overlapped,
                   chased>>

\* A deferred delivery: the dispatcher goes on to the next adapter only where it was told to.
\* Mutant of NextAdapter: it never does.
NextAdapterNone(e) == NoOffer

NextAdapter(e) == IF fallback THEN [event |-> e, step |-> "run"] ELSE NoOffer

TurnDeferred ==
    /\ At("refused")
    /\ offer' = NextAdapter(offer.event)
    /\ UNCHANGED <<settings, child, known, cached, byThread, byTurn, turn, stdout, handling, accepted, reported,
                   counters, overlapped, chased>>

\* The adapters with one run per event: what they make of its exit code.  "none" is a command
\* that could not be started or that its adapter killed after its time, "other" also stands for
\* a run killed by somebody else.
ExitCodes == {"0", "64", "75", "other", "none"}

ProcessResult(exit) ==
    CASE exit = "0" -> "accepted"
      [] exit \in {"75", "none"} -> "deferred"
      [] exit = "64" -> "unsupported"
      [] OTHER -> "rejected"

CodexExecResult(exit) ==
    CASE exit = "0" -> "accepted"
      [] exit \in {"75", "none"} -> "deferred"
      [] OTHER -> "rejected"

ClaudePrintResult(exit) ==
    CASE exit = "0" -> "accepted"
      [] exit = "none" -> "deferred"
      [] OTHER -> "rejected"

Result(run, exit) ==
    CASE run = "process" -> ProcessResult(exit)
      [] run = "codex-exec" -> CodexExecResult(exit)
      [] OTHER -> ClaudePrintResult(exit)

\* An accepted or a rejected event has its outcome, awaited before deliver returns: where the
\* handler fails the delivery is deferred.  What a dead child had written is read before a run
\* ends.
RunEnds(run, exit, taken) ==
    /\ At("run") /\ (Serves \/ stdout = << >>)
    /\ offer' = NoOffer
    /\ IF Result(run, exit) \in {"accepted", "rejected"} /\ taken
       THEN /\ accepted' = IF Result(run, exit) = "accepted" THEN accepted \cup {offer.event} ELSE accepted
            /\ reported' = reported \cup {<<offer.event, offer.event>>} /\ UNCHANGED refusals
       ELSE refusals < MaxRefusals /\ refusals' = refusals + 1 /\ UNCHANGED <<accepted, reported>>
    /\ UNCHANGED <<settings, child, known, cached, byThread, byTurn, turn, stdout, handling, exits, questions,
                   overlapped, chased>>

Deliver ==
    \/ \E c \in Inboxes : Offer(c)
    \/ ThreadAsked \/ TurnAsked \/ TurnAccepted \/ TurnDeferred
    \/ \E run \in Runs, exit \in ExitCodes, taken \in BOOLEAN : RunEnds(run, exit, taken)
Answer == ChildOpens \/ ChildTakes \/ ChildRefuses
Listen == ExitSeen \/ ReadReply \/ ReadStale \/ ReadRequest \/ ReadCompleted \/ \E t \in Events : Handled(t)

TurnsNext ==
    \/ Deliver \/ Answer \/ Listen \/ HandlerFails
    \/ \E t \in Events : ChildCompletes(t) \/ ChildAsks(t)
    \/ \E heard \in BOOLEAN : ChildDies(heard)

TurnsSpec == TurnsInit /\ [][TurnsNext]_turnsVars

\* The pump ticks for every channel, lines are read, and the child and the processes answer.
TurnsFairSpec ==
    /\ TurnsSpec /\ WF_turnsVars(Deliver) /\ WF_turnsVars(Answer) /\ WF_turnsVars(Listen)
    /\ \A c \in Inboxes : SF_turnsVars(Offer(c))
    /\ WF_turnsVars(\E t \in Events : ChildCompletes(t)) /\ WF_turnsVars(\E t \in Events : Handled(t))

-----------------------------------------------------------------------------
(***************************************************************************)
(* Properties.                                                             *)
(***************************************************************************)

\* The outcome of a turn is reported for the event the turn was started for.  Where the app
\* server does not name its turns this holds as long as no two of one thread overlap.
OutcomeFits == names \/ ~overlapped => \A p \in reported : p[1] = p[2]

\* An event the app server accepted gets an outcome, unless its turn dies with the child, this
\* process ends or, among overlapping turns of one thread, the turns are not named or one is
\* completed before the reply to its turn/start was acted on.
AcceptedAnswered ==
    \A e \in Events : e \in accepted ~> Answered(e) \/ turn[e] = "lost" \/ (overlapped /\ (~names \/ chased))
                         \/ offer = Crashed

\* Every event is taken in the end, unless this process ends or the child could not be spawned,
\* whose requests are never settled: the pump waits for ever and no fallback is reached.  After
\* the death of the child this needs the fallback: the thread of a channel stays cached, and
\* startTurn never starts the child again.
EventsTaken ==
    <>((\A e \in Events : Settled(e)) \/ offer = Crashed \/ child = "stuck" \/ (~fallback /\ exits > 0))
=============================================================================
