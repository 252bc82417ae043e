--------------------------- MODULE ChannelPumpSafety ---------------------------
(***************************************************************************)
(* Proofs about ChannelPump for every number of events, every setting and  *)
(* any number of crashes: the harness sees a channel in its order, and     *)
(* nothing is acknowledged before it was shown or answered.                *)
(***************************************************************************)
EXTENDS ChannelPump, TLAPS

\* Every set of events speaks of events that have arrived.
Arrivals ==
    /\ arrived \in Nat
    /\ inbox \subseteq 1..arrived
    /\ announced \subseteq 1..arrived
    /\ offered \subseteq 1..arrived
    /\ pump \in [pc : PumpSteps, rest : SUBSET (1..arrived), first : BOOLEAN, accepts : BOOLEAN]
    /\ queue \in [Events -> {"out", "ready", "leased"}]
    /\ call \in [Events -> {"none", "open", "sent", "acked"}]
    /\ \A e \in Events : queue[e] # "out" => e \in 1..arrived /\ adapter = "poll"

\* What the pump skips, and what an ingress other than the queue takes, was shown.
Shown ==
    adapter # "poll" =>
        /\ \A e \in announced : e \in inbox => e \in offered
        /\ pump.pc = "offering" /\ pump.accepts =>
            \A e \in pump.rest : Current(e) => e \in offered

\* Before what is left of the snapshot, everything unread was shown.
Swept ==
    adapter # "poll" =>
        \A r \in pump.rest, i \in inbox : i < r => i \in pump.rest \/ i \in offered

\* Answers are given to what was shown, and one that is past sending was sent.
Answers ==
    \A e \in Events :
        /\ call[e] # "none" => e \in offered
        /\ call[e] \in {"sent", "acked"} => e \in answered

PumpInv ==
    /\ Arrivals /\ Shown /\ Swept /\ Answers
    /\ OffersInOrder /\ WorkAnswered /\ NothingLost

-----------------------------------------------------------------------------
\* The invariant holds at the start, when nothing has arrived.
LEMMA PumpInvInit == Init => PumpInv
  <1>1. SUFFICES ASSUME Init PROVE PumpInv
    OBVIOUS
  <1>2. Arrivals
    BY <1>1 DEF Init, Arrivals, Resting, PumpSteps, Events
  <1>3. Shown /\ Swept /\ Answers
    BY <1>1 DEF Init, Shown, Swept, Answers, Resting
  <1>4. OffersInOrder /\ WorkAnswered /\ NothingLost
    BY <1>1 DEF Init, OffersInOrder, WorkAnswered, NothingLost
  <1>5. QED
    BY <1>2, <1>3, <1>4 DEF PumpInv

\* The arrival of a message: it is newer than everything the pump knows.
LEMMA ArriveKeeps == ASSUME PumpInv, NEW e \in Events, Arrive(e) PROVE PumpInv'
  <1> USE DEF PumpInv, Arrive, settings, session, history
  <1>1. /\ arrived' = arrived + 1 /\ arrived \in Nat
        /\ inbox' \subseteq inbox \cup {arrived + 1}
        /\ UNCHANGED <<adapter, kind, announced, offered, answered, pump, queue, call, consumed>>
    BY DEF Arrivals
  <1>2. 1..arrived \subseteq 1..(arrived + 1) /\ arrived + 1 \in 1..(arrived + 1)
    BY <1>1
  <1>3. Arrivals'
    <2>1. inbox' \subseteq 1..arrived' /\ announced' \subseteq 1..arrived' /\ offered' \subseteq 1..arrived'
      BY <1>1, <1>2 DEF Arrivals
    <2>2. pump' \in [pc : PumpSteps, rest : SUBSET (1..arrived'), first : BOOLEAN, accepts : BOOLEAN]
      BY <1>1, <1>2 DEF Arrivals
    <2>3. QED
      BY <1>1, <1>2, <2>1, <2>2 DEF Arrivals
  <1>4. \A x \in 1..arrived : ~(arrived + 1 < x) /\ x # arrived + 1
    BY <1>1
  <1>5. Shown'
    BY <1>1, <1>4 DEF Arrivals, Shown, Current
  <1>6. Swept'
    BY <1>1, <1>4 DEF Arrivals, Swept
  <1>7. OffersInOrder'
    BY <1>1, <1>4 DEF Arrivals, OffersInOrder
  <1>8. Answers' /\ WorkAnswered' /\ NothingLost'
    BY <1>1 DEF Answers, WorkAnswered, NothingLost
  <1>9. QED
    BY <1>3, <1>5, <1>6, <1>7, <1>8

\* The pump takes a snapshot of the inbox, or comes to its end.
LEMMA SnapshotKeeps == ASSUME PumpInv, PumpRead \/ PumpEnd PROVE PumpInv'
  <1> USE DEF PumpInv, settings, durable, history
  <1>1. /\ UNCHANGED <<kind, adapter, arrived, inbox, consumed, announced, queue, call, offered, answered>>
        /\ pump' = Resting \/ pump' = Scanning(inbox)
    BY DEF PumpRead, PumpEnd
  <1>2. pump'.rest \in {{}, inbox} /\ pump'.pc \in {"idle", "scan"}
    BY <1>1 DEF Resting, Scanning
  <1>3. Arrivals'
    <2>1. {} \in SUBSET (1..arrived) /\ inbox \in SUBSET (1..arrived)
      BY DEF Arrivals
    <2>2. pump' \in [pc : PumpSteps, rest : SUBSET (1..arrived'), first : BOOLEAN, accepts : BOOLEAN]
      <3>1. CASE pump' = Resting
        BY <1>1, <3>1 DEF Resting, PumpSteps
      <3>2. CASE pump' = Scanning(inbox)
        BY <1>1, <2>1, <3>2 DEF Scanning, PumpSteps
      <3>3. QED
        BY <1>1, <3>1, <3>2
    <2>3. QED
      BY <1>1, <2>2 DEF Arrivals
  <1>4. Shown' /\ Swept'
    BY <1>1, <1>2 DEF Shown, Swept
  <1>5. OffersInOrder' /\ Answers' /\ WorkAnswered' /\ NothingLost'
    BY <1>1 DEF OffersInOrder, Answers, WorkAnswered, NothingLost
  <1>6. QED
    BY <1>3, <1>4, <1>5

\* The pump passes an event without showing it: the event was shown before, or is now
\* acknowledged and of a kind the harness need not see.
LEMMA PassKeeps ==
    ASSUME PumpInv, NEW e \in Events, PumpSkip(e) \/ PumpSilent(e) \/ PumpSettle(e)
    PROVE  PumpInv'
  <1> USE DEF PumpInv, settings
  <1>1. /\ UNCHANGED <<kind, adapter, arrived, queue, call, offered, answered>>
        /\ e \in pump.rest
        /\ pump' = Scanning(pump.rest \ {e})
        /\ inbox' \subseteq inbox
    BY DEF PumpSkip, PumpSilent, PumpSettle, Due, Current, Continue, Ack, durable, history
  <1>2. /\ announced' \subseteq announced \cup {e}
        /\ e \in announced' => e \in announced \/ e \notin inbox'
    BY DEF PumpSkip, PumpSilent, PumpSettle, Ack
  <1>3. adapter # "poll" => e \notin inbox' \/ e \in offered
    BY DEF PumpSkip, PumpSilent, PumpSettle, Skips, Ack, Shown, durable
  <1>4. \/ consumed' = consumed
        \/ consumed' = consumed \cup {e} /\ kind[e] \in {"silent", "reduced", "approval"}
    BY DEF PumpSkip, PumpSilent, PumpSettle, Settled, Ack, durable
  <1>5. pump'.pc = "scan" /\ pump'.rest = pump.rest \ {e}
    BY <1>1 DEF Scanning
  <1>6. Arrivals'
    <2>1. pump' \in [pc : PumpSteps, rest : SUBSET (1..arrived'), first : BOOLEAN, accepts : BOOLEAN]
      BY <1>1 DEF Arrivals, Scanning, PumpSteps
    <2>2. announced' \subseteq 1..arrived'
      BY <1>1, <1>2 DEF Arrivals
    <2>3. QED
      BY <1>1, <2>1, <2>2 DEF Arrivals
  <1>7. Shown'
    BY <1>1, <1>2, <1>5 DEF Shown
  <1>8. Swept'
    BY <1>1, <1>3, <1>5 DEF Swept
  <1>9. OffersInOrder' /\ Answers'
    BY <1>1 DEF OffersInOrder, Answers
  <1>10. WorkAnswered' /\ NothingLost'
    BY <1>1, <1>4 DEF WorkAnswered, NothingLost
  <1>11. QED
    BY <1>6, <1>7, <1>8, <1>9, <1>10

\* The application runtime processes an event: the pump stays where it is.
LEMMA ProcessKeeps == ASSUME PumpInv, NEW e \in Events, PumpProcess(e) PROVE PumpInv'
  <1> USE DEF PumpInv, settings
  <1>1. /\ UNCHANGED <<kind, adapter, arrived, inbox, consumed, announced, queue, call, offered, answered>>
        /\ pump' = [pump EXCEPT !.pc = "processed", !.first = e \notin recorded]
    BY DEF PumpProcess, history
  <1>2. pump'.pc = "processed" /\ pump'.rest = pump.rest
    BY <1>1 DEF Arrivals
  <1>3. Arrivals'
    BY <1>1 DEF Arrivals, PumpSteps
  <1>4. Shown' /\ Swept'
    BY <1>1, <1>2 DEF Shown, Swept
  <1>5. OffersInOrder' /\ Answers' /\ WorkAnswered' /\ NothingLost'
    BY <1>1 DEF OffersInOrder, Answers, WorkAnswered, NothingLost
  <1>6. QED
    BY <1>3, <1>4, <1>5

\* An event is offered: it is the oldest of the snapshot, so what is before it was shown.
LEMMA OfferKeeps ==
    ASSUME PumpInv, NEW e \in Events, PumpShow(e) \/ PumpMiss(e) \/ PumpEnqueue(e)
    PROVE  PumpInv'
  <1> USE DEF PumpInv, settings, durable, history
  <1>1. /\ UNCHANGED <<kind, adapter, arrived, inbox, consumed, call, answered>>
        /\ Current(e) /\ announced' \subseteq announced
        /\ \E a \in BOOLEAN : pump' = [pump EXCEPT !.pc = "offering", !.accepts = a]
    BY DEF PumpShow, PumpMiss, PumpEnqueue, ToOffer, Due, Register, Offering
  <1>2. e \in 1..arrived
    BY <1>1 DEF Current, Arrivals
  <1>3. pump'.pc = "offering" /\ pump'.rest = pump.rest
    BY <1>1 DEF Arrivals
  <1>4. /\ offered \subseteq offered' /\ offered' \subseteq offered \cup {e}
        /\ adapter # "poll" /\ pump'.accepts => e \in offered'
    BY DEF PumpShow, PumpMiss, PumpEnqueue, Offering, Arrivals
  <1>5. /\ queue' \in [Events -> {"out", "ready", "leased"}]
        /\ \A x \in Events : queue'[x] # "out" => x \in 1..arrived /\ adapter = "poll"
    BY <1>2 DEF PumpShow, PumpMiss, PumpEnqueue, Arrivals
  <1>6. Arrivals'
    <2>1. pump' \in [pc : PumpSteps, rest : SUBSET (1..arrived'), first : BOOLEAN, accepts : BOOLEAN]
      BY <1>1 DEF Arrivals, PumpSteps
    <2>2. announced' \subseteq 1..arrived' /\ offered' \subseteq 1..arrived'
      BY <1>1, <1>2, <1>4 DEF Arrivals
    <2>3. QED
      BY <1>1, <1>5, <2>1, <2>2 DEF Arrivals
  <1>7. \A x \in pump.rest : (\A o \in pump.rest : x <= o) => x = e
    BY <1>1 DEF Current, Arrivals
  <1>8. Shown'
    BY <1>1, <1>3, <1>4, <1>7 DEF Shown, Current
  <1>9. Swept'
    BY <1>1, <1>3, <1>4 DEF Swept
  <1>10. OffersInOrder'
    <2>1. SUFFICES ASSUME adapter # "poll", NEW i \in inbox, i < e PROVE i \in offered
      BY <1>1, <1>4 DEF OffersInOrder
    <2>2. i \notin pump.rest
      BY <1>1, <1>2, <2>1 DEF Current, Arrivals
    <2>3. QED
      BY <1>1, <2>1, <2>2 DEF Swept, Current
  <1>11. Answers' /\ WorkAnswered' /\ NothingLost'
    BY <1>1, <1>4 DEF Answers, WorkAnswered, NothingLost
  <1>12. QED
    BY <1>6, <1>8, <1>9, <1>10, <1>11

\* deliver was accepted: an event that is acknowledged or announced now was shown.
LEMMA AcceptedKeeps == ASSUME PumpInv, NEW e \in Events, PumpAccepted(e) PROVE PumpInv'
  <1> USE DEF PumpInv, settings, history
  <1>1. /\ UNCHANGED <<kind, adapter, arrived, queue, call, offered, answered>>
        /\ e \in pump.rest
        /\ pump' = Scanning(pump.rest \ {e})
        /\ inbox' \subseteq inbox
    BY DEF PumpAccepted, Current, Continue, Ack
  <1>2. adapter # "poll" => e \in offered
    BY DEF PumpAccepted, Shown, Current
  <1>3. announced' \subseteq announced \cup {e} /\ (adapter = "poll" => announced' = announced)
    BY DEF PumpAccepted
  <1>4. \/ consumed' = consumed
        \/ consumed' = consumed \cup {e} /\ kind[e] # "work"
    BY DEF PumpAccepted, AckedOnceOffered, Application, Ack
  <1>5. pump'.pc = "scan" /\ pump'.rest = pump.rest \ {e}
    BY <1>1 DEF Scanning
  <1>6. Arrivals'
    <2>1. pump' \in [pc : PumpSteps, rest : SUBSET (1..arrived'), first : BOOLEAN, accepts : BOOLEAN]
      BY <1>1 DEF Arrivals, Scanning, PumpSteps
    <2>2. announced' \subseteq 1..arrived'
      BY <1>1, <1>3 DEF Arrivals
    <2>3. QED
      BY <1>1, <2>1, <2>2 DEF Arrivals
  <1>7. Shown'
    BY <1>1, <1>2, <1>3, <1>5 DEF Shown
  <1>8. Swept'
    BY <1>1, <1>2, <1>5 DEF Swept
  <1>9. OffersInOrder' /\ Answers'
    BY <1>1 DEF OffersInOrder, Answers
  <1>10. WorkAnswered' /\ NothingLost'
    BY <1>1, <1>2, <1>4 DEF WorkAnswered, NothingLost
  <1>11. QED
    BY <1>6, <1>7, <1>8, <1>9, <1>10

\* deliver was refused: the snapshot is abandoned.
LEMMA RefusedKeeps == ASSUME PumpInv, NEW e \in Events, PumpRefused(e) PROVE PumpInv'
  <1> USE DEF PumpInv, settings, durable, history
  <1>1. /\ UNCHANGED <<kind, adapter, arrived, inbox, consumed, announced, queue, call, offered, answered>>
        /\ pump' = Resting
    BY DEF PumpRefused
  <1>2. pump'.rest = {} /\ pump'.pc = "idle"
    BY <1>1 DEF Resting
  <1>3. Arrivals'
    BY <1>1 DEF Arrivals, Resting, PumpSteps
  <1>4. Shown' /\ Swept'
    BY <1>1, <1>2 DEF Shown, Swept
  <1>5. OffersInOrder' /\ Answers' /\ WorkAnswered' /\ NothingLost'
    BY <1>1 DEF OffersInOrder, Answers, WorkAnswered, NothingLost
  <1>6. QED
    BY <1>3, <1>4, <1>5

\* The harness reads, releases or clears an entry of the polling queue.
LEMMA QueueKeeps ==
    ASSUME PumpInv, NEW e \in Events, Poll(e) \/ Release(e) \/ QueueAck(e)
    PROVE  PumpInv'
  <1> USE DEF PumpInv, settings, durable
  <1>1. /\ UNCHANGED <<kind, adapter, arrived, inbox, consumed, announced, pump, call, answered>>
        /\ offered \subseteq offered' /\ offered' \subseteq offered \cup {e}
        /\ queue[e] # "out"
        /\ \E q \in {"out", "ready", "leased"} : queue' = [queue EXCEPT ![e] = q]
    BY DEF Poll, Release, QueueAck, history
  <1>2. e \in 1..arrived /\ adapter = "poll"
    BY <1>1 DEF Arrivals
  <1>3. Arrivals'
    BY <1>1, <1>2 DEF Arrivals
  <1>4. Shown' /\ Swept' /\ OffersInOrder'
    BY <1>1, <1>2 DEF Shown, Swept, OffersInOrder
  <1>5. Answers' /\ WorkAnswered' /\ NothingLost'
    BY <1>1 DEF Answers, WorkAnswered, NothingLost
  <1>6. QED
    BY <1>3, <1>4, <1>5

\* An answer moves on: it is acknowledged only after it was sent.
LEMMA AnswerKeeps ==
    ASSUME PumpInv, NEW e \in Events,
           \/ AnswerBegin(e) \/ AnswerSend(e) \/ AnswerFail(e) \/ AnswerAck(e) \/ AnswerFinish(e)
    PROVE  PumpInv'
  <1> USE DEF PumpInv, settings
  <1>1. /\ UNCHANGED <<kind, adapter, arrived, pump, queue, offered>>
        /\ inbox' \subseteq inbox /\ announced' \subseteq announced
        /\ answered \subseteq answered'
        /\ e \in offered
        /\ \E c \in {"none", "open", "sent", "acked"} :
            /\ call' = [call EXCEPT ![e] = c]
            /\ c \in {"sent", "acked"} => e \in answered'
    BY DEF AnswerBegin, AnswerSend, AnswerFail, AnswerAck, AnswerFinish, Ack, Answers, durable, history
  <1>2. \/ consumed' = consumed
        \/ consumed' = consumed \cup {e} /\ e \in answered'
    BY DEF AnswerBegin, AnswerSend, AnswerFail, AnswerAck, AnswerFinish, Ack, Answers, durable, history
  <1>3. Arrivals'
    BY <1>1 DEF Arrivals
  <1>4. Shown' /\ Swept' /\ OffersInOrder'
    BY <1>1 DEF Shown, Swept, OffersInOrder, Current
  <1>5. Answers'
    BY <1>1 DEF Answers, Arrivals
  <1>6. WorkAnswered' /\ NothingLost'
    BY <1>1, <1>2 DEF WorkAnswered, NothingLost
  <1>7. QED
    BY <1>3, <1>4, <1>5, <1>6

\* A crash loses the session; what was shown and acknowledged stays.
LEMMA CrashKeeps == ASSUME PumpInv, Crash PROVE PumpInv'
  <1> USE DEF PumpInv, Crash, settings, durable
  <1>1. pump'.rest = {} /\ pump'.pc = "idle"
    BY DEF Resting
  <1>2. Arrivals'
    BY DEF Arrivals, Resting, PumpSteps
  <1>3. Shown' /\ Swept'
    BY <1>1 DEF Shown, Swept
  <1>4. OffersInOrder' /\ Answers' /\ WorkAnswered' /\ NothingLost'
    BY DEF OffersInOrder, Answers, WorkAnswered, NothingLost
  <1>5. QED
    BY <1>2, <1>3, <1>4

-----------------------------------------------------------------------------
\* Every step keeps the invariant.
LEMMA PumpInvStep == PumpInv /\ [Next]_vars => PumpInv'
  <1> SUFFICES ASSUME PumpInv, [Next]_vars PROVE PumpInv'
    OBVIOUS
  <1>1. CASE PumpStep
    <2>1. CASE PumpRead \/ PumpEnd
      BY <2>1, SnapshotKeeps
    <2>2. ASSUME NEW e \in Events,
                 \/ PumpSkip(e) \/ PumpSilent(e) \/ PumpProcess(e) \/ PumpSettle(e)
                 \/ PumpShow(e) \/ PumpMiss(e) \/ PumpEnqueue(e) \/ PumpAccepted(e) \/ PumpRefused(e)
          PROVE  PumpInv'
      BY <2>2, PassKeeps, ProcessKeeps, OfferKeeps, AcceptedKeeps, RefusedKeeps
    <2>3. QED
      BY <1>1, <2>1, <2>2 DEF PumpStep
  <1>2. ASSUME NEW e \in Events, Arrive(e) \/ HarnessStep(e) PROVE PumpInv'
    BY <1>2, ArriveKeeps, QueueKeeps, AnswerKeeps DEF HarnessStep
  <1>3. CASE Crash
    BY <1>3, CrashKeeps
  <1>4. CASE UNCHANGED vars
    <2>1. UNCHANGED <<kind, adapter, arrived, inbox, consumed, pump, announced, queue, call, offered, answered>>
      BY <1>4 DEF vars, settings, durable, session, history
    <2>2. QED
      BY <2>1 DEF PumpInv, Arrivals, Shown, Swept, Current, Answers, OffersInOrder, WorkAnswered, NothingLost
  <1>5. QED
    BY <1>1, <1>2, <1>3, <1>4 DEF Next

\* Outside the polling queue, the harness is shown the events of a channel in their order,
\* whatever is refused, evicted, answered beside the pump, or lost in a crash.
THEOREM PumpOffersInOrder == Spec => []OffersInOrder
  <1>1. PumpInv => OffersInOrder
    BY DEF PumpInv
  <1>2. QED
    BY PumpInvInit, PumpInvStep, <1>1, PTL DEF Spec

\* A request is never acknowledged in the inbox before its answer was sent.
THEOREM PumpWorkAnswered == Spec => []WorkAnswered
  <1>1. PumpInv => WorkAnswered
    BY DEF PumpInv
  <1>2. QED
    BY PumpInvInit, PumpInvStep, <1>1, PTL DEF Spec

\* Outside the polling queue, nothing is acknowledged before the harness was shown it.
THEOREM PumpNothingLost == Spec => []NothingLost
  <1>1. PumpInv => NothingLost
    BY DEF PumpInv
  <1>2. QED
    BY PumpInvInit, PumpInvStep, <1>1, PTL DEF Spec
=============================================================================
