------------------------- MODULE BoundedStreamProofs -------------------------
(***************************************************************************)
(* Proofs about the bounded canonical-event stream, for every capacity and *)
(* every set of Tool call ids.  The two ends of the stream run two copies  *)
(* of the lifecycle; what relates them is a trail of states, one per       *)
(* queued event, that leads from the consumer's copy to the producer's.    *)
(***************************************************************************)
EXTENDS BoundedStream, TLAPS

-----------------------------------------------------------------------------
(* Facts about the lifecycle operators. *)

\* Every event that concerns a Tool call names one.
LEMMA ToolEventsNameCalls ==
  ASSUME NEW e \in CanonicalEvents,
         e.kind \in {"ToolCallStart", "ToolCallArgumentsDelta", "ToolCallEnd"}
  PROVE  e.call \in Calls
  BY DEF CanonicalEvents, Plain, Flagged, Named

\* What an open response becomes is again a lifecycle state.
LEMMA OpenAfterType ==
  ASSUME NEW s \in EventStates, NEW e \in CanonicalEvents
  PROVE  OpenAfter(s, e) \in EventStates
  <1>1. CASE e.kind \in {"ToolCallStart", "ToolCallArgumentsDelta", "ToolCallEnd"}
    <2>1. e.call \in Calls
      BY <1>1, ToolEventsNameCalls
    <2> QED
      BY <1>1, <2>1 DEF OpenAfter, EventStates, ToolLifecycles
  <1>2. CASE e.kind \notin {"ToolCallStart", "ToolCallArgumentsDelta", "ToolCallEnd"}
    BY <1>2 DEF OpenAfter, EventStates
  <1> QED
    BY <1>1, <1>2

\* So is what a lifecycle state becomes after any event.
LEMMA AfterType ==
  ASSUME NEW s \in EventStates, NEW e \in CanonicalEvents
  PROVE  After(s, e) \in EventStates
  <1>1. OpenAfter(s, e) \in EventStates
    BY OpenAfterType
  <1> QED
    BY <1>1 DEF After, EventStates

\* A verdict is one of the three answers apply() gives.
LEMMA VerdictType ==
  ASSUME NEW s \in EventStates, NEW e \in CanonicalEvents
  PROVE  Verdict(s, e) \in {"ok", "protocol", "truncated"}
  BY DEF Verdict, EventStates, IsTerminal, Terminates

\* A terminal state accepts nothing.
LEMMA TerminalAcceptsNothing ==
  ASSUME NEW s \in EventStates, NEW e \in CanonicalEvents, IsTerminal(s)
  PROVE  ~Accepts(s, e)
  BY DEF Accepts, Verdict, IsTerminal, EventStates

\* A fresh response is a lifecycle state.
LEMMA InitialStateType == InitialState \in EventStates
  BY DEF InitialState, EventStates, ToolLifecycles

-----------------------------------------------------------------------------
(* The inductive invariant. *)

\* The states that lead from the consumer's copy, event by event, to the producer's.
Leads(trail) ==
  /\ trail[1] = receiver.state
  /\ trail[Len(queue) + 1] = sender.state
  /\ \A i \in 1..Len(queue) :
       Accepts(trail[i], queue[i]) /\ trail[i + 1] = After(trail[i], queue[i])

QueueReplays ==
  IF receiver.alive
  THEN \E trail \in [1..(Len(queue) + 1) -> EventStates] : Leads(trail)
  ELSE queue = <<>>

\* A send() that reached its select! carries an event its own state accepts.
PendingIsValid ==
  /\ sender.pending # NoEvent => Accepts(sender.state, sender.pending) /\ sender.alive
  /\ sender.polled => sender.pending # NoEvent

\* The handle is given up with the producer or with the terminal event, not before.
HandleHeld == ~sender.open => ~sender.alive \/ IsTerminal(sender.state)

\* A poll in progress belongs to a consumer that is still there.
PolledIsAlive == receiver.polled => receiver.alive

StreamInv ==
  /\ StreamTypeOK
  /\ QueueReplays
  /\ PendingIsValid
  /\ HandleHeld
  /\ PolledIsAlive
  /\ TruncationIsReal

\* A fresh stream satisfies the invariant.
LEMMA StreamInitInv == StreamInit => StreamInv
  <1> SUFFICES ASSUME StreamInit PROVE StreamInv
    OBVIOUS
  <1> USE InitialStateType
  <1>1. StreamTypeOK
    <2>1. Len(queue) = 0 /\ queue \in Seq(CanonicalEvents)
      BY DEF StreamInit
    <2>2. Len(queue) <= Capacity
      BY <2>1, CapacityAssumption
    <2>3. sender \in [state : EventStates, open : BOOLEAN,
                      pending : CanonicalEvents \cup {NoEvent},
                      polled : BOOLEAN, alive : BOOLEAN, last : SendResults]
      BY DEF StreamInit, SendResults
    <2>4. receiver \in [state : EventStates, finished : BOOLEAN, polled : BOOLEAN,
                        alive : BOOLEAN, last : RecvResults]
      BY DEF StreamInit, RecvResults
    <2>5. cancelled \in BOOLEAN
      BY DEF StreamInit
    <2> QED
      BY <2>1, <2>2, <2>3, <2>4, <2>5 DEF StreamTypeOK
  <1>2. QueueReplays
    <2>1. Len(queue) = 0
      BY DEF StreamInit
    <2>2. [i \in 1..(Len(queue) + 1) |-> InitialState] \in [1..(Len(queue) + 1) -> EventStates]
      OBVIOUS
    <2>3. Leads([i \in 1..(Len(queue) + 1) |-> InitialState])
      BY <2>1 DEF Leads, StreamInit
    <2> QED
      BY <2>2, <2>3 DEF QueueReplays, StreamInit
  <1>3. PendingIsValid /\ HandleHeld /\ PolledIsAlive /\ TruncationIsReal
    BY DEF StreamInit, PendingIsValid, HandleHeld, PolledIsAlive, TruncationIsReal
  <1> QED
    BY <1>1, <1>2, <1>3 DEF StreamInv

\* Every step keeps the records well typed and the channel within its capacity.
LEMMA StreamTypeStep == StreamInv /\ [StreamNext]_streamVars => StreamTypeOK'
  <1> SUFFICES ASSUME StreamInv, [StreamNext]_streamVars PROVE StreamTypeOK'
    OBVIOUS
  <1>0. StreamTypeOK /\ PendingIsValid
    BY DEF StreamInv
  <1>1. ASSUME NEW e \in CanonicalEvents, SendStart(e) PROVE StreamTypeOK'
    <2>1. Verdict(sender.state, e) \in SendResults
      BY <1>0, VerdictType DEF StreamTypeOK, SendResults
    <2> QED
      BY <1>0, <1>1, <2>1 DEF SendStart, StreamTypeOK, SendResults
  <1>2. CASE SendPoll
    BY <1>0, <1>2 DEF SendPoll, StreamTypeOK, Resolved, SendResults
  <1>3. CASE SendOffer
    <2>1. sender.pending \in CanonicalEvents
      BY <1>0, <1>3 DEF SendOffer, PendingIsValid, StreamTypeOK
    <2>2. After(sender.state, sender.pending) \in EventStates
      BY <1>0, <2>1, AfterType DEF StreamTypeOK
    <2>3. IsTerminal(After(sender.state, sender.pending)) \in BOOLEAN
      BY DEF IsTerminal
    <2>4. CASE queue' = queue /\ sender' \in {Resolved("cancelled"),
                                               [sender EXCEPT !.polled = FALSE]}
      BY <1>0, <1>3, <2>4 DEF SendOffer, StreamTypeOK, Resolved, SendResults
    <2>5. CASE queue' = Append(queue, sender.pending) /\ Len(queue) < Capacity
                 /\ sender' = Enqueued
      <3>1. queue' \in Seq(CanonicalEvents) /\ Len(queue') = Len(queue) + 1
        BY <1>0, <2>1, <2>5 DEF StreamTypeOK
      <3>2. Len(queue') <= Capacity
        BY <1>0, <2>5, <3>1, CapacityAssumption DEF StreamTypeOK
      <3> QED
        BY <1>0, <1>3, <2>2, <2>3, <2>5, <3>1, <3>2
           DEF SendOffer, StreamTypeOK, Resolved, Enqueued, SendResults
    <2> QED
      BY <1>3, <2>4, <2>5 DEF SendOffer
  <1>4. CASE DropSender
    BY <1>0, <1>4 DEF DropSender, StreamTypeOK
  <1>5. CASE RecvPoll
    BY <1>0, <1>5 DEF RecvPoll, StreamTypeOK, RecvResults
  <1>6. CASE RecvTake
    <2>1. ASSUME queue # <<>> PROVE StreamTypeOK'
      <3>1. Head(queue) \in CanonicalEvents /\ Tail(queue) \in Seq(CanonicalEvents)
              /\ Len(Tail(queue)) = Len(queue) - 1 /\ Len(queue) \in Nat
        BY <1>0, <2>1 DEF StreamTypeOK
      <3>2. After(receiver.state, Head(queue)) \in EventStates
        BY <1>0, <3>1, AfterType DEF StreamTypeOK
      <3>3. ~Accepts(receiver.state, Head(queue)) =>
              Verdict(receiver.state, Head(queue)) \in RecvResults
        BY <1>0, <3>1, VerdictType DEF StreamTypeOK, RecvResults, Accepts
      <3>4. IsTerminal(After(receiver.state, Head(queue))) \in BOOLEAN
        BY DEF IsTerminal
      <3>5. receiver' = Received(Head(queue)) /\ queue' = Tail(queue)
              /\ sender' = sender /\ cancelled' = cancelled
        BY <1>6, <2>1 DEF RecvTake
      <3>6. receiver' \in [state : EventStates, finished : BOOLEAN, polled : BOOLEAN,
                           alive : BOOLEAN, last : RecvResults]
        <4>1. CASE Accepts(receiver.state, Head(queue))
          BY <1>0, <3>2, <3>4, <3>5, <4>1 DEF StreamTypeOK, Received, RecvResults
        <4>2. CASE ~Accepts(receiver.state, Head(queue))
          BY <1>0, <3>3, <3>5, <4>2 DEF StreamTypeOK, Received
        <4> QED
          BY <4>1, <4>2
      <3>7. queue' \in Seq(CanonicalEvents) /\ Len(queue') <= Capacity
        BY <1>0, <3>1, <3>5, CapacityAssumption DEF StreamTypeOK
      <3> QED
        BY <1>0, <3>5, <3>6, <3>7 DEF StreamTypeOK
    <2>2. ASSUME queue = <<>> PROVE StreamTypeOK'
      BY <1>0, <1>6, <2>2 DEF RecvTake, StreamTypeOK, ReceivedNone, RecvResults
    <2> QED
      BY <2>1, <2>2
  <1>7. CASE DropReceiver
    <2>1. cancelled' \in BOOLEAN
      BY <1>7 DEF DropReceiver
    <2>2. queue' \in Seq(CanonicalEvents) /\ Len(queue') <= Capacity
      BY <1>7, CapacityAssumption DEF DropReceiver
    <2> QED
      BY <1>0, <1>7, <2>1, <2>2 DEF DropReceiver, StreamTypeOK
  <1>8. CASE Cancel
    BY <1>0, <1>8 DEF Cancel, StreamTypeOK
  <1>9. CASE UNCHANGED streamVars
    BY <1>0, <1>9 DEF streamVars, StreamTypeOK
  <1> QED
    BY <1>1, <1>2, <1>3, <1>4, <1>5, <1>6, <1>7, <1>8, <1>9 DEF StreamNext

\* Putting the pending event on the queue extends the trail by one state.
LEMMA OfferReplays ==
  ASSUME StreamInv, SendOffer
  PROVE  QueueReplays'
  <1>0. StreamTypeOK /\ PendingIsValid /\ QueueReplays
    BY DEF StreamInv
  <1>1. sender.pending \in CanonicalEvents /\ Accepts(sender.state, sender.pending)
    BY <1>0 DEF SendOffer, PendingIsValid, StreamTypeOK
  <1>2. CASE queue' = queue /\ sender'.state = sender.state
    BY <1>0, <1>2 DEF SendOffer, QueueReplays, Leads
  <1>3. CASE receiver.alive /\ sender' = Enqueued /\ queue' = Append(queue, sender.pending)
    <2>1. PICK trail \in [1..(Len(queue) + 1) -> EventStates] : Leads(trail)
      BY <1>0, <1>3 DEF QueueReplays
    <2>2. PICK next \in EventStates : next = After(sender.state, sender.pending)
      BY <1>0, <1>1, AfterType DEF StreamTypeOK
    <2>3. PICK n \in Nat : n = Len(queue)
      BY <1>0 DEF StreamTypeOK
    <2>4. Len(queue') = n + 1 /\ queue'[n + 1] = sender.pending
            /\ \A i \in 1..n : queue'[i] = queue[i]
      BY <1>0, <1>1, <1>3, <2>3 DEF StreamTypeOK
    <2>5. sender'.state = next /\ receiver' = receiver
      BY <1>0, <1>3, <2>2 DEF SendOffer, Enqueued, Resolved, StreamTypeOK
    <2>6. PICK longer \in [1..(n + 2) -> EventStates] :
             longer = [i \in 1..(n + 2) |-> IF i = n + 2 THEN next ELSE trail[i]]
      <3>1. \A i \in 1..(n + 2) : (IF i = n + 2 THEN next ELSE trail[i]) \in EventStates
        BY <2>1, <2>3
      <3>2. [i \in 1..(n + 2) |-> IF i = n + 2 THEN next ELSE trail[i]]
              \in [1..(n + 2) -> EventStates]
        BY <3>1
      <3> QED
        BY <3>2
    <2>7. longer[1] = receiver'.state
      BY <2>1, <2>3, <2>5, <2>6 DEF Leads
    <2>8. longer[Len(queue') + 1] = sender'.state
      BY <2>3, <2>4, <2>5, <2>6
    <2>9. ASSUME NEW i \in 1..Len(queue')
          PROVE  Accepts(longer[i], queue'[i]) /\ longer[i + 1] = After(longer[i], queue'[i])
      <3>1. CASE i = n + 1
        <4>1. longer[i] = sender.state /\ longer[i + 1] = next
          BY <2>1, <2>3, <2>6, <3>1 DEF Leads
        <4> QED
          BY <1>1, <2>2, <2>4, <3>1, <4>1
      <3>2. CASE i \in 1..n
        <4>1. longer[i] = trail[i] /\ longer[i + 1] = trail[i + 1]
          BY <2>3, <2>6, <3>2
        <4>2. Accepts(trail[i], queue[i]) /\ trail[i + 1] = After(trail[i], queue[i])
          BY <2>1, <2>3, <3>2 DEF Leads
        <4> QED
          BY <2>4, <3>2, <4>1, <4>2
      <3> QED
        BY <2>3, <2>4, <2>9, <3>1, <3>2
    <2>10. longer \in [1..(Len(queue') + 1) -> EventStates]
      BY <2>3, <2>4, <2>6
    <2>11. Leads(longer)'
      BY <2>7, <2>8, <2>9 DEF Leads
    <2> QED
      BY <1>3, <2>5, <2>10, <2>11 DEF QueueReplays
  <1> QED
    BY <1>0, <1>2, <1>3 DEF SendOffer, Resolved, StreamTypeOK

\* Taking the head of the queue walks the consumer one state along the trail.
LEMMA TakeReplays ==
  ASSUME StreamInv, RecvTake
  PROVE  QueueReplays'
  <1>0. StreamTypeOK /\ PolledIsAlive /\ QueueReplays /\ receiver.alive
    BY DEF StreamInv, RecvTake, PolledIsAlive
  <1>1. CASE queue = <<>>
    <2>1. receiver'.state = receiver.state /\ receiver'.alive = receiver.alive
            /\ queue' = queue /\ sender' = sender
      BY <1>0, <1>1 DEF RecvTake, ReceivedNone, StreamTypeOK
    <2> QED
      BY <1>0, <2>1 DEF QueueReplays, Leads
  <1>2. CASE queue # <<>>
    <2>1. PICK trail \in [1..(Len(queue) + 1) -> EventStates] : Leads(trail)
      BY <1>0 DEF QueueReplays
    <2>2. PICK n \in Nat : n = Len(queue) /\ n > 0
      BY <1>0, <1>2 DEF StreamTypeOK
    <2>3. queue' = Tail(queue) /\ receiver' = Received(Head(queue)) /\ sender' = sender
      BY <1>2 DEF RecvTake
    <2>4. Len(queue') = n - 1 /\ Head(queue) = queue[1]
            /\ \A i \in 1..(n - 1) : queue'[i] = queue[i + 1]
      BY <1>0, <1>2, <2>2, <2>3 DEF StreamTypeOK
    <2>5. Accepts(receiver.state, Head(queue))
            /\ trail[2] = After(receiver.state, Head(queue))
      BY <2>1, <2>2, <2>4 DEF Leads
    <2>6. receiver'.state = trail[2] /\ receiver'.alive = receiver.alive
      BY <1>0, <2>3, <2>5 DEF Received, StreamTypeOK
    <2>7. PICK rest \in [1..n -> EventStates] : rest = [i \in 1..n |-> trail[i + 1]]
      <3>1. \A i \in 1..n : trail[i + 1] \in EventStates
        BY <2>1, <2>2
      <3>2. [i \in 1..n |-> trail[i + 1]] \in [1..n -> EventStates]
        BY <3>1
      <3> QED
        BY <3>2
    <2>8. rest[1] = receiver'.state
      BY <2>2, <2>6, <2>7
    <2>9. rest[Len(queue') + 1] = sender'.state
      BY <2>1, <2>2, <2>3, <2>4, <2>7 DEF Leads
    <2>10. ASSUME NEW i \in 1..Len(queue')
           PROVE  Accepts(rest[i], queue'[i]) /\ rest[i + 1] = After(rest[i], queue'[i])
      <3>1. i + 1 \in 1..n /\ i \in 1..(n - 1)
        BY <2>2, <2>4
      <3>2. Accepts(trail[i + 1], queue[i + 1])
              /\ trail[(i + 1) + 1] = After(trail[i + 1], queue[i + 1])
        BY <2>1, <2>2, <3>1 DEF Leads
      <3>3. rest[i] = trail[i + 1] /\ rest[i + 1] = trail[(i + 1) + 1]
        BY <2>7, <3>1
      <3> QED
        BY <2>4, <3>1, <3>2, <3>3
    <2>11. rest \in [1..(Len(queue') + 1) -> EventStates]
      BY <2>2, <2>4, <2>7
    <2>12. Leads(rest)'
      BY <2>8, <2>9, <2>10 DEF Leads
    <2> QED
      BY <1>0, <2>6, <2>11, <2>12 DEF QueueReplays
  <1> QED
    BY <1>1, <1>2

\* Every step keeps the trail between the two ends.
LEMMA ReplayStep == StreamInv /\ [StreamNext]_streamVars => QueueReplays'
  <1> SUFFICES ASSUME StreamInv, [StreamNext]_streamVars PROVE QueueReplays'
    OBVIOUS
  <1>0. StreamTypeOK /\ QueueReplays
    BY DEF StreamInv
  <1>1. ASSUME sender'.state = sender.state, queue' = queue, receiver'.state = receiver.state,
               receiver'.alive = receiver.alive
        PROVE  QueueReplays'
    BY <1>0, <1>1 DEF QueueReplays, Leads
  <1>2. ASSUME NEW e \in CanonicalEvents, SendStart(e) PROVE QueueReplays'
    BY <1>0, <1>1, <1>2 DEF SendStart, StreamTypeOK
  <1>3. CASE SendPoll
    BY <1>0, <1>1, <1>3 DEF SendPoll, Resolved, StreamTypeOK
  <1>4. CASE SendOffer
    BY <1>4, OfferReplays
  <1>5. CASE DropSender
    BY <1>0, <1>1, <1>5 DEF DropSender, StreamTypeOK
  <1>6. CASE RecvPoll
    BY <1>0, <1>1, <1>6 DEF RecvPoll, StreamTypeOK
  <1>7. CASE RecvTake
    BY <1>7, TakeReplays
  <1>8. CASE DropReceiver
    BY <1>0, <1>8 DEF DropReceiver, StreamTypeOK, QueueReplays
  <1>9. CASE Cancel \/ UNCHANGED streamVars
    BY <1>1, <1>9 DEF Cancel, streamVars
  <1> QED
    BY <1>2, <1>3, <1>4, <1>5, <1>6, <1>7, <1>8, <1>9 DEF StreamNext

\* A trail tells what the consumer will say about the head of the queue, and where an
\* emptied queue leaves it.
LEMMA ReplayConsequences ==
  ASSUME StreamTypeOK, QueueReplays
  PROVE  /\ ReceiverNeverRejects
         /\ receiver.alive /\ queue = <<>> => receiver.state = sender.state
  <1>1. CASE receiver.alive
    <2>1. PICK trail \in [1..(Len(queue) + 1) -> EventStates] : Leads(trail)
      BY <1>1 DEF QueueReplays
    <2>2. ASSUME queue # <<>> PROVE Accepts(receiver.state, Head(queue))
      <3>1. Len(queue) \in Nat /\ Len(queue) > 0 /\ Head(queue) = queue[1]
        BY <2>2 DEF StreamTypeOK
      <3> QED
        BY <2>1, <3>1 DEF Leads
    <2>3. ASSUME queue = <<>> PROVE receiver.state = sender.state
      <3>1. Len(queue) = 0
        BY <2>3
      <3> QED
        BY <2>1, <3>1 DEF Leads
    <2> QED
      BY <2>2, <2>3 DEF ReceiverNeverRejects
  <1>2. CASE ~receiver.alive
    BY <1>2 DEF QueueReplays, ReceiverNeverRejects
  <1> QED
    BY <1>1, <1>2

\* The bookkeeping of a pending send, of the handle and of a pending poll is kept.
LEMMA BookkeepingStep ==
  StreamInv /\ [StreamNext]_streamVars => PendingIsValid' /\ HandleHeld' /\ PolledIsAlive'
  <1> SUFFICES ASSUME StreamInv, [StreamNext]_streamVars
               PROVE  PendingIsValid' /\ HandleHeld' /\ PolledIsAlive'
    OBVIOUS
  <1>0. StreamTypeOK /\ PendingIsValid /\ HandleHeld /\ PolledIsAlive
    BY DEF StreamInv
  <1> USE DEF PendingIsValid, HandleHeld, PolledIsAlive, StreamTypeOK
  <1>1. ASSUME NEW e \in CanonicalEvents, SendStart(e)
        PROVE  PendingIsValid' /\ HandleHeld' /\ PolledIsAlive'
    BY <1>0, <1>1 DEF SendStart
  <1>2. CASE SendPoll
    BY <1>0, <1>2 DEF SendPoll, Resolved
  <1>3. CASE SendOffer
    <2>1. sender.alive /\ receiver' = receiver
      BY <1>0, <1>3 DEF SendOffer
    <2>2. CASE sender' = Enqueued
      BY <1>0, <2>1, <2>2 DEF Enqueued, Resolved
    <2>3. CASE sender' = Resolved("cancelled")
      BY <1>0, <2>1, <2>3 DEF Resolved
    <2>4. CASE sender' = [sender EXCEPT !.polled = FALSE]
      BY <1>0, <2>1, <2>4
    <2> QED
      BY <1>3, <2>2, <2>3, <2>4 DEF SendOffer
  <1>4. CASE DropSender
    BY <1>0, <1>4 DEF DropSender
  <1>5. CASE RecvPoll
    BY <1>0, <1>5 DEF RecvPoll
  <1>6. CASE RecvTake
    <2>1. receiver'.polled = FALSE /\ sender' = sender
      BY <1>0, <1>6 DEF RecvTake, Received, ReceivedNone
    <2> QED
      BY <1>0, <2>1
  <1>7. CASE DropReceiver
    BY <1>0, <1>7 DEF DropReceiver
  <1>8. CASE Cancel \/ UNCHANGED streamVars
    BY <1>0, <1>8 DEF Cancel, streamVars
  <1> QED
    BY <1>1, <1>2, <1>3, <1>4, <1>5, <1>6, <1>7, <1>8 DEF StreamNext

\* Only the end of an unfinished, fully received source is reported as a truncation.
LEMMA TruncationStep == StreamInv /\ [StreamNext]_streamVars => TruncationIsReal'
  <1> SUFFICES ASSUME StreamInv, [StreamNext]_streamVars PROVE TruncationIsReal'
    OBVIOUS
  <1>0. /\ StreamTypeOK /\ PendingIsValid /\ HandleHeld /\ PolledIsAlive /\ TruncationIsReal
        /\ ReceiverNeverRejects
        /\ receiver.alive /\ queue = <<>> => receiver.state = sender.state
    BY ReplayConsequences DEF StreamInv
  <1> USE DEF TruncationIsReal, StreamTypeOK
  <1>1. ASSUME sender' = sender \/ sender.alive, receiver' = receiver PROVE TruncationIsReal'
    BY <1>0, <1>1
  <1>2. ASSUME NEW e \in CanonicalEvents, SendStart(e) PROVE TruncationIsReal'
    BY <1>1, <1>2 DEF SendStart
  <1>3. CASE SendPoll \/ SendOffer
    BY <1>0, <1>1, <1>3 DEF SendPoll, SendOffer, PendingIsValid
  <1>4. CASE DropSender
    BY <1>1, <1>4 DEF DropSender
  <1>5. CASE RecvPoll
    BY <1>0, <1>5 DEF RecvPoll
  <1>6. CASE RecvTake
    <2>1. receiver.alive /\ sender' = sender
      BY <1>0, <1>6 DEF RecvTake, PolledIsAlive
    <2>2. CASE queue # <<>>
      <3>1. receiver'.last = "event"
        BY <1>0, <1>6, <2>2 DEF RecvTake, Received, ReceiverNeverRejects
      <3> QED
        BY <3>1
    <2>3. CASE queue = <<>> /\ ChannelClosed
      <3>1. receiver.state = sender.state /\ receiver'.state = receiver.state
        BY <1>0, <1>6, <2>1, <2>3 DEF RecvTake, ReceivedNone
      <3>2. receiver'.last = "truncated" => ~IsTerminal(receiver.state)
        BY <1>0, <1>6, <2>3 DEF RecvTake, ReceivedNone, Finish
      <3> QED
        BY <1>0, <2>1, <2>3, <3>1, <3>2 DEF HandleHeld, ChannelClosed
    <2>4. CASE queue = <<>> /\ ~ChannelClosed
      BY <1>0, <1>6, <2>1, <2>4 DEF RecvTake
    <2> QED
      BY <2>2, <2>3, <2>4
  <1>7. CASE DropReceiver
    BY <1>0, <1>7 DEF DropReceiver
  <1>8. CASE Cancel \/ UNCHANGED streamVars
    BY <1>0, <1>8 DEF Cancel, streamVars
  <1> QED
    BY <1>2, <1>3, <1>4, <1>5, <1>6, <1>7, <1>8 DEF StreamNext

-----------------------------------------------------------------------------
(* Theorems. *)

\* The invariant holds in every reachable state.
LEMMA StreamInvariant == StreamSpec => []StreamInv
  <1>1. StreamInit => StreamInv
    BY StreamInitInv
  <1>2. StreamInv /\ [StreamNext]_streamVars => StreamInv'
    BY StreamTypeStep, ReplayStep, BookkeepingStep, TruncationStep DEF StreamInv
  <1> QED
    BY <1>1, <1>2, PTL DEF StreamSpec

\* The bounded channel stays within its capacity whatever its two ends do
\* (bounded_canonical_stream, send, recv).
THEOREM StreamTypeCorrect == StreamSpec => []StreamTypeOK
  <1>1. StreamInv => StreamTypeOK
    BY DEF StreamInv
  <1> QED
    BY <1>1, StreamInvariant, PTL

\* The consumer's own validation in receive() never refuses an event the producer's
\* validation in send() let through.
THEOREM EndsAgree == StreamSpec => []ReceiverNeverRejects
  <1>1. StreamInv => ReceiverNeverRejects
    BY ReplayConsequences DEF StreamInv
  <1> QED
    BY <1>1, StreamInvariant, PTL

\* recv() reports StreamTruncated only when the producer is gone without a terminal
\* event and everything it had queued was received.
THEOREM TruncationSound == StreamSpec => []TruncationIsReal
  <1>1. StreamInv => TruncationIsReal
    BY DEF StreamInv
  <1> QED
    BY <1>1, StreamInvariant, PTL
=============================================================================
