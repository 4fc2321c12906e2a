--------------------------- MODULE BoundedStream ----------------------------
(***************************************************************************)
(* The bounded canonical-event stream of crates/gateway-stream/src/lib.rs: *)
(* one producer (CanonicalEventSender), one consumer                       *)
(* (CanonicalEventStream), a Tokio channel of Capacity events between      *)
(* them and a cancellation token both share.  Each end validates the       *)
(* sequence with its own CanonicalEventState.                              *)
(*                                                                         *)
(* A select! with "biased" looks at the cancellation token first and at    *)
(* the channel second.  The two looks are two steps here (poll, then       *)
(* offer or take), because the other end runs on another thread and may    *)
(* cancel in between.  A recv future that is dropped between its polls     *)
(* leaves nothing behind, so a pending recv has no state of its own.       *)
(***************************************************************************)
EXTENDS CanonicalEvent, Naturals, Sequences, FiniteSets

CONSTANTS Capacity, NoEvent

ASSUME CapacityAssumption == Capacity \in Nat \ {0}
ASSUME NoEventAssumption == NoEvent \notin CanonicalEvents

VARIABLES sender, queue, receiver, cancelled

streamVars == <<sender, queue, receiver, cancelled>>

SendResults == {"none", "ok", "cancelled", "protocol", "truncated"}
RecvResults == {"none", "event", "end", "cancelled", "protocol", "truncated"}

\* bounded_canonical_stream(): "open" is sender.is_some(), "pending" the event of a
\* send() that waits in its select!, "polled" that its token was looked at.
StreamInit ==
  /\ sender = [state |-> InitialState, open |-> TRUE, pending |-> NoEvent,
               polled |-> FALSE, alive |-> TRUE, last |-> "none"]
  /\ queue = <<>>
  /\ receiver = [state |-> InitialState, finished |-> FALSE, polled |-> FALSE,
                 alive |-> TRUE, last |-> "none"]
  /\ cancelled = FALSE

-----------------------------------------------------------------------------
(* CanonicalEventSender::send. *)

\* The call up to its select!: the token, the lifecycle, the channel handle.
SendStart(e) ==
  /\ sender.alive /\ sender.pending = NoEvent
  /\ sender' = IF cancelled THEN [sender EXCEPT !.last = "cancelled"]
               ELSE IF ~Accepts(sender.state, e)
                    THEN [sender EXCEPT !.last = Verdict(sender.state, e)]
               ELSE IF ~sender.open THEN [sender EXCEPT !.last = "protocol"]
               ELSE [sender EXCEPT !.pending = e]
  /\ UNCHANGED <<queue, receiver, cancelled>>

Resolved(result) ==
  [sender EXCEPT !.pending = NoEvent, !.polled = FALSE, !.last = result]

\* The first branch of the select!: the cancellation token.
SendPoll ==
  /\ sender.pending # NoEvent /\ ~sender.polled
  /\ sender' = IF cancelled THEN Resolved("cancelled")
               ELSE [sender EXCEPT !.polled = TRUE]
  /\ UNCHANGED <<queue, receiver, cancelled>>

\* Fault: the validated state is forgotten instead of committed.
EnqueuedStale ==
  [Resolved("ok") EXCEPT !.open = ~IsTerminal(After(sender.state, sender.pending))]

Enqueued ==
  [Resolved("ok") EXCEPT !.state = After(sender.state, sender.pending),
                         !.open = ~IsTerminal(After(sender.state, sender.pending))]

\* The second branch: a closed channel, room in it, or a full one to wait for.
SendOffer ==
  /\ sender.polled
  /\ IF ~receiver.alive
     THEN sender' = Resolved("cancelled") /\ queue' = queue
     ELSE IF Len(queue) < Capacity
     THEN sender' = Enqueued /\ queue' = Append(queue, sender.pending)
     ELSE sender' = [sender EXCEPT !.polled = FALSE] /\ queue' = queue
  /\ UNCHANGED <<receiver, cancelled>>

\* The producer goes away, with the send() it may be blocked in.
DropSender ==
  /\ sender.alive
  /\ sender' = [sender EXCEPT !.alive = FALSE, !.open = FALSE, !.pending = NoEvent,
                              !.polled = FALSE]
  /\ UNCHANGED <<queue, receiver, cancelled>>

-----------------------------------------------------------------------------
(* CanonicalEventStream::recv and receive. *)

\* Every channel handle is gone: the stored one and the clone a pending send() holds.
ChannelClosed == ~sender.open /\ sender.pending = NoEvent

\* recv() up to the second branch of its select!.
RecvPoll ==
  /\ receiver.alive /\ ~receiver.polled
  /\ receiver' = IF receiver.finished THEN [receiver EXCEPT !.last = "end"]
                 ELSE IF cancelled
                      THEN [receiver EXCEPT !.finished = TRUE, !.last = "cancelled"]
                 ELSE [receiver EXCEPT !.polled = TRUE]
  /\ UNCHANGED <<sender, queue, cancelled>>

\* receive(Some(event)).
Received(e) ==
  IF Accepts(receiver.state, e)
  THEN [receiver EXCEPT !.state = After(receiver.state, e), !.polled = FALSE,
                        !.finished = IsTerminal(After(receiver.state, e)), !.last = "event"]
  ELSE [receiver EXCEPT !.finished = TRUE, !.polled = FALSE,
                        !.last = Verdict(receiver.state, e)]

\* receive(None): the source-completion check.
ReceivedNone ==
  [receiver EXCEPT !.finished = TRUE, !.polled = FALSE,
                   !.last = IF Finish(receiver.state) = "ok" THEN "end" ELSE "truncated"]

\* The second branch of recv(): a queued event, or the end once the channel is closed.
RecvTake ==
  /\ receiver.polled
  /\ IF queue # <<>>
     THEN receiver' = Received(Head(queue)) /\ queue' = Tail(queue)
     ELSE IF ChannelClosed
     THEN receiver' = ReceivedNone /\ queue' = queue
     ELSE receiver' = [receiver EXCEPT !.polled = FALSE] /\ queue' = queue
  /\ UNCHANGED <<sender, cancelled>>

\* Fault: dropping the consumer only closes the channel.
DropReceiverQuiet ==
  /\ receiver.alive
  /\ receiver' = [receiver EXCEPT !.alive = FALSE, !.polled = FALSE]
  /\ queue' = <<>>
  /\ UNCHANGED <<sender, cancelled>>

\* Drop for CanonicalEventStream: an unfinished response cancels its producer.
DropReceiver ==
  /\ receiver.alive
  /\ receiver' = [receiver EXCEPT !.alive = FALSE, !.polled = FALSE]
  /\ queue' = <<>>
  /\ cancelled' = (cancelled \/ ~IsTerminal(receiver.state))
  /\ UNCHANGED sender

\* StreamCancellation::cancel / StreamControl::cancel, by any holder.
Cancel ==
  /\ ~cancelled
  /\ cancelled' = TRUE
  /\ UNCHANGED <<sender, queue, receiver>>

-----------------------------------------------------------------------------
StreamNext ==
  \/ \E e \in CanonicalEvents : SendStart(e)
  \/ SendPoll
  \/ SendOffer
  \/ DropSender
  \/ RecvPoll
  \/ RecvTake
  \/ DropReceiver
  \/ Cancel

StreamSpec == StreamInit /\ [][StreamNext]_streamVars

-----------------------------------------------------------------------------
(* Properties. *)

\* The records have their types and the channel never holds more than its capacity
\* (mpsc::channel(capacity.get())).
StreamTypeOK ==
  /\ sender \in [state : EventStates, open : BOOLEAN, pending : CanonicalEvents \cup {NoEvent},
                 polled : BOOLEAN, alive : BOOLEAN, last : SendResults]
  /\ queue \in Seq(CanonicalEvents) /\ Len(queue) <= Capacity
  /\ receiver \in [state : EventStates, finished : BOOLEAN, polled : BOOLEAN,
                   alive : BOOLEAN, last : RecvResults]
  /\ cancelled \in BOOLEAN

\* The two ends never disagree about the sequence: whatever is at the head of the queue
\* is an event the consumer's own state machine accepts, after any mix of refused,
\* cancelled, blocked and successful sends (send commits next_state only on Ok).
ReceiverNeverRejects == queue # <<>> => Accepts(receiver.state, Head(queue))

\* recv() answers StreamTruncated only for a response that really was cut short: the
\* producer is gone, it had not sent a terminal event, and the consumer has received
\* every event the channel took (its state is the producer's).
TruncationIsReal ==
  receiver.last = "truncated" =>
    ~sender.alive /\ ~IsTerminal(sender.state) /\ receiver.state = sender.state

-----------------------------------------------------------------------------
(***************************************************************************)
(* The first-semantic-event boundary of one request, crates/gateway-stream *)
(* /src/lib.rs: FirstSemanticEventTracker, its Tokio Notify, and           *)
(* StreamControl::wait_for_first_semantic_event_or_cancellation.           *)
(*                                                                         *)
(* Notify::notify_waiters wakes exactly the Notified futures that exist    *)
(* when it is called, so it is a counter ("epoch"), and a Notified future  *)
(* is the value the counter had when the future was created.               *)
(***************************************************************************)

CONSTANTS Deliverers, Waiters

VARIABLES delivered, epoch, waitCancelled, mark, wait

fseVars == <<delivered, epoch, waitCancelled, mark, wait>>

Done == {"Delivered", "Cancelled"}

FseInit ==
  /\ delivered = FALSE
  /\ epoch = 0
  /\ waitCancelled = FALSE
  /\ mark = [d \in Deliverers |-> "idle"]
  /\ wait = [w \in Waiters |-> [pc |-> "idle", seen |-> 0]]

At(w, pc) == [wait EXCEPT ![w].pc = pc]

-----------------------------------------------------------------------------
(* mark_delivered: the swap, and the notification by whoever was first.    *)

MarkDelivered(d) ==
  \/ /\ mark[d] = "idle"
     /\ delivered' = TRUE
     /\ mark' = [mark EXCEPT ![d] = IF delivered THEN "AlreadyCommitted" ELSE "notify"]
     /\ UNCHANGED epoch
  \/ /\ mark[d] = "notify"
     /\ epoch' = epoch + 1
     /\ mark' = [mark EXCEPT ![d] = "First"]
     /\ UNCHANGED delivered

-----------------------------------------------------------------------------
(* wait_for_first_semantic_event_or_cancellation.                          *)

\* The two checks before the select!.
WaitBegins(w) ==
  /\ wait[w].pc = "idle"
  /\ wait' = IF waitCancelled THEN At(w, "Cancelled")
             ELSE IF delivered THEN At(w, "Delivered") ELSE At(w, "poll")

\* A poll of the biased select!: the token first; a parked future keeps what it saw.
WaitPolls(w) ==
  /\ wait[w].pc \in {"poll", "parked"}
  /\ waitCancelled \/ wait[w].pc = "poll" \/ epoch > wait[w].seen
  /\ wait' = IF waitCancelled THEN At(w, "Cancelled")
             ELSE IF wait[w].pc = "poll" THEN At(w, "register") ELSE At(w, "woken")

\* Fault: the flag is checked before the notification is subscribed to.
WaitUntilCommittedLate(w) ==
  \/ /\ wait[w].pc = "register"
     /\ wait' = IF delivered THEN At(w, "Delivered") ELSE At(w, "check")
  \/ /\ wait[w].pc = "check"
     /\ wait' = [wait EXCEPT ![w] = [pc |-> "parked", seen |-> epoch]]
  \/ /\ wait[w].pc = "woken"
     /\ wait' = IF delivered THEN At(w, "Delivered") ELSE At(w, "register")

\* wait_until_committed: subscribe, check, sleep, and check again when woken.
WaitUntilCommitted(w) ==
  \/ /\ wait[w].pc = "register"
     /\ wait' = [wait EXCEPT ![w] = [pc |-> "check", seen |-> epoch]]
  \/ /\ wait[w].pc = "check"
     /\ wait' = IF delivered THEN At(w, "Delivered") ELSE At(w, "parked")
  \/ /\ wait[w].pc = "woken"
     /\ wait' = IF delivered THEN At(w, "Delivered") ELSE At(w, "register")

\* StreamCancellation::cancel.
CancelRequest ==
  /\ ~waitCancelled
  /\ waitCancelled' = TRUE
  /\ UNCHANGED <<delivered, epoch, mark, wait>>

Deliver(d) == MarkDelivered(d) /\ UNCHANGED <<waitCancelled, wait>>
Begin(w)   == WaitBegins(w) /\ UNCHANGED <<delivered, epoch, waitCancelled, mark>>
Polled(w)  == WaitPolls(w) /\ UNCHANGED <<delivered, epoch, waitCancelled, mark>>
Runs(w)    == WaitUntilCommitted(w) /\ UNCHANGED <<delivered, epoch, waitCancelled, mark>>

FseNext ==
  \/ \E d \in Deliverers : Deliver(d)
  \/ \E w \in Waiters : Begin(w) \/ Polled(w) \/ Runs(w)
  \/ CancelRequest

\* A delivery that swapped the flag goes on to notify, and a woken waiter is polled.
FseFairness ==
  /\ \A d \in Deliverers : WF_fseVars(Deliver(d) /\ mark[d] = "notify")
  /\ \A w \in Waiters : WF_fseVars(Polled(w)) /\ WF_fseVars(Runs(w))

-----------------------------------------------------------------------------
\* A producer that waits for the boundary is released by the delivery or by the
\* cancellation, wherever in its wait they find it: no wake-up is lost
\* (notified() is created before is_committed() is read).
WaitersReleased ==
  \A w \in Waiters :
    (wait[w].pc # "idle" /\ (delivered \/ waitCancelled)) ~> wait[w].pc \in Done
=============================================================================
