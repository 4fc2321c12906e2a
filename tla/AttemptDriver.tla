--------------------------- MODULE AttemptDriver ----------------------------
(***************************************************************************)
(* Gateway events on their way to SQLite: the bounded queue that request   *)
(* paths emit into without blocking, the background writer with its one    *)
(* retained batch, the append-only event log, the counters that make every *)
(* loss visible, and the flush that ends the process.                      *)
(*                                                                         *)
(* An event is [kind, id, payload, valid].  The identity under which it is *)
(* stored is (kind, id); for a usage event the id is its request, so two   *)
(* usage events of one request collide.  valid is false for an identifier  *)
(* the log cannot hold.                                                    *)
(***************************************************************************)
EXTENDS Integers, Sequences, SequencesExt, FiniteSets, Functions

CONSTANTS
    RequiredCapacity,       \* EventQueueConfig.required_capacity
    DiagnosticCapacity,     \* EventQueueConfig.diagnostic_capacity
    BatchSize,              \* EventWriterConfig.batch_size
    MaxWriteFailures        \* bound on transient SQLite failures

ASSUME EventCapacities ==
    {RequiredCapacity, DiagnosticCapacity, BatchSize} \subseteq Nat \ {0}

VARIABLES
    queue,          \* BoundedEventQueue: one channel per priority
    writer,         \* AsyncSqliteEventWriter: at, pending, remaining
    eventLog,       \* the gateway_event_log table in ordinal order
    counters,       \* queue, writer and telemetry counters
    served,         \* "up", "stopping", then the exit status of the process
    accepted        \* history: the required events the queue took, in order

pipelineVars == <<queue, writer, eventLog, counters, served, accepted>>

Priority(event) == IF event.kind = "diagnostic" THEN "diagnostic" ELSE "required"
Capacity(priority) ==
    IF priority = "required" THEN RequiredCapacity ELSE DiagnosticCapacity
EventKinds == {"request", "attempt", "usage", "health", "diagnostic"}

\* Counters of EventQueueMetrics, EventWriterMetrics and PrometheusMetrics.  The
\* receiver lives as long as a sender does, so sink_closed never counts.
NoCounts ==
    [required_queue_full |-> 0, diagnostics_dropped |-> 0,
     required_events_committed |-> 0, rows_inserted |-> 0,
     diagnostics_not_persisted |-> 0, sqlite_write_failures |-> 0,
     required_events_quarantined |-> 0, pending_required |-> 0,
     observed |-> [k \in EventKinds |-> 0]]

PipelineInit ==
    /\ queue = [required |-> <<>>, diagnostic |-> <<>>]
    /\ writer = [at |-> "drain", pending |-> <<>>, remaining |-> <<>>]
    /\ eventLog = <<>>
    /\ counters = NoCounts
    /\ served = "up"
    /\ accepted = <<>>

(***************************************************************************)
(* The producer side.                                                      *)
(***************************************************************************)
try_emit(event) ==
    LET p == Priority(event) IN
    /\ UNCHANGED <<writer, eventLog, served>>
    /\ \/ /\ Len(queue[p]) < Capacity(p)
          /\ queue' = [queue EXCEPT ![p] = Append(@, event)]
          /\ accepted' = IF p = "required" THEN Append(accepted, event) ELSE accepted
          /\ UNCHANGED counters
       \/ /\ Len(queue[p]) >= Capacity(p)
          /\ counters' = IF p = "required"
                         THEN [counters EXCEPT !.required_queue_full = @ + 1]
                         ELSE [counters EXCEPT !.diagnostics_dropped = @ + 1]
          /\ UNCHANGED <<queue, accepted>>

(***************************************************************************)
(* The writer.  drain_ready_events and recv take required events first;    *)
(* accept_event shows every event to the telemetry pipeline exactly once   *)
(* and keeps only the required ones for the log.                           *)
(***************************************************************************)
observe_event(counts, event) == [counts EXCEPT !.observed[event.kind] = @ + 1]

\* The event try_recv returns, from the channel it returns it from.
NextChannel == IF queue.required # <<>> THEN "required" ELSE "diagnostic"

accept_event(event) ==
    IF Priority(event) = "required"
    THEN /\ writer' = [writer EXCEPT !.pending = Append(@, event)]
         /\ counters' = [observe_event(counters, event) EXCEPT
                            !.pending_required = Len(writer.pending) + 1]
    ELSE /\ counters' = [observe_event(counters, event) EXCEPT
                            !.diagnostics_not_persisted = @ + 1]
         /\ UNCHANGED writer

drain_ready_events ==
    /\ served \in {"up", "stopping"} /\ writer.at = "drain"
    /\ Len(writer.pending) < BatchSize
    /\ queue[NextChannel] # <<>>
    /\ queue' = [queue EXCEPT ![NextChannel] = Tail(@)]
    /\ accept_event(Head(queue[NextChannel]))
    /\ UNCHANGED <<eventLog, served, accepted>>

\* The drain stops at a full batch or an empty queue; a non-empty batch is
\* then written, an empty one waits in recv.
StartWrite ==
    /\ served \in {"up", "stopping"} /\ writer.at = "drain"
    /\ writer.pending # <<>>
    /\ Len(writer.pending) >= BatchSize \/ queue[NextChannel] = <<>>
    /\ writer' = [writer EXCEPT !.at = "write"]
    /\ UNCHANGED <<queue, eventLog, counters, served, accepted>>

(***************************************************************************)
(* append_batch: one transaction.  A record that is not persistable, or    *)
(* one stored before under another payload, poisons the whole batch; one   *)
(* stored before under the same payload is a replay and inserts nothing.   *)
(***************************************************************************)
EventKey(event) == <<event.kind, event.id>>
IsReplay(stored, event) == \E i \in 1..Len(stored) : stored[i] = event
IsConflict(stored, event) ==
    \E i \in 1..Len(stored) : EventKey(stored[i]) = EventKey(event) /\ stored[i] # event

\* The log after the batch, without checking for poison.
Appended(stored, events) ==
    FoldLeft(LAMBDA s, e : IF IsReplay(s, e) THEN s ELSE Append(s, e), stored, events)
is_record_poison(stored, events) ==
    \E i \in 1..Len(events) :
        \/ ~events[i].valid
        \/ IsConflict(Appended(stored, SubSeq(events, 1, i - 1)), events[i])

\* The commit of a batch (or of a single record) and its two counters.
Commit(events, counts) ==
    /\ eventLog' = Appended(eventLog, events)
    /\ counters' = [counts EXCEPT
           !.required_events_committed = @ + Len(events),
           !.rows_inserted = @ + Len(Appended(eventLog, events)) - Len(eventLog)]

TransientFailure(counts) ==
    /\ counts.sqlite_write_failures < MaxWriteFailures
    /\ counters' = [counts EXCEPT !.sqlite_write_failures = @ + 1]
    /\ UNCHANGED eventLog

\* run: the batch is committed, retained for a retry after a transient failure,
\* or, when one record poisons it, handed to the record-by-record pass.
WriteBatch ==
    /\ served \in {"up", "stopping"} /\ writer.at = "write"
    /\ \/ /\ ~is_record_poison(eventLog, writer.pending)
          /\ Commit(writer.pending, [counters EXCEPT !.pending_required = 0])
          /\ writer' = [at |-> "drain", pending |-> <<>>, remaining |-> <<>>]
       \/ /\ TransientFailure(counters)
          /\ writer' = [writer EXCEPT !.at = "drain"]
       \/ /\ is_record_poison(eventLog, writer.pending)
          /\ writer' = [at |-> "single", pending |-> <<>>, remaining |-> writer.pending]
          /\ UNCHANGED <<eventLog, counters>>
    /\ UNCHANGED <<queue, served, accepted>>

\* Fault: a transient failure in the record-by-record pass keeps only the record
\* it happened on.
QuarantineForgetful ==
    /\ served \in {"up", "stopping"} /\ writer.at = "single" /\ writer.remaining # <<>>
    /\ TransientFailure([counters EXCEPT !.pending_required = 1])
    /\ writer' = [at |-> "drain", pending |-> <<Head(writer.remaining)>>, remaining |-> <<>>]
    /\ UNCHANGED <<queue, served, accepted>>

\* quarantine_poisoned_pending, one record per step: commit it, set it aside, or
\* go back to the batch with it and everything behind it.
quarantine_poisoned_pending ==
    LET rest == writer.remaining
        counts == [counters EXCEPT !.pending_required = Len(rest) - 1] IN
    /\ served \in {"up", "stopping"} /\ writer.at = "single" /\ rest # <<>>
    /\ \/ /\ ~is_record_poison(eventLog, <<Head(rest)>>)
          /\ Commit(<<Head(rest)>>, counts)
          /\ writer' = [writer EXCEPT !.remaining = Tail(@),
                            !.at = IF Len(rest) = 1 THEN "drain" ELSE "single"]
       \/ /\ is_record_poison(eventLog, <<Head(rest)>>)
          /\ counters' = [counts EXCEPT !.required_events_quarantined = @ + 1]
          /\ writer' = [writer EXCEPT !.remaining = Tail(@),
                            !.at = IF Len(rest) = 1 THEN "drain" ELSE "single"]
          /\ UNCHANGED eventLog
       \/ /\ TransientFailure([counters EXCEPT !.pending_required = Len(rest)])
          /\ writer' = [at |-> "drain", pending |-> rest, remaining |-> <<>>]
    /\ UNCHANGED <<queue, served, accepted>>

(***************************************************************************)
(* The end of the process: both listeners have stopped and dropped every   *)
(* sender.  The writer then drains what is queued and returns; the flush   *)
(* waits for it, or gives up after P12_EVENT_FLUSH_TIMEOUT.                *)
(***************************************************************************)
StopListeners ==
    /\ served = "up"
    /\ served' = "stopping"
    /\ UNCHANGED <<queue, writer, eventLog, counters, accepted>>

FlushDone ==
    /\ served = "stopping" /\ writer.at = "drain" /\ writer.pending = <<>>
    /\ queue[NextChannel] = <<>>
    /\ served' = IF counters.pending_required = 0 THEN "exit_ok" ELSE "exit_incomplete"
    /\ UNCHANGED <<queue, writer, eventLog, counters, accepted>>

\* The writer is suspended in a write or in the pause after a failed one.
FlushTimeout ==
    /\ served = "stopping"
    /\ writer.at # "drain" \/ (writer.pending # <<>> /\ counters.sqlite_write_failures > 0)
    /\ served' = IF counters.pending_required = 0 /\ counters.required_events_quarantined = 0
                 THEN "exit_ok" ELSE "exit_incomplete"
    /\ UNCHANGED <<queue, writer, eventLog, counters, accepted>>

WriterNext ==
    \/ drain_ready_events \/ StartWrite \/ WriteBatch \/ quarantine_poisoned_pending
    \/ StopListeners \/ FlushDone \/ FlushTimeout

(***************************************************************************)
(* What the pipeline promises.                                             *)
(***************************************************************************)
\* Every required event the queue accepted is in exactly one place and every loss
\* is counted: it waits in the queue or in the writer's batch, or it is counted
\* as committed or as quarantined.  The log holds accepted events in the order in
\* which they were accepted, each identity at most once, and as many rows as the
\* counter says.  Telemetry has seen each event taken from the queue once, however
\* often its batch was retried.  A process that reports a clean exit has left no
\* accepted event behind (event_store.rs run, quarantine_poisoned_pending,
\* append_batch; deployment.rs run_servers).
EventsAccounted ==
    /\ Len(accepted) = Len(queue.required) + Len(writer.pending) + Len(writer.remaining)
                       + counters.required_events_committed
                       + counters.required_events_quarantined
    /\ counters.rows_inserted = Len(eventLog)
    /\ \A i, j \in 1..Len(eventLog) : EventKey(eventLog[i]) = EventKey(eventLog[j]) => i = j
    /\ \A i \in 1..Len(eventLog) : eventLog[i] \in ToSet(accepted)
    /\ \A i, j \in 1..Len(eventLog) :
           i < j => \E m, n \in 1..Len(accepted) :
                        m < n /\ accepted[m] = eventLog[i] /\ accepted[n] = eventLog[j]
    /\ \A k \in EventKinds \ {"diagnostic"} :
           counters.observed[k] =
               Len(SelectSeq(SubSeq(accepted, 1, Len(accepted) - Len(queue.required)),
                             LAMBDA e : e.kind = k))
    /\ served = "exit_ok" =>
           /\ queue.required = <<>> /\ writer.pending = <<>> /\ writer.remaining = <<>>
           /\ \A i \in 1..Len(accepted) :
                  accepted[i] \notin ToSet(eventLog) => counters.required_events_quarantined > 0

-----------------------------------------------------------------------------
(***************************************************************************)
(* One upstream attempt of the composed runtime, stage by stage, the       *)
(* in-process ledger that remembers the stage and the terminals of recent  *)
(* requests, and the management answer built from that ledger and from the *)
(* durable event log.                                                      *)
(*                                                                         *)
(* Between two stages a task may wait, and the management listener runs on *)
(* a thread of its own: every stage is a step.  The ledger is only ever    *)
(* locked with try_lock, so any access may find it busy.                   *)
(***************************************************************************)

CONSTANTS
    DriverRequests,     \* request ids
    RouteAdapters,      \* the adapter of each attempt a request's route allows
    RequestMode,        \* the response mode each client asked for
    MaxRecords,         \* P12AttemptStageStore::MAX_RECORDS
    MaxRouteAttempts    \* P12_MAX_ROUTE_ATTEMPTS

VARIABLES
    ledger,         \* P12AttemptStageStore: records, unavailable, sequence
    call,           \* where each request's current attempt is
    reached,        \* history: the last stage of each request's newest attempt
    terminals,      \* history: the attempts of a request that ended, in order
    evicted         \* history: requests whose record the ledger dropped

driverVars == <<ledger, call, reached, terminals, evicted>>

\* EndpointAdapter, and the Codex account form of the Responses adapter.
EndpointAdapter ==
    {"chat", "responses", "codex", "messages",
     "grok_build", "grok_console", "grok_web", "grok_official", "kiro"}
ResponseMode == {"streaming", "buffered"}
ASSUME DriverAssumption ==
    /\ \A r \in DriverRequests : RouteAdapters[r] \in BoundedSeq(EndpointAdapter, MaxRouteAttempts)
    /\ RequestMode \in [DriverRequests -> ResponseMode]

\* AttemptFailure: whether the orchestrator may try another candidate.
RetryableFailures == {"connection", "rate_limited", "server_error", "bootstrap_truncated"}

AttemptEvent(r, n, outcome) ==
    [kind |-> "attempt", id |-> <<r, n>>, payload |-> outcome, valid |-> TRUE]

(***************************************************************************)
(* The stage ledger.                                                       *)
(***************************************************************************)
Oldest(records) ==
    CHOOSE r \in DOMAIN records :
        \A q \in DOMAIN records : records[r].sequence <= records[q].sequence
evict_oldest(records) == Restrict(records, DOMAIN records \ {Oldest(records)})

Room(records) ==
    IF Cardinality(DOMAIN records) >= MaxRecords THEN evict_oldest(records) ELSE records
Insert(records, r, record) ==
    [q \in DOMAIN records \cup {r} |-> IF q = r THEN record ELSE records[q]]

StageRecorded(l, r, stage) ==
    IF r \in DOMAIN l.records
    THEN [l EXCEPT !.records[r].stage = stage]
    ELSE [l EXCEPT !.records = Insert(Room(@), r,
                       [stage |-> stage, attempts |-> <<>>, sequence |-> l.sequence]),
                   !.sequence = @ + 1]

\* Off for good: nothing reads the records again.
NoRecords == [r \in {} |-> 0]
mark_unavailable(l) == [l EXCEPT !.unavailable = TRUE, !.records = NoRecords]

\* record_stage: nothing once unavailable; a busy lock switches the ledger off.
record_stage(r, stage) ==
    /\ \/ ledger.unavailable /\ UNCHANGED ledger
       \/ ~ledger.unavailable /\ ledger' = StageRecorded(ledger, r, stage)
       \/ ~ledger.unavailable /\ ledger' = mark_unavailable(ledger)
    /\ evicted' = evicted \cup (DOMAIN ledger.records \ DOMAIN ledger'.records)
    /\ reached' = IF ledger'.unavailable THEN reached ELSE [reached EXCEPT ![r] = stage]

\* The record of a request can take the terminal of attempt n.
TakesTerminal(l, r, n) ==
    /\ r \in DOMAIN l.records
    /\ Len(l.records[r].attempts) < MaxRouteAttempts
    /\ n \notin ToSet(l.records[r].attempts)

record_terminal(r, n) ==
    \/ ledger.unavailable /\ UNCHANGED ledger
    \/ /\ ~ledger.unavailable /\ TakesTerminal(ledger, r, n)
       /\ ledger' = [ledger EXCEPT !.records[r].attempts = Append(@, n)]
    \/ ~ledger.unavailable /\ ledger' = mark_unavailable(ledger)

\* P12AttemptStageStore::list_request_attempts on a free lock.
Unavailable == [ok |-> FALSE, attempts |-> <<>>, stage |-> "none"]
Listed(attempts, stage) == [ok |-> TRUE, attempts |-> attempts, stage |-> stage]
LedgerAttempts(r) ==
    IF ledger.unavailable THEN Unavailable
    ELSE IF r \notin DOMAIN ledger.records THEN Listed(<<>>, "none")
    ELSE IF ledger.records[r].attempts = <<>> THEN Unavailable
    ELSE Listed(ledger.records[r].attempts, ledger.records[r].stage)

(***************************************************************************)
(* What each adapter does after the request conversion: the stages it      *)
(* records in order, each with the ways its attempt can fail there.        *)
(***************************************************************************)
InStage(stage, failures) == [stage |-> stage, failures |-> failures]

\* classify_openai_response_failure_body, after an error body that may itself fail
\* to arrive; classify_anthropic_response_failure comes to the same set.
classify_openai_response_failure == {"rate_limited", "server_error", "non_retryable", "connection"}
classify_anthropic_response_failure ==
    {"rate_limited", "server_error", "non_retryable", "connection"}

\* send_admitted_request_inner, after the admission its callers make.
send_admitted_request(statusFailures) ==
    <<InStage("egress_admission", {"non_retryable"}),
      InStage("http_transport", {"connection"}),
      InStage("http_status", statusFailures),
      InStage("content_type", {"non_retryable"})>>

\* The first decoded event must be the start of a response; a body is read whole
\* and then decoded.
begin == <<InStage("sse_bootstrap", {"bootstrap_truncated"})>>
decode_json_response ==
    <<InStage("body_read", {"connection", "non_retryable"}),
      InStage("decoder", {"bootstrap_truncated"})>>
FirstRead(mode) == IF mode = "streaming" THEN begin ELSE decode_json_response

start_openai_chat_completions(mode) ==
    send_admitted_request(classify_openai_response_failure) \o FirstRead(mode)
start_anthropic_messages(mode) ==
    send_admitted_request(classify_anthropic_response_failure) \o FirstRead(mode)

\* The Codex form streams whatever the client asked for.
start_openai_responses(codex, mode) ==
    send_admitted_request(classify_openai_response_failure)
    \o IF codex THEN begin ELSE FirstRead(mode)

\* Adapters that admit and send inside one call of their own.
Native(failures) ==
    <<InStage("egress_admission", {}), InStage("http_transport", failures),
      InStage("http_status", {})>>
p12_classify_grok_start_failure == {"connection", "server_error", "rate_limited", "non_retryable"}
p12_classify_kiro_start_failure == {"connection", "rate_limited", "non_retryable"}
start_grok_build == Native(p12_classify_grok_start_failure)
start_grok_console == Native(p12_classify_grok_start_failure)
start_grok_web == Native(p12_classify_grok_start_failure)
start_grok_official == Native(p12_classify_grok_start_failure)
start_kiro_messages == Native(p12_classify_kiro_start_failure)

StagesOf(adapter, mode) ==
    CASE adapter = "chat" -> start_openai_chat_completions(mode)
      [] adapter \in {"responses", "codex"} -> start_openai_responses(adapter = "codex", mode)
      [] adapter = "messages" -> start_anthropic_messages(mode)
      [] adapter = "grok_build" -> start_grok_build
      [] adapter = "grok_console" -> start_grok_console
      [] adapter = "grok_web" -> start_grok_web
      [] adapter = "grok_official" -> start_grok_official
      [] adapter = "kiro" -> start_kiro_messages

\* Whatever the adapter, nothing is sent before an egress admission.
ASSUME AdmittedFirst ==
    \A adapter \in EndpointAdapter, mode \in ResponseMode :
        /\ StagesOf(adapter, mode)[1].stage = "egress_admission"
        /\ StagesOf(adapter, mode)[2].stage = "http_transport"

(***************************************************************************)
(* The driver.                                                             *)
(***************************************************************************)
NoCall == [at |-> "idle", attempt |-> 0, step |-> 0, retried |-> FALSE]

DriverInit ==
    /\ ledger = [records |-> NoRecords, unavailable |-> FALSE, sequence |-> 0]
    /\ call = [r \in DriverRequests |-> NoCall]
    /\ reached = [r \in DriverRequests |-> "none"]
    /\ terminals = [r \in DriverRequests |-> <<>>]
    /\ evicted = {}

Adapter(r) == RouteAdapters[r][call[r].attempt]
Plan(r) == StagesOf(Adapter(r), RequestMode[r])

\* The attempt of r ends: of a failure only its being retryable matters here.
Ends(r, outcome) ==
    /\ call' = [call EXCEPT ![r].at = IF outcome = "ok" THEN "ok"
                                      ELSE IF outcome \in RetryableFailures THEN "retryable"
                                      ELSE "final"]
    /\ UNCHANGED <<ledger, reached, terminals, evicted, pipelineVars>>

\* start: the first stage is recorded before the endpoint is even looked up.
start(r) ==
    /\ call[r].at = "idle" /\ call[r].attempt < Len(RouteAdapters[r])
    /\ record_stage(r, "request_conversion")
    /\ call' = [call EXCEPT ![r].at = "running", ![r].attempt = @ + 1, ![r].step = 0]
    /\ UNCHANGED <<terminals, pipelineVars>>

\* The endpoint lookup, project_candidate, the runtime credential and the request
\* builder are refused, or the adapter goes on to its first stage.
project_candidate(r) ==
    /\ call[r].at = "running" /\ call[r].step = 0
    /\ Ends(r, "non_retryable")

Fail(r, plan) ==
    /\ call[r].at = "running" /\ call[r].step > 0
    /\ \E f \in plan[call[r].step].failures : Ends(r, f)

Advance(r, plan) ==
    /\ call[r].at = "running" /\ call[r].step < Len(plan)
    /\ record_stage(r, plan[call[r].step + 1].stage)
    /\ call' = [call EXCEPT ![r].step = @ + 1]
    /\ UNCHANGED <<terminals, pipelineVars>>

Succeed(r, plan) ==
    /\ call[r].at = "running" /\ call[r].step = Len(plan)
    /\ Ends(r, "ok")

\* A Codex refusal of max_output_tokens is repeated once without the field, from
\* egress admission on.
RetryWithoutMaxOutputTokens(r, plan) ==
    /\ call[r].at = "running" /\ Adapter(r) = "codex" /\ ~call[r].retried
    /\ call[r].step > 0 /\ plan[call[r].step].stage = "http_status"
    /\ record_stage(r, "egress_admission")
    /\ call' = [call EXCEPT ![r].step = 1, ![r].retried = TRUE]
    /\ UNCHANGED <<terminals, pipelineVars>>

\* The client goes away while the attempt waits for its upstream.
Cancelled(r) ==
    /\ call[r].at = "running" /\ call[r].step > 1
    /\ Ends(r, "cancelled")

\* P12FanoutEventSink::try_emit: the ledger first, then the bounded queue whatever
\* the ledger said.  A retryable failure leaves the request free to try again.
EmitTerminal(r) ==
    LET n == call[r].attempt
        outcome == IF call[r].at = "ok" THEN "succeeded" ELSE "failed" IN
    /\ call[r].at \in {"ok", "retryable", "final"}
    /\ record_terminal(r, n)
    /\ try_emit(AttemptEvent(r, n, outcome))
    /\ terminals' = [terminals EXCEPT ![r] = Append(@, n)]
    /\ call' = [call EXCEPT ![r] =
                   [NoCall EXCEPT !.attempt = n,
                       !.at = IF call[r].at = "retryable" /\ n < Len(RouteAdapters[r])
                              THEN "idle" ELSE "done"]]
    /\ UNCHANGED <<reached, evicted>>

(***************************************************************************)
(* The management answer.                                                  *)
(***************************************************************************)
DurableAttempts(r) ==
    LET own == SelectSeq(eventLog, LAMBDA e : e.kind = "attempt" /\ e.id[1] = r) IN
    [i \in 1..Len(own) |-> own[i].id[2]]

\* Fault: the durable list is served although the ledger knows a longer one.
ListShorter(r) ==
    LET recorded == LedgerAttempts(r)
        durable == DurableAttempts(r) IN
    IF recorded.ok /\ recorded.attempts = durable /\ Len(durable) = 1
    THEN Listed(durable, recorded.stage) ELSE Listed(durable, "none")

\* list_request_attempts of the facade.
list_request_attempts(r) ==
    LET recorded == LedgerAttempts(r)
        durable == DurableAttempts(r) IN
    IF recorded.ok /\ Len(recorded.attempts) > Len(durable) THEN Unavailable
    ELSE IF recorded.ok /\ recorded.attempts = durable /\ Len(durable) = 1
    THEN Listed(durable, recorded.stage)
    ELSE Listed(durable, "none")

DriverNext ==
    \E r \in DriverRequests :
        \/ start(r) \/ project_candidate(r) \/ Cancelled(r) \/ EmitTerminal(r)
        \/ /\ call[r].at = "running"
           /\ \/ Fail(r, Plan(r)) \/ Advance(r, Plan(r)) \/ Succeed(r, Plan(r))
              \/ RetryWithoutMaxOutputTokens(r, Plan(r))

\* The writer at work.  A transient failure only delays it.
WriterWork ==
    /\ drain_ready_events \/ StartWrite \/ WriteBatch \/ quarantine_poisoned_pending
    /\ counters'.sqlite_write_failures = 0
    /\ UNCHANGED driverVars

\* What the management listing of a request's attempts may be relied on for.  It
\* never names an attempt that did not end, and keeps their order.  As long as the
\* ledger is on and has kept the request's record, an answered list is complete: an
\* ended attempt whose event the queue refused makes the answer unavailable, not
\* shorter.  A stage in the answer is the last stage of the newest attempt started:
\* of the attempt it is shown with when no other has started since, and otherwise
\* of that successor (runtime.rs list_request_attempts, record_stage).
AttemptListTruthful ==
    \A r \in DriverRequests :
        LET answer == list_request_attempts(r) IN
        answer.ok =>
            /\ answer.attempts =
                   SelectSeq(terminals[r], LAMBDA n : n \in ToSet(answer.attempts))
            /\ (~ledger.unavailable /\ r \notin evicted) => answer.attempts = terminals[r]
            /\ answer.stage # "none" =>
                   /\ answer.stage = reached[r]
                   /\ Len(answer.attempts) = 1
=============================================================================
