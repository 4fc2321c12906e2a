---------------------------- MODULE RuntimeProbe ----------------------------
(***************************************************************************)
(* gateway-router's probe metrics beside the Circuits they accompany: a    *)
(* shard of RuntimeHealthProbeRegistry keeps, per target, a count and two  *)
(* moving averages of the probes observed.  A Circuit probe's completion   *)
(* holds the metrics lock, settles the Circuit through RuntimeHealth and   *)
(* only then records the observation.                                      *)
(***************************************************************************)
EXTENDS RuntimeHealth

CONSTANTS
    Alpha,          \* the policy's EWMA weight, per mille
    ProbeCapacity,  \* MAX_RUNTIME_HEALTH_ENTRIES_PER_SHARD of the metrics shard
    MaxObservations \* bound on the observations explored

VARIABLES
    metrics,   \* target -> RuntimeHealthProbeSnapshot
    observed   \* history: target -> the good and bad probes that counted

probeVars == <<metrics, observed>>

-----------------------------------------------------------------------------
Scale == 1000   \* RUNTIME_HEALTH_PROBE_EWMA_SCALE_PER_MILLE

\* RuntimeHealthProbePolicy::try_new
ValidAlpha == Alpha \in 1 .. Scale

\* A target of any scope addresses the health key of the same scope.
runtime_health_key(target) == target

Unprobed == [observations |-> 0, last |-> 0, success |-> 0]

\* RuntimeHealthProbeOutcome; the latency average is the same arithmetic.
success_sample_per_mille(ok) == IF ok THEN Scale ELSE 0

\* RuntimeHealthCircuitProbeOutcome::circuit_result; 0 is Healthy.
circuit_result(ok, retry) == IF ok THEN 0 ELSE retry

ewma(previous, sample) ==
    (previous * (Scale - Alpha) + sample * Alpha + Scale \div 2) \div Scale

\* With this weight, rounding reaches neither end from inside: what the runs
\* see of a few observations then holds of any number of them.
ASSUME ProbePolicy ==
    /\ ValidAlpha
    /\ \A p \in 0 .. Scale :
          /\ (ewma(p, Scale) = Scale) <=> (p = Scale)
          /\ (ewma(p, 0) = 0) <=> (p = 0)

\* ObservationTimeRegressed, or no room for one more target.
Recordable(target, at) ==
    IF metrics[target] # Unprobed THEN at >= metrics[target].last
    ELSE Cardinality({t \in Keys : metrics[t] # Unprobed}) < ProbeCapacity

next_snapshot(target, ok, at) ==
    LET previous == metrics[target]
    IN  IF previous = Unprobed
        THEN [observations |-> 1, last |-> at,
              success |-> success_sample_per_mille(ok)]
        ELSE [observations |-> previous.observations + 1, last |-> at,
              success |-> ewma(previous.success, success_sample_per_mille(ok))]

ObserveMetrics(target, ok, at) ==
    /\ metrics' = [metrics EXCEPT ![target] = next_snapshot(target, ok, at)]
    /\ observed' = [observed EXCEPT
          ![target].good = @ + (IF ok THEN 1 ELSE 0),
          ![target].bad = @ + (IF ok THEN 0 ELSE 1)]

ProbeInit ==
    /\ metrics = [k \in Keys |-> Unprobed]
    /\ observed = [k \in Keys |-> [good |-> 0, bad |-> 0]]

\* A probe outside any Circuit; its caller names the instant.
Record(target, ok, at) ==
    /\ metrics[target].observations < MaxObservations
    /\ Recordable(target, at)
    /\ ObserveMetrics(target, ok, at)
    /\ UNCHANGED vars

Settles(tk) == states'[tk.key] # states[tk.key]

\* Fault: the observation is recorded whatever the Circuit answers.
CompleteProbeCountsStale(tk, target, ok, retry, t, at) ==
    /\ metrics[target].observations < MaxObservations
    /\ runtime_health_key(target) = tk.key
    /\ Recordable(target, at)
    /\ CompleteCircuitProbe(tk, circuit_result(ok, retry), t)
    /\ metrics' = [metrics EXCEPT ![target] = next_snapshot(target, ok, at)]
    /\ observed' = IF Settles(tk)
                   THEN [observed EXCEPT
                           ![target].good = @ + (IF ok THEN 1 ELSE 0),
                           ![target].bad = @ + (IF ok THEN 0 ELSE 1)]
                   ELSE observed

\* complete_circuit_probe takes the ticket by value: whichever check refuses,
\* the ticket is gone, and a Circuit left half-open waits for its expiry.
CompleteProbe(tk, target, ok, retry, t, at) ==
    /\ tk \in tickets
    /\ tk.kind = "circuit"
    /\ t \in tk.issued .. now
    /\ metrics[target].observations < MaxObservations
    /\ \/ /\ runtime_health_key(target) # tk.key \/ ~Recordable(target, at)
          /\ AbandonTicket(tk)
          /\ UNCHANGED probeVars
       \/ /\ runtime_health_key(target) = tk.key
          /\ Recordable(target, at)
          /\ CompleteCircuitProbe(tk, circuit_result(ok, retry), t)
          /\ IF Settles(tk) THEN ObserveMetrics(target, ok, at)
             ELSE UNCHANGED probeVars

\* The clients of the Circuit: reports open it, successes close it.  Waiting
\* for the health shard's lock is RuntimeHealth's concern: t is now.
CircuitUse ==
    \/ Tick
    \/ \E k \in Keys, d \in Times : OpenCircuitUntil(k, d, now) \/ BeginCircuitProbe(k, d, now)
    \/ \E k \in Keys : MarkHealthy(k)

ProbeNext ==
    \/ CircuitUse /\ UNCHANGED probeVars
    \/ \E target \in Keys, ok \in BOOLEAN, at \in Times :
          \/ Record(target, ok, at)
          \/ \E tk \in tickets, retry \in {now, MaxTime} :
                CompleteProbe(tk, target, ok, retry, now, at)

-----------------------------------------------------------------------------
(* The metrics describe exactly the probes that counted: as many as were   *)
(* recorded or settled a Circuit, none for a stale ticket; and the success *)
(* average is perfect, or nil, exactly while every probe, or none,         *)
(* succeeded - the rounding neither hides a failure nor invents one.       *)
ProbeMetricsTruthful ==
    \A k \in Keys :
       /\ metrics[k].observations = observed[k].good + observed[k].bad
       /\ metrics[k].observations > 0 =>
            /\ (metrics[k].success = Scale) <=> (observed[k].bad = 0)
            /\ (metrics[k].success = 0) <=> (observed[k].good = 0)
=============================================================================
