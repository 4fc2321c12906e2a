----------------------------- MODULE CatalogDiff -----------------------------
(***************************************************************************)
(* One target of CatalogSnapshotStore and CatalogDiffRegistry              *)
(* (crates/gateway-catalog/src/lib.rs).  Workers record successful         *)
(* discoveries, preview what a snapshot changes and apply the preview;     *)
(* each of the three takes its own lock, so the steps of two workers       *)
(* interleave.  A model stays retained while it is only suspected removed. *)
(***************************************************************************)
EXTENDS Naturals, Sequences, FiniteSetsExt

CONSTANTS
    Models,
    Workers,
    MinMisses,    \* MIN_CATALOG_SUCCESSFUL_MISSES_FOR_REMOVAL
    Isolation,    \* MIN_CATALOG_REMOVAL_ISOLATION_MS
    MaxInstant,   \* bound on observation times
    MaxVersion    \* bound on the snapshots of one behaviour

VARIABLES
    store,    \* the target's last success
    applied,  \* the target's CatalogDiffTargetState
    hand,     \* worker -> the snapshot and the preview it works on
    history   \* the applied snapshots, in the order of their application

diffVars == <<store, applied, hand, history>>

NoSnapshot == [version |-> 0, observed |-> 0, models |-> {}]

\* A state and a preview with the same shape; misses = 0 is ListedNow.
NoState == [generation |-> 0, version |-> 0, observed |-> 0, models |-> <<>>]

DiffInit ==
    /\ store = NoSnapshot
    /\ applied = NoState
    /\ hand = [w \in Workers |-> [snapshot |-> NoSnapshot, preview |-> NoState]]
    /\ history = <<>>

HoldingCatalog(w, snapshot) ==
    hand' = [hand EXCEPT ![w] = [snapshot |-> snapshot, preview |-> NoState]]

\* An earlier observation time is refused and leaves the last success as it is.
RecordSuccess(w, models, observed) ==
    /\ store.version < MaxVersion
    /\ observed >= store.observed
    /\ store' = [version |-> store.version + 1, observed |-> observed, models |-> models]
    /\ HoldingCatalog(w, store')
    /\ UNCHANGED <<applied, history>>

RetainLastSuccessOnFailure(w) ==
    /\ store # NoSnapshot
    /\ HoldingCatalog(w, store)
    /\ UNCHANGED <<store, applied, history>>

ListedNow == [misses |-> 0, since |-> 0, eligible |-> 0]

\* A model that the snapshot at time now omits.
Missed(state, now) ==
    IF state = ListedNow
    THEN [misses |-> 1, since |-> now, eligible |-> now + Isolation]
    ELSE [state EXCEPT !.misses = @ + 1]

Removable(state, now) == state.misses >= MinMisses /\ now >= state.eligible

\* A model is only removed by a miss that follows another miss.
BuildCatalogDiff(known, snapshot) ==
    LET After(m) == IF m \in snapshot.models THEN ListedNow
                    ELSE Missed(known[m], snapshot.observed)
        gone == {m \in DOMAIN known \ snapshot.models :
                    known[m] # ListedNow /\ Removable(After(m), snapshot.observed)}
    IN  [m \in (DOMAIN known \union snapshot.models) \ gone |-> After(m)]

ValidateDiffSnapshot(snapshot) ==
    applied # NoState =>
        /\ snapshot.version > applied.version
        /\ snapshot.observed >= applied.observed

\* A snapshot that does not validate leaves the worker with an error and no preview.
PreviewDiff(w) ==
    LET snapshot == hand[w].snapshot IN
    /\ snapshot # NoSnapshot
    /\ hand[w].preview = NoState
    /\ \/ /\ ValidateDiffSnapshot(snapshot)
          /\ hand' = [hand EXCEPT ![w].preview =
                        [generation |-> applied.generation,
                         version |-> snapshot.version,
                         observed |-> snapshot.observed,
                         models |-> BuildCatalogDiff(applied.models, snapshot)]]
       \/ ~ValidateDiffSnapshot(snapshot) /\ HoldingCatalog(w, NoSnapshot)
    /\ UNCHANGED <<store, applied, history>>

\* Fault: apply only compares snapshot versions.
IsStaleByVersion(preview) == preview.version <= applied.version

IsStale(preview) == preview.generation # applied.generation

\* StalePreview consumes the preview; the worker keeps its snapshot and may preview again.
ApplyDiff(w) ==
    LET preview == hand[w].preview IN
    /\ preview # NoState
    /\ \/ /\ ~IsStale(preview)
          /\ applied' = [preview EXCEPT !.generation = @ + 1]
          /\ history' = Append(history, hand[w].snapshot)
          /\ HoldingCatalog(w, NoSnapshot)
       \/ /\ IsStale(preview)
          /\ HoldingCatalog(w, hand[w].snapshot)
          /\ UNCHANGED <<applied, history>>
    /\ UNCHANGED store

DiffNext ==
    \E w \in Workers :
        \/ \E models \in SUBSET Models, observed \in 0 .. MaxInstant :
               RecordSuccess(w, models, observed)
        \/ RetainLastSuccessOnFailure(w)
        \/ PreviewDiff(w)
        \/ ApplyDiff(w)

DiffSpec == DiffInit /\ [][DiffNext]_diffVars

-----------------------------------------------------------------------------
\* The applied snapshots that list model m.
Sightings(m) == {i \in DOMAIN history : m \in history[i].models}

\* What a reader of the applied snapshots concludes about model m.
Concluded(m) ==
    LET last == Max(Sightings(m))
        misses == Len(history) - last
    IN  IF misses = 0 THEN ListedNow
        ELSE [misses |-> misses,
              since |-> history[last + 1].observed,
              eligible |-> history[last + 1].observed + Isolation]

(* However the workers interleave, the retained models are those that the  *)
(* applied snapshots justify: a model is kept from its last sighting until *)
(* MinMisses successes in a row omitted it and the isolation time is over, *)
(* with its miss count and its deadline, and no snapshot is applied twice  *)
(* or after a newer one.  Two previews of the same state cannot both land. *)
RetainedMatchesHistory ==
    /\ \A i \in 1 .. Len(history) - 1 : history[i].version < history[i + 1].version
    /\ DOMAIN applied.models =
          {m \in Models : /\ Sightings(m) # {}
                          /\ \/ Concluded(m).misses < MinMisses
                             \/ applied.observed < Concluded(m).eligible}
    /\ \A m \in DOMAIN applied.models : applied.models[m] = Concluded(m)
=============================================================================
