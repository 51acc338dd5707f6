----------------------------- MODULE CaptureLog ------------------------------
(***************************************************************************)
(* What Bronze promises the runtime (ADR-024 section 1 and amendment 3):   *)
(* the captures of a run are a history that only grows.  Entries are       *)
(* numbered 1, 2, 3, ... per scheduled instant, an entry never changes,    *)
(* and it appears only when the blob it points at is already stored.       *)
(***************************************************************************)
EXTENDS Naturals, Sequences

CONSTANTS
    Instants,   \* scheduled_for values of the target
    Payloads,   \* contents the source can serve
    Entry       \* capture-log entries

VARIABLES
    log,        \* the entries of each instant, in attempt order
    stored      \* payloads whose blob is in the hot store

logVars == <<log, stored>>

LogInit ==
    /\ log = [t \in Instants |-> << >>]
    /\ stored = {}

StoreBlob(p) ==
    /\ stored' = stored \cup {p}
    /\ UNCHANGED log

AppendEntry(t, e) ==
    /\ e.payload \in stored
    /\ e.attempt = Len(log[t]) + 1
    /\ log' = [log EXCEPT ![t] = Append(@, e)]
    /\ UNCHANGED stored

LogNext ==
    \/ \E p \in Payloads : StoreBlob(p)
    \/ \E t \in Instants, e \in Entry : AppendEntry(t, e)

LogSpec == LogInit /\ [][LogNext]_logVars
==============================================================================
