----------------------------- MODULE Telemetry -----------------------------
(***************************************************************************)
(* The metrics system and the logger (logger/src/metrics.rs, logger.rs,     *)
(* init.rs; firecracker/src/metrics.rs).  A counter is incremented by any   *)
(* thread while one thread serializes it into the delta since the last      *)
(* flush and writes it out.  The logger is configured and initialized once, *)
(* by threads that race for it.                                             *)
(***************************************************************************)
EXTENDS Naturals, Integers, Sequences, FiniteSets

CONSTANTS Threads, Destinations, MaxIncs, MaxFlushes, MaxCalls

NoDest == "sink"

VARIABLES
  current, old,          \* the two members of a SharedIncMetric
  metrics_initialized,
  flush,                 \* where Metrics::write is: [at, snapshot, delta]
  reported, lost, flushes, missed,
  init_state, log_buf, calls,
  caller                 \* [Threads -> [at, finish, dest]]: where call_init is
mvars == <<current, old, metrics_initialized, flush, reported, lost, flushes, missed>>
lvars == <<init_state, log_buf, calls, caller>>
tmvars == <<mvars, lvars>>

-----------------------------------------------------------------------------
(* Metrics.                                                                *)

Idle == [at |-> "idle", snapshot |-> 0, delta |-> 0]

\* Any thread, at any moment.
inc == current < MaxIncs /\ current' = current + 1
       /\ UNCHANGED <<old, metrics_initialized, flush, reported, lost, flushes, missed, lvars>>

init_metrics ==
    /\ ~metrics_initialized /\ flush.at = "idle" /\ metrics_initialized' = TRUE
    /\ UNCHANGED <<current, old, flush, reported, lost, flushes, missed, lvars>>

\* write_metrics, from the periodic timer or the FlushMetrics action.  Metrics
\* that are not initialized are not serialized.
write_metrics ==
    /\ flush.at = "idle" /\ flushes < MaxFlushes /\ flushes' = flushes + 1
    /\ flush' = IF metrics_initialized THEN [Idle EXCEPT !.at = "load"] ELSE flush
    /\ UNCHANGED <<current, old, metrics_initialized, reported, lost, missed, lvars>>

\* SharedIncMetric::serialize
SerializeLoad ==
    /\ flush.at = "load"
    /\ flush' = [at |-> "store", snapshot |-> current, delta |-> current - old]
    /\ UNCHANGED <<current, old, metrics_initialized, reported, lost, flushes, missed, lvars>>

\* Mutant: the counter is read again.
stored_current == current
stored_snapshot == flush.snapshot

SerializeStore ==
    /\ flush.at = "store" /\ old' = stored_snapshot /\ flush' = [flush EXCEPT !.at = "write"]
    /\ UNCHANGED <<current, metrics_initialized, reported, lost, flushes, missed, lvars>>

WriteLine ==
    /\ flush.at = "write" /\ flush' = Idle
    /\ \/ reported' = reported + flush.delta /\ UNCHANGED <<lost, missed>>
       \/ lost' = lost + flush.delta /\ missed' = missed + 1 /\ UNCHANGED reported
    /\ UNCHANGED <<current, old, metrics_initialized, flushes, lvars>>

-----------------------------------------------------------------------------
(* The logger.                                                             *)

may_start(state) == state = "UNINITIALIZED"

\* configure does not finish the initialization, init does.
call_init(t) ==
    /\ caller[t].at = "idle" /\ calls < MaxCalls /\ calls' = calls + 1
    /\ IF may_start(init_state)
       THEN \E finish \in BOOLEAN, d \in Destinations :
              /\ init_state' = "INITIALIZING"
              /\ caller' = [caller EXCEPT ![t] = [at |-> "closure", finish |-> finish, dest |-> d]]
       ELSE UNCHANGED <<init_state, caller>>
    /\ UNCHANGED <<log_buf, mvars>>

Closure(t) ==
    /\ caller[t].at = "closure"
    /\ log_buf' = IF caller[t].finish THEN caller[t].dest ELSE log_buf
    /\ caller' = [caller EXCEPT ![t].at = "store"]
    /\ UNCHANGED <<init_state, calls, mvars>>

StoreState(t) ==
    /\ caller[t].at = "store"
    /\ init_state' = IF caller[t].finish THEN "INITIALIZED" ELSE "UNINITIALIZED"
    /\ caller' = [caller EXCEPT ![t].at = "idle"]
    /\ UNCHANGED <<log_buf, calls, mvars>>

TelemetryInit ==
    /\ current = 0 /\ old = 0 /\ metrics_initialized = FALSE /\ flush = Idle
    /\ reported = 0 /\ lost = 0 /\ flushes = 0 /\ missed = 0
    /\ init_state = "UNINITIALIZED" /\ log_buf = NoDest /\ calls = 0
    /\ caller = [t \in Threads |-> [at |-> "idle", finish |-> FALSE, dest |-> NoDest]]

TelemetryNext ==
    \/ inc \/ init_metrics \/ write_metrics \/ SerializeLoad \/ SerializeStore \/ WriteLine
    \/ \E t \in Threads : call_init(t) \/ Closure(t) \/ StoreState(t)

TelemetrySpec == TelemetryInit /\ [][TelemetryNext]_tmvars

-----------------------------------------------------------------------------
(* Properties.                                                             *)

\* Types of the logger and the metrics.
TelemetryTypeOK ==
    /\ current \in 0..MaxIncs /\ old \in 0..MaxIncs /\ flush.delta \in Nat
    /\ init_state \in {"UNINITIALIZED", "INITIALIZING", "INITIALIZED"} /\ log_buf \in Destinations \cup {NoDest}

\* The deltas written out, those that a failed write has lost, and what is still
\* to come add up to the increments, whatever the threads do meanwhile; and the
\* u64 subtraction of serialize never wraps.
FlushesAddUp ==
    /\ flush.delta >= 0
    /\ reported + lost = IF flush.at = "write" THEN old - flush.delta
                         ELSE IF flush.at = "store" THEN flush.snapshot - flush.delta ELSE old
=============================================================================
