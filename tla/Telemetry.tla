------------------------------- MODULE Telemetry -------------------------------
(***************************************************************************)
(* AeroAgent::start_health_monitoring (src/aero-agent/src/main.rs, lines   *)
(* 91-107): one task loops on a tokio interval of 30 s; each tick it sends *)
(* the health report, then the resource stats, awaiting each in turn.      *)
(*                                                                         *)
(* Time is counted in periods of 30 s.  `now` advances only while the task *)
(* is blocked: waiting for the next tick, or inside send_resource_stats,   *)
(* whose `nerdctl ps` and `nerdctl stats` calls (runtime_manager.rs,       *)
(* lines 300-359) have no timeout and may take any number of periods.      *)
(* The interval keeps tokio's default MissedTickBehavior::Burst: deadlines *)
(* stay at start + k periods, and ticks already due complete at once.      *)
(***************************************************************************)
EXTENDS Naturals

CONSTANTS
    MaxTime     \* periods observed

ASSUME MaxTime \in Nat \ {0}

VARIABLES
    now,        \* periods elapsed since the task started
    deadline,   \* when the interval's next tick is due
    pc,         \* "tick", "health" or "stats"
    rounds,     \* sampling rounds started (ticks completed)
    lastHealth  \* when the last health report was sent

vars == <<now, deadline, pc, rounds, lastHealth>>

TypeOK ==
    /\ now \in 0..MaxTime
    /\ deadline \in Nat
    /\ pc \in {"tick", "health", "stats"}
    /\ rounds \in Nat
    /\ lastHealth \in 0..MaxTime

-----------------------------------------------------------------------------

\* Lines 92-95: interval.tick().await completes once the deadline is due
\* (the first at once) and moves it one period on.
Tick ==
    /\ pc = "tick"
    /\ deadline <= now
    /\ deadline' = deadline + 1
    /\ rounds' = rounds + 1
    /\ pc' = "health"
    /\ UNCHANGED <<now, lastHealth>>

\* Lines 97-100: send_health_report; an error is logged.
HealthReport ==
    /\ pc = "health"
    /\ lastHealth' = now
    /\ pc' = "stats"
    /\ UNCHANGED <<now, deadline, rounds>>

\* Lines 102-105: send_resource_stats (list, then stats per container, then
\* publish) returns; an error is logged and the loop awaits the next tick.
ResourceStats ==
    /\ pc = "stats"
    /\ pc' = "tick"
    /\ UNCHANGED <<now, deadline, rounds, lastHealth>>

\* A period passes while the task waits for its tick or for nerdctl.
Clock ==
    /\ now < MaxTime
    /\ \/ pc = "tick" /\ now < deadline
       \/ pc = "stats"
    /\ now' = now + 1
    /\ UNCHANGED <<deadline, pc, rounds, lastHealth>>

-----------------------------------------------------------------------------

Init ==
    /\ now = 0
    /\ deadline = 0
    /\ pc = "tick"
    /\ rounds = 0
    /\ lastHealth = 0

Loop == Tick \/ HealthReport \/ ResourceStats

Next == Loop \/ Clock

\* The task is polled whenever its tick is due; time passes.  The stats
\* round gets no fairness: its nerdctl calls have no timeout.
Spec == Init /\ [][Next]_vars /\ WF_vars(Tick \/ HealthReport) /\ WF_vars(Clock)

-----------------------------------------------------------------------------
(* Properties *)

\* Spec 4.D: host health and resource stats are two periodic tasks.  A
\* health report goes out every period, whatever the resource-stats
\* sampler is waiting on.
HealthEveryPeriod ==
    now - lastHealth <= 1

=============================================================================
