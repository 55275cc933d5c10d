----------------------------- MODULE Telemetry -----------------------------
(***************************************************************************)
(* The rate of CPU use the sampler records for one sandbox (telemetry.py): *)
(* a pass reads the cumulative counter of the container and divides what   *)
(* it has grown by the time between two passes.  Containers restart and    *)
(* start again at 0, probes are slow, and probes fail.                     *)
(***************************************************************************)
EXTENDS Integers

CONSTANTS
  Cores,       \* cores of the container: how much the counter grows at most in one unit of time
  MaxTime      \* bound: units of time

ASSUME TelemetryAssumption == Cores \in Nat /\ MaxTime \in Nat

VARIABLES
  now,         \* the clock
  counter,     \* cpu.stat usage_usec of the container (external)
  pass,        \* whether the sampler waits or is in a pass
  last,        \* when the last pass began
  elapsed,     \* what this pass takes for the time since the last reading
  last_usec,   \* _last_usec: the last reading, if any
  delay,       \* history: how long after its pass had begun that was read
  missed,      \* history: whether a probe has failed since
  sample       \* the last rate recorded, as its growth and the time it is divided by, and
               \* whether a probe before it failed or it was read later in its pass

telemetryVars == <<now, counter, pass, last, elapsed, last_usec, delay, missed, sample>>

NoReading   == -1
NoRate == [delta |-> 0, elapsed |-> 0, missed |-> FALSE, late |-> FALSE]

-----------------------------------------------------------------------------
(* There is no rate on a first reading, for no time, or if the counter went back. *)
compute_cpu_cores(previous, current, seconds) ==
  IF previous = NoReading \/ seconds <= 0 \/ current < previous THEN NoRate
  ELSE [delta |-> current - previous, elapsed |-> seconds, missed |-> missed,
        late |-> now - last > delay]

TimePasses ==
  /\ now < MaxTime /\ now' = now + 1
  /\ \E used \in 0..Cores : counter' = counter + used
  /\ UNCHANGED <<pass, last, elapsed, last_usec, delay, missed, sample>>

ContainerRestarts ==
  /\ counter > 0 /\ counter' = 0
  /\ UNCHANGED <<now, pass, last, elapsed, last_usec, delay, missed, sample>>

(* Mutant of _loop: the interval is taken for the time that has passed.      *)
_loop_interval ==
  /\ pass = "waiting" /\ pass' = "probing"
  /\ elapsed' = IF now > last THEN 1 ELSE 0
  /\ last' = now
  /\ UNCHANGED <<now, counter, last_usec, delay, missed, sample>>

(* _loop measures the time when it begins a pass, before it lists and probes. *)
_loop ==
  /\ pass = "waiting" /\ pass' = "probing"
  /\ elapsed' = now - last /\ last' = now
  /\ UNCHANGED <<now, counter, last_usec, delay, missed, sample>>

(* sample_once: a failed probe records no rate and keeps the last reading.  *)
sample_once ==
  /\ pass = "probing" /\ pass' = "waiting"
  /\ \/ /\ sample' = compute_cpu_cores(last_usec, counter, elapsed)
        /\ last_usec' = counter /\ delay' = now - last
        /\ missed' = FALSE
     \/ /\ sample' = NoRate
        /\ missed' = TRUE
        /\ UNCHANGED <<last_usec, delay>>
  /\ UNCHANGED <<now, counter, last, elapsed>>

TelemetryInit ==
  /\ now = 0 /\ counter = 0 /\ pass = "waiting" /\ last = 0 /\ elapsed = 0
  /\ last_usec = NoReading /\ delay = 0 /\ missed = FALSE /\ sample = NoRate

TelemetryNext == TimePasses \/ ContainerRestarts \/ _loop \/ sample_once
TelemetrySpec == TelemetryInit /\ [][TelemetryNext]_telemetryVars

-----------------------------------------------------------------------------
TelemetryTypeOK ==
  /\ now \in 0..MaxTime /\ last \in 0..now /\ elapsed \in 0..last /\ delay \in 0..MaxTime
  /\ counter \in Nat /\ last_usec \in Nat \cup {NoReading}
  /\ pass \in {"waiting", "probing"} /\ missed \in BOOLEAN
  /\ sample \in [delta : Nat, elapsed : 0..MaxTime, missed : BOOLEAN, late : BOOLEAN]

(* A recorded rate, delta / elapsed, is between 0 and the cores of the        *)
(* container, whatever restarts -- unless the probe of the pass before failed *)
(* or this reading came later in its pass than the last one did in its own:   *)
(* then elapsed is not the "Wall-clock time between the two"                  *)
(* (compute_cpu_cores) and the rate has no bound.                             *)
RateIsReal ==
  /\ sample.delta >= 0
  /\ sample.delta <= Cores * sample.elapsed \/ sample.missed \/ sample.late
=============================================================================
