----------------------------- MODULE RungHealth -----------------------------
(***************************************************************************)
(* The health registry and circuit breaker of router/health.py, with the   *)
(* requests that read and feed it.  Requests of many sessions are in       *)
(* flight at once, so answers come late and in any order.                  *)
(*                                                                         *)
(* Time is a countdown per rung: remaining is retry_after minus the clock. *)
(* A failure count above the threshold tells nothing more, so it stops     *)
(* there.                                                                  *)
(***************************************************************************)
EXTENDS Integers

CONSTANTS
    Models,             \* the rungs of the registry
    FailureThreshold,   \* consecutive failures that open the circuit
    Cooldown,           \* ticks an open circuit waits
    MaxInFlight         \* bound: requests of one rung awaiting their answer

ASSUME ThresholdAssumption == FailureThreshold \in Nat \ {0}
ASSUME CooldownAssumption  == Cooldown \in Nat
ASSUME FlightAssumption    == MaxInFlight \in Nat \ {0}

VARIABLES
    state,      \* [Models -> [healthy, failures, remaining]]
    inflight,   \* [Models -> 0..MaxInFlight]
    streak,     \* history: failures since the last success, up to the threshold
    calm        \* history: ticks since the last failure, up to the cooldown

vars == <<state, inflight, streak, calm>>

Capped(n, limit) == IF n > limit THEN limit ELSE n

HealthState == [healthy: BOOLEAN, failures: 0..FailureThreshold, remaining: 0..Cooldown]
Closed == [healthy |-> TRUE, failures |-> 0, remaining |-> 0]

-----------------------------------------------------------------------------

RecordSuccess(x) == Closed

RecordFailure(x) ==
    LET failures == Capped(x.failures + 1, FailureThreshold)
        open     == failures = FailureThreshold
    IN  [healthy |-> ~open, failures |-> failures,
         remaining |-> IF open THEN Cooldown ELSE 0]

(* Mutants: a half-open circuit that forgets its failures; a cooldown that *)
(* is never quite over.                                                    *)
EffectiveForgets(x) == IF ~x.healthy /\ x.remaining <= 0 THEN Closed ELSE x
EffectiveStrict(x) ==
    IF ~x.healthy /\ x.remaining < 0 THEN [x EXCEPT !.healthy = TRUE] ELSE x

(* A cooled-down circuit reads as healthy and keeps its failure count:     *)
(* half-open.                                                              *)
Effective(x) ==
    IF ~x.healthy /\ x.remaining <= 0 THEN [x EXCEPT !.healthy = TRUE] ELSE x

-----------------------------------------------------------------------------
(* A user turn reads the whole registry, which may half-open any circuit,  *)
(* and may be sent to a rung it found healthy.                             *)

Read == [m \in Models |-> Effective(state[m])]

Snapshot ==
    /\ state' = Read
    /\ UNCHANGED <<inflight, streak, calm>>

Admit(m) ==
    /\ inflight[m] < MaxInFlight
    /\ Read[m].healthy
    /\ state' = Read
    /\ inflight' = [inflight EXCEPT ![m] = @ + 1]
    /\ UNCHANGED <<streak, calm>>

(* Continuations and housekeeping go to their rung without reading it.     *)
Bypass(m) ==
    /\ inflight[m] < MaxInFlight
    /\ inflight' = [inflight EXCEPT ![m] = @ + 1]
    /\ UNCHANGED <<state, streak, calm>>

Succeed(m) ==
    /\ inflight[m] > 0
    /\ inflight' = [inflight EXCEPT ![m] = @ - 1]
    /\ state' = [state EXCEPT ![m] = RecordSuccess(@)]
    /\ streak' = [streak EXCEPT ![m] = 0]
    /\ UNCHANGED calm

Fail(m) ==
    /\ inflight[m] > 0
    /\ inflight' = [inflight EXCEPT ![m] = @ - 1]
    /\ state' = [state EXCEPT ![m] = RecordFailure(@)]
    /\ streak' = [streak EXCEPT ![m] = Capped(@ + 1, FailureThreshold)]
    /\ calm' = [calm EXCEPT ![m] = 0]

Tick ==
    /\ state' = [m \in Models |->
                   [state[m] EXCEPT !.remaining = IF @ > 0 THEN @ - 1 ELSE 0]]
    /\ calm' = [m \in Models |-> Capped(calm[m] + 1, Cooldown)]
    /\ UNCHANGED <<inflight, streak>>

Init ==
    /\ state = [m \in Models |-> Closed]
    /\ inflight = [m \in Models |-> 0]
    /\ streak = [m \in Models |-> 0]
    /\ calm = [m \in Models |-> Cooldown]

Next ==
    \/ \E m \in Models : Admit(m) \/ Bypass(m) \/ Succeed(m) \/ Fail(m)
    \/ Snapshot
    \/ Tick

Spec == Init /\ [][Next]_vars

(* The clock runs; no request has to be answered and nobody has to ask.    *)
FairSpec == Spec /\ WF_vars(Tick)

-----------------------------------------------------------------------------

TypeOK ==
    /\ state \in [Models -> HealthState]
    /\ inflight \in [Models -> 0..MaxInFlight]
    /\ streak \in [Models -> 0..FailureThreshold]
    /\ calm \in [Models -> 0..Cooldown]

(* A rung that failed FailureThreshold times in a row is offered to a user *)
(* turn only after a full cooldown without a failure, counted from the     *)
(* last failure however late it came: a failed half-open probe costs a     *)
(* fresh cooldown, not a fresh run of failures.                            *)
CooldownHonoured ==
    \A m \in Models :
        Read[m].healthy /\ streak[m] = FailureThreshold => calm[m] = Cooldown

(* An open rung does not stay open: unless it keeps failing the requests   *)
(* that bypass the registry or were already in flight, each failure        *)
(* restarting the cooldown, user turns are offered it again.               *)
OfferedAgain ==
    \A m \in Models : <>[](calm[m] > 0) => []<>Read[m].healthy
=============================================================================
