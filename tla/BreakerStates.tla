-------------------------- MODULE BreakerStates ---------------------------
(***************************************************************************)
(* The state of csv-runtime's circuit breaker (runtime_mode.rs) and its    *)
(* operations, as operators on that state.                                 *)
(***************************************************************************)
EXTENDS Integers

CONSTANTS
    FailureThreshold,   \* config.failure_threshold
    SuccessThreshold,   \* config.success_threshold
    MaxFailures         \* bound on failure_count

ASSUME BreakerAssumption ==
    /\ FailureThreshold \in Nat \ {0} /\ SuccessThreshold \in Nat \ {0}
    /\ MaxFailures \in Nat /\ MaxFailures >= FailureThreshold

Breakers ==
    [state : {"Closed", "Open", "HalfOpen"}, failures : 0 .. MaxFailures,
     successes : 0 .. SuccessThreshold - 1, waited : BOOLEAN]

Fresh == [state |-> "Closed", failures |-> 0, successes |-> 0, waited |-> FALSE]

record_success(b) ==
    CASE b.state = "Closed" -> [b EXCEPT !.failures = 0]
      [] b.state = "HalfOpen" ->
            IF b.successes + 1 >= SuccessThreshold
            THEN [b EXCEPT !.state = "Closed", !.successes = 0, !.failures = 0]
            ELSE [b EXCEPT !.successes = @ + 1]
      [] b.state = "Open" -> b

CountFailure(n) == IF n < MaxFailures THEN n + 1 ELSE n

\* The mutation that forgets the failures when it opens the circuit.
OpensAndForgets(b) ==
    LET n == CountFailure(b.failures) IN
    [b EXCEPT !.failures = IF n >= FailureThreshold THEN 0 ELSE n, !.waited = FALSE,
              !.state = IF n >= FailureThreshold THEN "Open" ELSE @]

record_failure(b) ==
    LET n == CountFailure(b.failures) IN
    [b EXCEPT !.failures = n, !.waited = FALSE,
              !.state = IF n >= FailureThreshold THEN "Open" ELSE @]

allow_request(b) == b.state = "Open" => b.waited

CanRecover(b) == b.state = "Open" /\ b.waited

attempt_recovery(b) == [b EXCEPT !.state = "HalfOpen", !.successes = 0]
=============================================================================
