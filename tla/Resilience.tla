----------------------------- MODULE Resilience -----------------------------
(***************************************************************************)
(* The resilience layer's decisions (cuma-core error.rs, cuma-resilience   *)
(* breaker.rs and retry.rs): which failures count against an agent, the    *)
(* circuit breaker and the retry policy.                                   *)
(*                                                                         *)
(* A breaker keeps the instant it opened and compares it with now.  Here   *)
(* `age' is the time since it opened, counted up to the cooldown; it is    *)
(* read in state Open only and kept at 0 elsewhere.  `failures' is counted *)
(* up to the threshold, beyond which nothing depends on it.                *)
(***************************************************************************)
EXTENDS Naturals

CONSTANTS FailureThreshold, SuccessThreshold, Cooldown,  \* BreakerConfig
          MaxAttempts, MaxAttemptsPerTarget              \* RetryPolicy

ASSUME BreakerConfigAssumption ==
  /\ FailureThreshold \in Nat \ {0}
  /\ SuccessThreshold \in Nat \ {0}
  /\ Cooldown \in Nat
ASSUME RetryPolicyAssumption ==
  MaxAttempts \in Nat \ {0} /\ MaxAttemptsPerTarget \in Nat \ {0}

ErrorClass ==
  {"RateLimit", "QuotaExceeded", "AuthenticationFailure", "AgentCrash",
   "Timeout", "ProtocolError", "ContextOverflow", "ToolFailure",
   "ModelUnavailable", "ConnectionFailure", "InvalidResponse", "TaskFailure",
   "SecurityViolation", "Configuration", "Cancelled", "Unknown"}

RetryableOnSameTarget == {"RateLimit", "Timeout", "ConnectionFailure", "Unknown"}

Reroutable ==
  {"RateLimit", "QuotaExceeded", "AgentCrash", "Timeout", "ProtocolError",
   "ModelUnavailable", "ConnectionFailure", "InvalidResponse", "ToolFailure",
   "Unknown"}

CountsAgainstHealth ==
  ErrorClass \ {"Cancelled", "Configuration", "SecurityViolation",
                "ContextOverflow"}

RequiresReplan == {"ContextOverflow", "TaskFailure"}

-----------------------------------------------------------------------------
(* The circuit breaker.                                                    *)

BreakerState == {"Closed", "Open", "HalfOpen"}

FailureCount == 0..FailureThreshold
SuccessCount == 0..SuccessThreshold
Age          == 0..Cooldown

Breaker == [state : BreakerState, failures : FailureCount,
            successes : SuccessCount, age : Age]

NewBreaker == [state |-> "Closed", failures |-> 0, successes |-> 0, age |-> 0]

Capped(n, bound) == IF n < bound THEN n ELSE bound

\* A breaker whose cooldown nobody looks at.
StateAtStuck(br) == br

\* A breaker whose cooldown starts over whenever it is asked.
StateAtRestarting(br) ==
  IF br.state # "Open" THEN br
  ELSE IF br.age = Cooldown
       THEN [br EXCEPT !.state = "HalfOpen", !.successes = 0, !.age = 0]
       ELSE [br EXCEPT !.age = 0]

\* The breaker as of now: an open one whose cooldown has elapsed is half open.
StateAt(br) ==
  IF br.state = "Open" /\ br.age = Cooldown
  THEN [br EXCEPT !.state = "HalfOpen", !.successes = 0, !.age = 0]
  ELSE br

AllowsRequest(br) == StateAt(br).state # "Open"

\* A success that never closes a half open breaker.
RecordSuccessOnly(br) ==
  CASE br.state = "Closed"   -> [br EXCEPT !.failures = 0]
    [] br.state = "Open"     -> [br EXCEPT !.failures = 0, !.state = "HalfOpen",
                                           !.successes = 1, !.age = 0]
    [] br.state = "HalfOpen" -> [br EXCEPT !.failures = 0, !.successes = @ + 1]

RecordSuccess(br) ==
  LET ok == [br EXCEPT !.failures = 0]
  IN  CASE br.state = "Closed"   -> ok
        [] br.state = "Open"     -> [ok EXCEPT !.state = "HalfOpen",
                                               !.successes = 1, !.age = 0]
        [] br.state = "HalfOpen" ->
             IF br.successes + 1 >= SuccessThreshold
             THEN [ok EXCEPT !.state = "Closed", !.successes = 0]
             ELSE [ok EXCEPT !.successes = @ + 1]

\* A failure that is charged whatever its class.
RecordAnyFailure(br, class) ==
  LET bad == [br EXCEPT !.failures = Capped(@ + 1, FailureThreshold),
                        !.successes = 0]
  IN  IF br.state = "Closed" /\ br.failures + 1 < FailureThreshold
      THEN bad
      ELSE [bad EXCEPT !.state = "Open", !.age = 0]

\* A counted failure opens a closed breaker at the threshold, re-opens a half
\* open one, and restarts the cooldown of an open one.
RecordFailure(br, class) ==
  IF class \in CountsAgainstHealth THEN RecordAnyFailure(br, class) ELSE br

\* Time passes.
Older(br) ==
  IF br.state = "Open" THEN [br EXCEPT !.age = Capped(@ + 1, Cooldown)] ELSE br

Health == {"Unknown", "Healthy", "Degraded", "Unavailable"}

IsRoutable(h) == h # "Unavailable"

ToHealth(state) ==
  CASE state = "Closed"   -> "Healthy"
    [] state = "Open"     -> "Unavailable"
    [] state = "HalfOpen" -> "Degraded"

-----------------------------------------------------------------------------
(* RetryPolicy::decide.                                                    *)

\* decide with the budget looked at only where a retry is scheduled.
DecideBudgetLast(class, attempts, onTarget, alternatives) ==
  IF class \in {"Cancelled", "AuthenticationFailure", "SecurityViolation", "Configuration"}
  THEN "GiveUp"
  ELSE IF class \in RequiresReplan THEN "Replan"
  ELSE IF class \in RetryableOnSameTarget /\ onTarget < MaxAttemptsPerTarget
  THEN "RetrySameTarget"
  ELSE IF class \in Reroutable /\ alternatives THEN "Reroute" ELSE "GiveUp"

Decide(class, attempts, onTarget, alternatives) ==
  IF attempts >= MaxAttempts THEN "GiveUp"
  ELSE DecideBudgetLast(class, attempts, onTarget, alternatives)
=============================================================================
