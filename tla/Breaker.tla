-------------------------------- MODULE Breaker --------------------------------
(***************************************************************************)
(* internal/transport, the circuit breaker: what each call makes of its    *)
(* record.  One socket loop calls it (Socket.tla).                         *)
(*                                                                         *)
(* The time it opened is kept as an age, which stops counting at           *)
(* OpenDuration; failures stops at the threshold it is compared with.      *)
(***************************************************************************)
EXTENDS Integers

CONSTANTS ConsecutiveFailures, OpenDuration

ASSUME BreakerAssumption == ConsecutiveFailures \in Nat /\ OpenDuration \in Nat

UpTo(limit, n) == IF n < limit THEN n ELSE limit

\* openedAt is the zero time.Time when opened is FALSE.
NewBreaker == [failures |-> 0, opened |-> FALSE, age |-> 0, probing |-> FALSE]

enabled == ConsecutiveFailures >= 1 /\ OpenDuration > 0

\* Open: attempts are refused.  Retry answers a wait exactly then.
Open(breaker) == breaker.opened /\ breaker.age < OpenDuration

\* Retry, when it answers 0: the attempt after the open period is the probe.
Retry(breaker) ==
    IF breaker.opened
    THEN [breaker EXCEPT !.opened = FALSE, !.age = 0, !.probing = TRUE]
    ELSE breaker

\* Mutant: the threshold is off by one, and the probe is not looked at.
FailTooLate(breaker) ==
    IF enabled /\ breaker.failures + 1 > ConsecutiveFailures
    THEN [failures |-> ConsecutiveFailures, opened |-> TRUE, age |-> 0, probing |-> FALSE]
    ELSE [breaker EXCEPT !.failures = @ + 1]

Fail(breaker) ==
    LET failures == UpTo(ConsecutiveFailures, breaker.failures + 1)
    IN  IF enabled /\ (breaker.probing \/ failures >= ConsecutiveFailures)
        THEN [failures |-> failures, opened |-> TRUE, age |-> 0, probing |-> FALSE]
        ELSE [breaker EXCEPT !.failures = failures]

Succeed(breaker) == NewBreaker

\* A tick of the clock.
Older(breaker) ==
    IF breaker.opened THEN [breaker EXCEPT !.age = UpTo(OpenDuration, @ + 1)] ELSE breaker

=============================================================================
