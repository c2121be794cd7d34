--------------------------- MODULE CircuitBreaker ---------------------------
(***************************************************************************)
(* One breaker of src/app/resilience/circuit_breaker.py: consecutive       *)
(* failures, and the time since it opened (Never while it is closed).      *)
(***************************************************************************)
EXTENDS Integers

CONSTANTS Threshold, \* failures in a row that open it (threshold), at least one
          Cooldown   \* how long it stays open (cooldown_s)

Never == -1

Breakers == [failures : 0..Threshold, opened : {Never} \cup (0..Cooldown)]

Fresh == [failures |-> 0, opened |-> Never]

IsOpen(b) == b.opened # Never /\ b.opened < Cooldown

\* Mutant of Read: the cooldown does not close the breaker.
ReadStuck(b) == IF b.opened # Never THEN [b EXCEPT !.opened = 0] ELSE b

\* The breaker after is_open looked at it: past its cooldown it is closed,
\* and its count starts again.
Read(b) == IF b.opened # Never /\ ~IsOpen(b) THEN Fresh ELSE b

RecordSuccess(b) == Fresh

\* The count is capped at the threshold: beyond it only its being reached
\* matters.
RecordFailure(b) ==
    LET n == IF b.failures < Threshold THEN b.failures + 1 ELSE Threshold
    IN  [failures |-> n,
         opened |-> IF n >= Threshold /\ b.opened = Never THEN 0 ELSE b.opened]

OlderBreaker(b) ==
    IF IsOpen(b) THEN [b EXCEPT !.opened = b.opened + 1] ELSE b
=============================================================================
