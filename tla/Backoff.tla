------------------------------ MODULE Backoff ------------------------------
(***************************************************************************)
(* How long runWithRetry sleeps between attempts, in the arithmetic of     *)
(* time.Duration, and which retry policies config.validate lets through.   *)
(* A multiplier is a fraction num/den; the rounding of float64 is left     *)
(* out, its conversion back to an integer is not.                          *)
(***************************************************************************)
EXTENDS Integers

CONSTANTS
    MaxDuration,    \* the longest time.Duration
    Saturates       \* does the build convert a float out of range to the nearest?

ASSUME MaxDurationAssumption == MaxDuration \in Nat \ {0}
\* Go leaves the conversion to the build: arm64 saturates, amd64 yields the
\* most negative value.
ASSUME SaturatesAssumption == Saturates \in BOOLEAN

MinDuration == -MaxDuration - 1

\* What the environment can ask for.
RetryPolicy ==
    [initialWait : MinDuration..MaxDuration,
     multiplier  : [num : Int, den : Nat \ {0}],
     maxWait     : MinDuration..MaxDuration]

\* The checks of validate on a policy.
Valid(p) ==
    /\ p.initialWait > 0
    /\ p.multiplier.num >= p.multiplier.den
    /\ p.maxWait > 0

\* time.Duration(float64(wait) * multiplier)
Scale(wait, m) ==
    LET exact == (wait * m.num) \div m.den
    IN IF exact \in MinDuration..MaxDuration THEN exact
       ELSE IF Saturates /\ exact > 0 THEN MaxDuration ELSE MinDuration

\* Faulty: the ceiling is compared with the wait before it is scaled.
NextWaitLate(wait, p) ==
    IF wait > p.maxWait THEN p.maxWait ELSE Scale(wait, p.multiplier)

NextWait(wait, p) ==
    LET scaled == Scale(wait, p.multiplier)
    IN IF scaled > p.maxWait THEN p.maxWait ELSE scaled

\* The sleep after each of the first n attempts.
Waits(p, n) ==
    LET wait[k \in 1..n] == IF k = 1 THEN p.initialWait ELSE NextWait(wait[k - 1], p)
    IN wait

-----------------------------------------------------------------------------
\* No product of the loop leaves the range of a duration.
Fits(p) ==
    /\ p.initialWait * p.multiplier.num <= MaxDuration * p.multiplier.den
    /\ p.maxWait * p.multiplier.num <= MaxDuration * p.multiplier.den

\* Sleeps from the second on never exceed the ceiling, whatever overflows; and
\* while nothing overflows every sleep is positive and, once below the ceiling,
\* no shorter than the one before.
Bounded(p, n) ==
    LET wait == Waits(p, n)
    IN \A k \in 2..n :
          /\ wait[k] <= p.maxWait
          /\ Fits(p) => wait[k] > 0
          /\ Fits(p) /\ wait[1] <= p.maxWait => wait[k] >= wait[k - 1]

\* With a whole multiplier, the closed form: the initial wait times a power of the
\* multiplier, cut off at the ceiling.
Powers(m, n) ==
    LET power[k \in 0..n] == IF k = 0 THEN 1 ELSE m * power[k - 1]
    IN power

Exponential(p, n) ==
    Fits(p) /\ p.multiplier.den = 1 =>
        LET wait == Waits(p, n)
            exact(k) == p.initialWait * Powers(p.multiplier.num, n)[k - 1]
        IN \A k \in 2..n :
              wait[k] = IF exact(k) > p.maxWait THEN p.maxWait ELSE exact(k)

=============================================================================
