------------------------------- MODULE Retries -------------------------------
(***************************************************************************)
(* BackoffCalculator: when a persistent job that fails again and again is  *)
(* to be retried.  Ticks are scaled: MaxLong stands for Int64.MaxValue,    *)
(* MaxDelay for 30 minutes and UtcNow for the time since the year 1.  The  *)
(* jitter takes three values between -10% and +10%.                        *)
(***************************************************************************)
EXTENDS Integers

CONSTANTS
    BaseDelays,  \* values of RetryDelay in use: any TimeSpan
    MaxDelay,    \* _maxDelay
    MaxLong,     \* the largest long
    UtcNow,      \* DateTime.UtcNow
    MaxFailures, \* bound on the attempts of the job
    Throws       \* DateTime.UtcNow.Add throws: the date is before the year 1

ASSUME RetriesAssumption ==
    /\ MaxDelay \in Nat /\ MaxLong \in Nat /\ UtcNow \in Nat /\ MaxFailures \in Nat
    /\ BaseDelays \subseteq -MaxLong - 1 .. MaxLong
    /\ 11 * MaxDelay <= 10 * MaxLong /\ 10 * UtcNow < 9 * MaxLong
    /\ Throws \notin Int

VARIABLES
    retryDelay,  \* RetryDelay of the job
    attempts,    \* attempts made so far
    delay        \* from the last failure to NextRetryAtUtc

retries == <<retryDelay, attempts, delay>>

InitRetries ==
    /\ retryDelay \in BaseDelays
    /\ attempts = 0 /\ delay = 0

Exponential(n, base) == base * 2 ^ (n - 1)

\* The cast of a double to long.  Out of range, .NET 6 yields Int64.MinValue
\* on x64 and the nearest long on ARM64.
Cast(x) ==
    CASE x \in -MaxLong - 1 .. MaxLong -> {x}
      [] x > MaxLong                   -> {-MaxLong - 1, MaxLong}
      [] x < -MaxLong - 1              -> {-MaxLong - 1}

\* A tenth, rounded towards zero.
Tenth(x) == IF x >= 0 THEN x \div 10 ELSE -((-x) \div 10)

\* Mutant: the delay is capped before it is multiplied.
CappedTwice(d) == IF d > MaxDelay THEN 2 * MaxDelay ELSE d

Capped(d) == IF d > MaxDelay THEN MaxDelay ELSE d

\* The jitter is between -10% and +10%.
CalculateDelay(n, base) ==
    IF n <= 0 THEN {base}
    ELSE UNION {Cast(Tenth(Capped(d) * j)) : d \in Cast(Exponential(n, base)), j \in 9 .. 11}

\* CalculateNextRetry, relative to UtcNow.
CalculateNextRetry(n, base) ==
    {IF d < -UtcNow THEN Throws ELSE d : d \in CalculateDelay(n, base)}

\* The job fails once more and attempts remain.
JobFails ==
    /\ attempts < MaxFailures
    /\ attempts' = attempts + 1
    /\ delay' \in CalculateNextRetry(attempts', retryDelay)
    /\ UNCHANGED retryDelay

-----------------------------------------------------------------------------
\* BackoffCalculator.cs: "exponential backoff with jitter", "Cap at maximum
\* delay".  The delay is within 10% of base * 2^(attempts - 1) or, if that is
\* larger, of the maximum delay.  There is no next retry at all, and
\* FailJobAsync throws, only if the power exceeds a long or, for a negative
\* base delay, the time since the year 1.
BackoffBounded ==
    attempts > 0 =>
        LET power == Exponential(attempts, retryDelay)
            goal == IF power < MaxDelay THEN power ELSE MaxDelay
        IN
        /\ delay = Throws => power > MaxLong \/ 11 * power < -10 * UtcNow
        /\ (delay # Throws /\ goal >= 0) =>
               10 * delay <= 11 * goal /\ 10 * delay > 9 * goal - 10
        /\ (delay # Throws /\ goal < 0) =>
               10 * delay >= 11 * goal /\ 10 * delay < 9 * goal + 10
=============================================================================
