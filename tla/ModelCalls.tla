----------------------------- MODULE ModelCalls -----------------------------
(***************************************************************************)
(* The two retry loops of the program: models/retry.py, whose attempts     *)
(* return a classified failure (models/provider_errors.py) and which       *)
(* returns the last one, and reliability/retry.py, whose attempts raise    *)
(* and which raises in turn.  A behaviour is one run of one loop.          *)
(*                                                                         *)
(* Time is counted in units; an attempt takes any time and a sleep may     *)
(* last longer than it was asked to.                                       *)
(***************************************************************************)
EXTENDS Integers

CONSTANTS MaxAttempts, MaxElapsed, MaxDelay, MaxClock

ASSUME CallAssumption ==
    /\ MaxAttempts \in Nat \ {0} /\ MaxElapsed \in Nat \ {0}
    /\ MaxDelay \in Nat \ {0} /\ MaxClock \in Nat \ {0}

VARIABLES
    loop,         \* Which of the two loops runs.
    clock,        \* Time of its clock.
    call,         \* The run: its stage, its attempt, its start and its sleep.
    attempts      \* The attempts that were started (history): number, time of the
                  \* loop, and the time before which the last failure forbade it.

callVars == <<loop, clock, call, attempts>>

-----------------------------------------------------------------------------
\* What an attempt may end with.

NoRetryAfter == -1

\* A provider's answer that is an error. The header may be there and not be a number.
Answers ==
    [provider : {"openai", "anthropic"},
     status : {400, 401, 402, 429, 500, 503, 529},
     header : {"absent", "unreadable", "seconds"}, message : {"quota", "rate limit", "other"}]

ClassifyProviderFailure(a) ==
    CASE a.status = 401 -> "bad_key"
      [] a.status = 400 -> "bad_request"
      [] a.status \in {503, 529} -> "provider_overloaded"
      [] a.provider = "anthropic" /\ a.status = 402 -> "out_of_tokens"
      [] a.provider = "anthropic" /\ a.status = 429 ->
             IF a.header # "absent" THEN "retryable_rate_limit" ELSE "out_of_tokens"
      [] a.provider = "openai" /\ a.status = 429 /\ a.message = "quota" -> "out_of_tokens"
      [] a.provider = "openai" /\ a.status = 429 /\ a.message = "rate limit" ->
             "retryable_rate_limit"
      [] OTHER -> "unknown"

\* The seconds of a header, never negative.
RetryAfterSeconds(header) == IF header = "seconds" THEN 0..MaxElapsed ELSE {NoRetryAfter}

ProviderFailures ==
    UNION {[kind : {ClassifyProviderFailure(a)}, retryAfter : RetryAfterSeconds(a.header)] :
               a \in Answers}

\* The errors of the other loop: a dropped connection or anything else.
Errors ==
    [kind : {"interruption", "other"}, retryAfter : {NoRetryAfter} \union (0..MaxElapsed)]

IsRetryable(kind) == kind = "retryable_rate_limit"

\* The one predicate the program has for the other loop.
IsNeonInterruption(kind) == kind = "interruption"

Retries(failure) ==
    IF loop = "provider" THEN IsRetryable(failure.kind) ELSE IsNeonInterruption(failure.kind)

-----------------------------------------------------------------------------
\* How long a loop sleeps.

Doubled(n) == 2 ^ (n - 1)
Least(a, b) == IF a <= b THEN a ELSE b
Backoff(attempt) == Least(Doubled(attempt), MaxDelay)

\* The delay the provider asked for is taken as it is, else a capped doubling.
RetryDelay(failure, attempt) ==
    IF failure.retryAfter # NoRetryAfter THEN failure.retryAfter ELSE Backoff(attempt)

\* The other loop caps both; its jitter is below the unit of time.
NextBackoff(failure, attempt) ==
    IF failure.retryAfter # NoRetryAfter THEN Least(failure.retryAfter, MaxDelay)
    ELSE Backoff(attempt)

Delay(failure, attempt) ==
    IF loop = "provider" THEN RetryDelay(failure, attempt) ELSE NextBackoff(failure, attempt)

\* What a failure asks for: the wait of its header, as far as the loop grants it.
AskedFor(failure) ==
    IF failure.retryAfter = NoRetryAfter THEN 0 ELSE Delay(failure, 1)

-----------------------------------------------------------------------------
\* The loops. A provider call counts its time from its start, the other is given a
\* deadline that may have passed before its first attempt.

Elapsed(now) == IF loop = "provider" THEN now - call.start ELSE now

\* Loops that look at the clock before they sleep only.
OutOfTimeFault == FALSE

OutOfTime == Elapsed(clock) >= MaxElapsed /\ (loop = "provider" => call.attempt > 1)

StartAttempt ==
    /\ call.stage = "loop"
    /\ IF OutOfTime
       THEN call' = [call EXCEPT !.stage = "gave_up"] /\ UNCHANGED attempts
       ELSE /\ call' = [call EXCEPT !.stage = "attempting"]
            /\ attempts' = attempts \union
                   {[number |-> call.attempt, at |-> Elapsed(clock), due |-> call.due]}
    /\ UNCHANGED <<loop, clock>>

Succeeded(took) ==
    /\ call.stage = "attempting"
    /\ clock' = clock + took
    /\ call' = [call EXCEPT !.stage = "answered"]
    /\ UNCHANGED <<loop, attempts>>

\* A delay longer than what is left of the time.
TooLong(delay, remaining) == delay > remaining \/ (loop = "provider" /\ remaining <= 0)

\* Ends with the failure, or sleeps when the delay still fits.
Failed(failure, took) ==
    /\ call.stage = "attempting"
    /\ clock' = clock + took
    /\ LET elapsed == Elapsed(clock + took)
           delay == Delay(failure, call.attempt)
       IN call' =
            IF \/ ~Retries(failure) \/ call.attempt = MaxAttempts
               \/ TooLong(delay, MaxElapsed - elapsed)
            THEN [call EXCEPT !.stage = "failed"]
            ELSE [call EXCEPT !.stage = "sleeping", !.delay = delay,
                              !.due = elapsed + AskedFor(failure)]
    /\ UNCHANGED <<loop, attempts>>

Wake(late) ==
    /\ call.stage = "sleeping"
    /\ clock' = clock + call.delay + late
    /\ call' = [call EXCEPT !.stage = "loop", !.attempt = @ + 1]
    /\ UNCHANGED <<loop, attempts>>

CallInit ==
    /\ loop \in {"provider", "guarded"}
    /\ clock \in 0..MaxElapsed
    /\ call = [stage |-> "loop", attempt |-> 1, start |-> clock, delay |-> 0, due |-> 0]
    /\ attempts = {}

CallNext ==
    \/ StartAttempt
    \/ \E took \in 0..MaxElapsed :
           /\ clock + took <= MaxClock
           /\ \/ Succeeded(took)
              \/ \E f \in IF loop = "provider" THEN ProviderFailures ELSE Errors : Failed(f, took)
    \/ \E late \in 0..1 : Wake(late)

CallSpec == CallInit /\ [][CallNext]_callVars

-----------------------------------------------------------------------------
\* However long attempts and sleeps take, a loop makes at most MaxAttempts attempts,
\* starts none when its time is up (the first attempt of a provider call excepted), none
\* before the wait the last failure asked for has passed, in the provider's loop in
\* full, in the other up to the cap, and never goes to sleep past its limit.
RetryWithinLimits ==
    /\ \A a \in attempts :
           /\ a.number <= MaxAttempts
           /\ a.number > 1 \/ loop = "guarded" => a.at < MaxElapsed
           /\ a.at >= a.due
    /\ call.stage = "sleeping" => Elapsed(clock) + call.delay <= MaxElapsed
=============================================================================
