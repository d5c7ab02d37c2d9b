----------------------------- MODULE RateLimiter -----------------------------
(***************************************************************************)
(* The token bucket of gate.go.  Allow runs under rl.mu and is one step.   *)
(* Time is the number of ticks since lastRefill, counted up to the age at  *)
(* which a refill fills the bucket whatever it holds.                      *)
(***************************************************************************)
EXTENDS Integers

CONSTANTS RefillRate,      \* rl.refillRate, tokens per second
          BurstSeconds,    \* 10 in NewRateLimiter: maxTokens = 10 * refillRate
          TicksPerSecond   \* resolution of the clock

ASSUME RateConstants ==
    /\ RefillRate \in Nat \ {0}
    /\ BurstSeconds \in Nat \ {0}
    /\ TicksPerSecond \in Nat \ {0}

VARIABLES tokens,          \* rl.tokens
          sinceRefill      \* ticks since rl.lastRefill, capped

rateVars == <<tokens, sinceRefill>>

MaxTokens == BurstSeconds * RefillRate
MaxRefillAge == BurstSeconds * TicksPerSecond

RateTypeOK ==
    /\ tokens \in 0 .. MaxTokens
    /\ sinceRefill \in 0 .. MaxRefillAge

RateInit ==
    /\ tokens = MaxTokens
    /\ sinceRefill = 0

\* int64(elapsed.Seconds() * float64(rl.refillRate)): truncated.
TokensToAdd == (RefillRate * sinceRefill) \div TicksPerSecond

MutRefilled == tokens + TokensToAdd

\* The bucket after the refill at the head of Allow.
Refilled ==
    IF tokens + TokensToAdd < MaxTokens THEN tokens + TokensToAdd ELSE MaxTokens

MutRefillAge == sinceRefill

MutRefillAgeAlways == 0

\* lastRefill moves only when a whole token was added.
RefillAge == IF TokensToAdd > 0 THEN 0 ELSE sinceRefill

\* Allow returns nil.
TakeToken ==
    /\ Refilled > 0
    /\ tokens' = Refilled - 1
    /\ sinceRefill' = RefillAge

\* Allow returns ErrRateLimitExceeded.
RefuseToken ==
    /\ Refilled = 0
    /\ tokens' = Refilled
    /\ sinceRefill' = RefillAge

RateTick ==
    /\ sinceRefill' = IF sinceRefill < MaxRefillAge THEN sinceRefill + 1
                                                    ELSE sinceRefill
    /\ UNCHANGED tokens
=============================================================================
