------------------------------ MODULE RateWindow ------------------------------
(***************************************************************************)
(* The rate limiter alone, called at will, with an observer that counts    *)
(* the requests granted and the time passed since an arbitrary moment: a   *)
(* window may be opened at any point of the limiter's life.                *)
(***************************************************************************)
EXTENDS RateLimiter

CONSTANT MaxElapsed   \* longest window observed, in ticks

ASSUME WindowConstants == MaxElapsed \in Nat \ {0}

VARIABLES elapsed, granted

windowVars == <<elapsed, granted>>
windowedVars == <<rateVars, windowVars>>

WindowTypeOK ==
    /\ RateTypeOK
    /\ elapsed \in 0 .. MaxElapsed
    /\ granted \in Nat

WindowInit == RateInit /\ elapsed = 0 /\ granted = 0

Grant == TakeToken /\ granted' = granted + 1 /\ UNCHANGED elapsed

Deny == RefuseToken /\ UNCHANGED windowVars

OpenWindow == elapsed' = 0 /\ granted' = 0 /\ UNCHANGED rateVars

\* Time passes; a window that reaches MaxElapsed gives way to a new one.
WindowTick ==
    /\ RateTick
    /\ IF elapsed < MaxElapsed
          THEN elapsed' = elapsed + 1 /\ UNCHANGED granted
          ELSE elapsed' = 0 /\ granted' = 0

WindowNext == Grant \/ Deny \/ OpenWindow \/ WindowTick

WindowSpec == WindowInit /\ [][WindowNext]_windowedVars

\* Time passes.  Callers may poll as fast as they like.
WindowFairSpec == WindowSpec /\ WF_windowedVars(WindowTick)

\* What the token bucket promises (RateLimiter.Allow): in every window of
\* time, however it lies relative to the refills, at most a full bucket plus
\* the refill rate times the window's length is granted, give or take the
\* one token that was accruing when the window began.
RateBudget ==
    TicksPerSecond * granted
      < TicksPerSecond * (MaxTokens + 1) + RefillRate * elapsed

\* An empty bucket fills again however fast callers poll it: a poll that
\* adds no token must not restart the refill interval (lastRefill).
BucketRefills == Refilled = 0 ~> Refilled > 0
=============================================================================
