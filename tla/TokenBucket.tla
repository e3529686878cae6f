---------------------------- MODULE TokenBucket ----------------------------
(***************************************************************************)
(* server/matrix/ratelimit.go and waitForRateLimit of client.go: requests  *)
(* to the homeserver are throttled by one token bucket per kind of         *)
(* operation, with limits that the configured mode selects.  A caller      *)
(*   - asks for a token (Allow, under the bucket's mutex),                 *)
(*   - is told how long to wait if there is none (getWaitTime, under the   *)
(*     mutex again: other callers may come in between),                    *)
(*   - sleeps until then, or until its 30 seconds are over, and asks again.*)
(* Nothing queues the callers: whoever asks first after a refill is served.*)
(*                                                                         *)
(* Time is counted in ticks of 0.1 s, a token in One units, so that every  *)
(* rate of the code is a whole number of units per tick; a wait is rounded *)
(* up to a tick.  The callers' own steps take no time, except that one may *)
(* be held up between Allow and getWaitTime.                               *)
(***************************************************************************)
EXTENDS Naturals, Sequences, FiniteSets

CONSTANTS
    Caller,     \* the goroutines that call the client
    Choice,     \* the <<mode, operation>> pairs a behaviour may be about
    MaxCall,    \* bound: calls made altogether
    Pause,      \* bound: how far time may jump while it is not urgent
    Horizon,    \* bound: time at which new calls stop
    MaxHeldUp   \* bound: ticks that callers are held up before getWaitTime

One == 10000        \* units per token
Deadline == 300     \* context.WithTimeout(30 s)
DisabledWait == 36000   \* DisabledWaitTime: an hour

Mode == {"disabled", "testing", "relaxed", "automatic", "conservative",
         "restricted"}
Operation == {"RoomCreation", "Messages", "Invites", "Registration", "Joins"}

\* No configuration has both a rate and an interval.
Bucket == {b \in [rate : Nat, burst : Nat, interval : Nat] :
             b.rate = 0 \/ b.interval = 0}
Rated(r, b) == [rate |-> r, burst |-> b, interval |-> 0]
Spaced(i) == [rate |-> 0, burst |-> 0, interval |-> i]

\* RateLimitConfig.
Limits(rooms, messages, invites, registration, joins) ==
    [op \in Operation |->
        CASE op = "RoomCreation" -> rooms
          [] op = "Messages"     -> messages
          [] op = "Invites"      -> invites
          [] op = "Registration" -> registration
          [] op = "Joins"        -> joins]

\* The limits of Synapse itself.
DefaultLimits ==
    Limits(Rated(50, 2), Rated(200, 10), Rated(300, 10), Rated(170, 3), Rated(200, 5))

\* What the integration tests use.
TestingLimits ==
    Limits(Spaced(67), Rated(9990, 15), Rated(9990, 15), Rated(4998, 4), Rated(5010, 7))

\* GetRateLimitConfigByMode.  The disabled mode leaves every limit at zero.
ConfigByMode(mode) ==
    CASE mode = "testing"      -> TestingLimits
      [] mode = "relaxed"      ->
            Limits(Rated(250, 3), Rated(1000, 15), Rated(1500, 15), Rated(850, 5), Rated(1000, 8))
      [] mode = "conservative" -> DefaultLimits
      [] mode = "restricted"   ->
            Limits(Rated(25, 1), Rated(100, 5), Rated(150, 5), Rated(85, 2), Rated(100, 3))
      [] mode = "disabled"     ->
            Limits(Spaced(0), Spaced(0), Spaced(0), Spaced(0), Spaced(0))
      [] OTHER                 ->
            Limits(Rated(100, 3), Rated(400, 12), Rated(600, 12), Rated(340, 4), Rated(400, 7))

\* ParseRateLimitingMode: what is configured, or the default for anything else.
ParseMode(configured) == IF configured \in Mode THEN configured ELSE "automatic"

ASSUME TokenBucketAssumption ==
    /\ Choice \subseteq STRING \X Operation
    /\ MaxCall \in Nat /\ Horizon \in Nat /\ MaxHeldUp \in Nat
    /\ Pause \in SUBSET (Nat \ {0})

VARIABLES
    bucket,      \* the limits of the operation under study
    tokens,      \* units in the bucket at lastRefill
    lastRefill,
    lastOp,      \* set of at most one time: that of the last interval grant
    now,
    caller,      \* caller[c]: idle, try, measure, sleep
    start,       \* start[c]: when the call of c began
    wake,        \* wake[c]: when its timer fires
    heldUp,      \* history: ticks that passed between an Allow and its
                 \*   getWaitTime
    calls,       \* history: calls begun
    grants,      \* history: the times at which operations were let through
    failures     \* history: when the calls that ran out of time had begun

limiter == <<bucket, tokens, lastRefill, lastOp>>
limiterVars == <<limiter, now, caller, start, wake, heldUp, calls, grants, failures>>

IsDisabled == bucket.rate = 0 /\ bucket.burst = 0 /\ bucket.interval = 0

LimiterTypeOK ==
    /\ bucket \in Bucket
    /\ tokens \in Nat /\ lastRefill \in Nat /\ now \in Nat
    /\ lastRefill <= now
    /\ tokens <= bucket.burst * One
    /\ lastOp \in SUBSET Nat
    /\ caller \in [Caller -> {"idle", "try", "measure", "sleep"}]
    /\ start \in [Caller -> Nat] /\ wake \in [Caller -> Nat]
    /\ heldUp \in Nat /\ calls \in Nat
    /\ grants \in Seq(Nat)
    /\ failures \in SUBSET Nat

\* NewTokenBucket: the bucket is full.
LimiterInit ==
    /\ \E ch \in Choice : bucket = ConfigByMode(ParseMode(ch[1]))[ch[2]]
    /\ tokens = bucket.burst * One
    /\ lastRefill = 0
    /\ lastOp = {}
    /\ now = 0
    /\ caller = [c \in Caller |-> "idle"]
    /\ start = [c \in Caller |-> 0]
    /\ wake = [c \in Caller |-> 0]
    /\ heldUp = 0
    /\ calls = 0
    /\ grants = <<>>
    /\ failures = {}

-----------------------------------------------------------------------------
\* waitForRateLimit: the caller's 30 seconds begin.
Call(c) ==
    /\ caller[c] = "idle"
    /\ calls < MaxCall /\ now <= Horizon
    /\ calls' = calls + 1
    /\ start' = [start EXCEPT ![c] = now]
    /\ caller' = [caller EXCEPT ![c] = "try"]
    /\ UNCHANGED <<limiter, now, wake, heldUp, grants, failures>>

Passes(c) == /\ caller' = [caller EXCEPT ![c] = "idle"]
             /\ grants' = Append(grants, now)
Refused(c) == /\ caller' = [caller EXCEPT ![c] = "measure"]
              /\ UNCHANGED grants

\* Without rate limiting (waitForRateLimit) and with a disabled bucket.
AllowUnlimited(c) ==
    /\ IsDisabled
    /\ Passes(c)
    /\ UNCHANGED limiter

TooSoon == \E t \in lastOp : now - t < bucket.interval

AllowInterval(c) ==
    /\ bucket.interval > 0
    /\ \/ TooSoon /\ Refused(c) /\ UNCHANGED lastOp
       \/ ~TooSoon /\ Passes(c) /\ lastOp' = {now}
    /\ UNCHANGED <<bucket, tokens, lastRefill>>

\* Mutant: the bucket may hold more than the burst.
Refilled_NoCap == tokens + (now - lastRefill) * bucket.rate

\* What the bucket holds once the elapsed time is credited.
Refilled == LET t == tokens + (now - lastRefill) * bucket.rate
            IN  IF t > bucket.burst * One THEN bucket.burst * One ELSE t

\* Mutant: lastRefill is only moved by a grant: a refused caller credits the
\* same time again.
AllowToken_StampOnGrant(c) ==
    /\ ~IsDisabled /\ bucket.interval = 0
    /\ \/ Refilled >= One /\ tokens' = Refilled - One /\ lastRefill' = now /\ Passes(c)
       \/ Refilled < One /\ tokens' = Refilled /\ Refused(c) /\ UNCHANGED lastRefill
    /\ UNCHANGED <<bucket, lastOp>>

\* Mutant: whole tokens only, a fraction is lost when the caller is refused.
AllowToken_WholeTokens(c) ==
    /\ ~IsDisabled /\ bucket.interval = 0
    /\ lastRefill' = now
    /\ \/ Refilled >= One /\ tokens' = Refilled - One /\ Passes(c)
       \/ Refilled < One /\ tokens' = 0 /\ Refused(c)
    /\ UNCHANGED <<bucket, lastOp>>

AllowToken(c) ==
    /\ ~IsDisabled /\ bucket.interval = 0
    /\ lastRefill' = now
    /\ \/ Refilled >= One /\ tokens' = Refilled - One /\ Passes(c)
       \/ Refilled < One /\ tokens' = Refilled /\ Refused(c)
    /\ UNCHANGED <<bucket, lastOp>>

\* Allow.
Allow(c) ==
    /\ caller[c] = "try"
    /\ AllowUnlimited(c) \/ AllowInterval(c) \/ AllowToken(c)
    /\ UNCHANGED <<now, start, wake, heldUp, calls, failures>>

\* getWaitTime.  The tokens are those of the last Allow: nothing is credited.
WaitTime ==
    IF bucket.interval > 0
    THEN IF TooSoon THEN bucket.interval - (now - CHOOSE t \in lastOp : TRUE)
                    ELSE 0
    ELSE IF tokens >= One THEN 0
    ELSE IF bucket.rate = 0 THEN DisabledWait
    ELSE (One - tokens + bucket.rate - 1) \div bucket.rate

\* Mutant: the loop measures again instead of asking again.
Measure_NoRetry(c) ==
    /\ caller[c] = "measure" /\ WaitTime > 0
    /\ caller' = [caller EXCEPT ![c] = "sleep"]
    /\ wake' = [wake EXCEPT ![c] = now + WaitTime]
    /\ UNCHANGED <<limiter, now, start, heldUp, calls, grants, failures>>

\* Wait's loop: sleep, or ask again at once if there is nothing to wait for.
Measure(c) ==
    /\ caller[c] = "measure"
    /\ \/ /\ WaitTime = 0
          /\ caller' = [caller EXCEPT ![c] = "try"]
          /\ UNCHANGED wake
       \/ /\ WaitTime > 0
          /\ caller' = [caller EXCEPT ![c] = "sleep"]
          /\ wake' = [wake EXCEPT ![c] = now + WaitTime]
    /\ UNCHANGED <<limiter, now, start, heldUp, calls, grants, failures>>

\* The select: whichever of timer and deadline has come, either if both have.
WakeUp(c) ==
    /\ caller[c] = "sleep"
    /\ now >= wake[c]
    /\ caller' = [caller EXCEPT ![c] = "try"]
    /\ UNCHANGED <<limiter, now, start, wake, heldUp, calls, grants, failures>>

GiveUp(c) ==
    /\ caller[c] = "sleep"
    /\ now >= start[c] + Deadline
    /\ caller' = [caller EXCEPT ![c] = "idle"]
    /\ failures' = failures \cup {start[c]}
    /\ UNCHANGED <<limiter, now, start, wake, heldUp, calls, grants>>

\* Time passes up to the next timer or deadline while everybody sleeps.
TimeUp(c) == IF wake[c] <= start[c] + Deadline THEN wake[c] ELSE start[c] + Deadline
Asleep == {c \in Caller : caller[c] = "sleep"}

Tick(t) ==
    /\ t > now
    /\ \A c \in Caller : caller[c] # "try"
    /\ \A c \in Asleep : t <= TimeUp(c)
    /\ now' = t
    /\ UNCHANGED <<limiter, caller, start, wake, calls, grants, failures>>

Resting == \A c \in Caller : caller[c] \in {"idle", "sleep"}
ToNextTimer == /\ Resting
               /\ \E c \in Asleep : Tick(TimeUp(c))
               /\ UNCHANGED heldUp
ForAWhile == /\ Resting /\ now <= Horizon
             /\ \E d \in Pause : Tick(now + d)
             /\ UNCHANGED heldUp
\* A caller is held up after Allow has refused it.
HeldUp == /\ \E c \in Caller : caller[c] = "measure"
          /\ heldUp < MaxHeldUp
          /\ Tick(now + 1)
          /\ heldUp' = heldUp + 1

CallerStep(c) == Allow(c) \/ Measure(c) \/ WakeUp(c) \/ GiveUp(c)
LimiterNext ==
    \/ ToNextTimer \/ ForAWhile \/ HeldUp
    \/ \E c \in Caller : Call(c) \/ CallerStep(c)

\* Goroutines keep running and time goes on.
LimiterFairness ==
    /\ WF_limiterVars(ToNextTimer)
    /\ \A c \in Caller : WF_limiterVars(CallerStep(c))
LimiterSpec == LimiterInit /\ [][LimiterNext]_limiterVars /\ LimiterFairness

-----------------------------------------------------------------------------
(* Properties. *)

\* However many goroutines call and however their steps mix, the requests let
\* through in any window of time are at most the burst plus what the rate
\* allows for that time, which is what the homeserver's own limit tolerates.
BurstBound ==
    bucket.rate > 0 =>
      \A j \in 1..Len(grants) : \A i \in 1..j :
          (j - i + 1) * One <= bucket.burst * One + bucket.rate * (grants[j] - grants[i])

\* With an interval (testing mode) two requests are at least that far apart.
IntervalBound ==
    bucket.interval > 0 =>
      \A j \in 2..Len(grants) : grants[j] - grants[j - 1] >= bucket.interval

\* The calls let through in the 30 seconds after time f, and whether they and
\* one more are all that the rate gives in that time.
Others(f) == Cardinality({i \in 1..Len(grants) : f < grants[i] /\ grants[i] <= f + Deadline})
Busy(f) == IF bucket.interval > 0 THEN (Others(f) + 1) * bucket.interval + heldUp >= Deadline
           ELSE (Others(f) + 1) * One > bucket.rate * (Deadline - 1 - heldUp)

\* A call fails only when the others have used up what the rate gives in its
\* 30 seconds: it may be overtaken, but capacity is never left unused.  (At
\* the very last tick the timer and the deadline race; the time for which
\* callers were held up does not count.)
FailureMeansBusy == \A f \in failures : Busy(f)

\* The limiter lets no more through than its interval allows, and no less.
LimitIsExact == IntervalBound /\ FailureMeansBusy

\* Every call ends, with a token or with an error (it cannot spin for ever
\* between Allow and getWaitTime, or sleep past its deadline).
WaitEnds == \A c \in Caller : caller[c] # "idle" ~> caller[c] = "idle"
=============================================================================
