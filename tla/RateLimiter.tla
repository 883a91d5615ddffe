---------------------------- MODULE RateLimiter ----------------------------
(***************************************************************************)
(* services/spotify/rate_limiter.py and the retry loop of                  *)
(* SpotifyClient._request: callers of the API and of every worker share a  *)
(* token bucket and a Retry-After deadline, both kept in Redis.            *)
(*                                                                         *)
(* Units: one tick of the clock refills one unit of the bucket, a request  *)
(* costs Cost units, so that tokens, which the Lua script keeps as a       *)
(* fraction, are integers here (REFILL_PER_SECOND = 3 and a tick of 1/3 ms *)
(* make a token 1000 units).                                               *)
(*                                                                         *)
(* `stamp' is the caller's time.time(), sent along as an argument: scripts *)
(* of different callers may reach Redis in another order than their        *)
(* stamps, so the script may see time run backwards.                       *)
(***************************************************************************)
EXTENDS Integers

CONSTANTS
    Callers,       \* client instances
    Priority,      \* those with priority=True (skip guard)
    Capacity,      \* BUCKET_CAPACITY, in units
    Cost,          \* one token, in units
    Ttl,           \* EXPIRE of the bucket key (120 s), in ticks
    MaxDelay,      \* bound: ticks between time.time() and the script's run
    RetryAfters,   \* Retry-After headers Spotify sends, in ticks
    MaxAttempts,   \* stop_after_attempt(4)
    MaxTime        \* bound: ticks of the clock

ASSUME LimiterAssumption ==
    /\ Priority \subseteq Callers
    /\ Capacity \in Nat /\ Cost \in Nat \ {0}
    /\ Ttl \in Nat /\ MaxDelay \in Nat /\ MaxTime \in Nat
    /\ RetryAfters \subseteq Nat
    /\ MaxAttempts \in Nat \ {0}

\* An idle bucket refills before its key expires, by more than a script can be
\* late (120 s against 20 s).
ASSUME ExpiryAssumption == Capacity + MaxDelay <= Ttl

VARIABLES
    now,         \* the clock
    bucket,      \* the Redis hash: tokens and ts, and when a script last ran
    retryAfter,  \* the stored deadline
    pc, stamp, attempt,   \* per caller
    seen,        \* per caller: the deadline its GET has answered
    due,         \* per caller: the deadline it is about to store
    late,        \* history, per caller: requests sent before the stored deadline
                 \* was over, since that deadline was stored
    window,      \* history: some interval of the clock, fixed for ever
    spent        \* history: units granted to stamps inside the window

callerVars == <<pc, stamp, attempt, seen, due>>
limiterVars == <<now, bucket, retryAfter, callerVars, late, window, spent>>

Times == 0..MaxTime
NoBucket == [set |-> FALSE, tokens |-> 0, ts |-> 0, last |-> 0]

\* The key is there unless its time to live has run out since the last script.
BucketLives == bucket.set /\ now < bucket.last + Ttl

Smaller(a, b) == IF a < b THEN a ELSE b

-----------------------------------------------------------------------------
\* Time passes, while no script in flight gets later than MaxDelay.
Tick ==
    /\ now < MaxTime
    /\ \A c \in Callers : pc[c] = "stamped" => now + 1 <= stamp[c] + MaxDelay
    /\ now' = now + 1
    /\ UNCHANGED <<bucket, retryAfter, callerVars, late, window, spent>>

\* A client method is called.
Call(c) ==
    /\ pc[c] = "idle"
    /\ pc' = [pc EXCEPT ![c] = "calling"]
    /\ attempt' = [attempt EXCEPT ![c] = 1]
    /\ UNCHANGED <<now, bucket, retryAfter, stamp, seen, due, late, window, spent>>

\* The GET of acquire: what it answers is compared only when it arrives.
Look(c) ==
    /\ pc[c] = "calling"
    /\ pc' = [pc EXCEPT ![c] = "looked"]
    /\ seen' = [seen EXCEPT ![c] = retryAfter]
    /\ UNCHANGED <<now, bucket, retryAfter, stamp, attempt, due, late, window, spent>>

\* c's request leaves: late if the stored deadline still runs.
Send(c) ==
    late' = IF now < retryAfter THEN [late EXCEPT ![c] = @ + 1] ELSE late

\* Mutant: priority bypasses the deadline as well as the bucket.
MayPass_priority(c) == c \in Priority \/ seen[c] <= now

MayPass(c) == seen[c] <= now

\* Past the deadline it has read, a priority caller goes on at once and the others
\* stamp their bucket script.  Before it, the loop sleeps and looks again.
Decide(c) ==
    /\ pc[c] = "looked"
    /\ seen' = [seen EXCEPT ![c] = 0]
    /\ \/ /\ ~MayPass(c)
          /\ pc' = [pc EXCEPT ![c] = "calling"]
          /\ UNCHANGED <<stamp, late>>
       \/ /\ MayPass(c) /\ c \in Priority
          /\ pc' = [pc EXCEPT ![c] = "sent"]
          /\ Send(c)
          /\ UNCHANGED stamp
       \/ /\ MayPass(c) /\ c \notin Priority
          /\ pc' = [pc EXCEPT ![c] = "stamped"]
          /\ stamp' = [stamp EXCEPT ![c] = now]
          /\ UNCHANGED late
    /\ UNCHANGED <<now, bucket, retryAfter, attempt, due, window, spent>>

\* Mutant: a backward clock is taken as "no time has passed", but still stored.
Refilled_clampsElapsed(s) ==
    IF BucketLives
    THEN Smaller(Capacity, bucket.tokens + (IF s > bucket.ts THEN s - bucket.ts ELSE 0))
    ELSE Capacity

\* The tokens the script finds for a caller stamped s.
Refilled(s) ==
    IF BucketLives THEN Smaller(Capacity, bucket.tokens + (s - bucket.ts)) ELSE Capacity

Allowed(s) == Refilled(s) >= Cost

\* The Lua script, atomic in Redis.  A refused caller sleeps and starts over.
RunScript(c) ==
    LET s == stamp[c]
    IN  /\ pc[c] = "stamped"
        /\ bucket' = [set |-> TRUE, ts |-> s, last |-> now,
                      tokens |-> Refilled(s) - (IF Allowed(s) THEN Cost ELSE 0)]
        /\ pc' = [pc EXCEPT ![c] = IF Allowed(s) THEN "sent" ELSE "calling"]
        /\ stamp' = [stamp EXCEPT ![c] = 0]
        /\ spent' = IF Allowed(s) /\ s \in window.from .. window.upto
                    THEN spent + Cost ELSE spent
        /\ IF Allowed(s) THEN Send(c) ELSE UNCHANGED late
        /\ UNCHANGED <<now, retryAfter, attempt, seen, due, window>>

\* Spotify answers, or the error is not transient: the call ends.
Answered(c) ==
    /\ pc[c] = "sent"
    /\ pc' = [pc EXCEPT ![c] = "idle"]
    /\ attempt' = [attempt EXCEPT ![c] = 0]
    /\ UNCHANGED <<now, bucket, retryAfter, stamp, seen, due, late, window, spent>>

\* A transient failure: the request is tried again, up to MaxAttempts times.
Retry(c) ==
    IF attempt[c] < MaxAttempts
    THEN /\ pc' = [pc EXCEPT ![c] = "calling"]
         /\ attempt' = [attempt EXCEPT ![c] = @ + 1]
    ELSE /\ pc' = [pc EXCEPT ![c] = "idle"]
         /\ attempt' = [attempt EXCEPT ![c] = 0]

\* A 429: throttle computes the deadline and issues its SET.
Throttled(c) ==
    /\ pc[c] = "sent"
    /\ \E seconds \in RetryAfters : due' = [due EXCEPT ![c] = now + seconds]
    /\ pc' = [pc EXCEPT ![c] = "throttled"]
    /\ UNCHANGED <<now, bucket, retryAfter, stamp, attempt, seen, late, window, spent>>

\* The SET: it replaces whatever deadline is stored, a later one too.
StoreDeadline(c) ==
    /\ pc[c] = "throttled"
    /\ retryAfter' = due[c]
    /\ due' = [due EXCEPT ![c] = 0]
    /\ late' = [d \in Callers |-> 0]
    /\ Retry(c)
    /\ UNCHANGED <<now, bucket, stamp, seen, window, spent>>

ServerError(c) ==
    /\ pc[c] = "sent"
    /\ Retry(c)
    /\ UNCHANGED <<now, bucket, retryAfter, stamp, seen, due, late, window, spent>>

\* The caller's process dies, or its command never reaches Redis: a SET included.
Crash(c) ==
    /\ pc[c] # "idle"
    /\ pc' = [pc EXCEPT ![c] = "idle"]
    /\ stamp' = [stamp EXCEPT ![c] = 0]
    /\ attempt' = [attempt EXCEPT ![c] = 0]
    /\ seen' = [seen EXCEPT ![c] = 0]
    /\ due' = [due EXCEPT ![c] = 0]
    /\ UNCHANGED <<now, bucket, retryAfter, late, window, spent>>

-----------------------------------------------------------------------------
LimiterInit ==
    /\ now = 0
    /\ bucket = NoBucket
    /\ retryAfter = 0
    /\ pc = [c \in Callers |-> "idle"]
    /\ stamp = [c \in Callers |-> 0]
    /\ attempt = [c \in Callers |-> 0]
    /\ seen = [c \in Callers |-> 0]
    /\ due = [c \in Callers |-> 0]
    /\ late = [c \in Callers |-> 0]
    /\ window \in {i \in [from : Times, upto : Times] : i.from <= i.upto}
    /\ spent = 0

LimiterNext ==
    \/ Tick
    \/ \E c \in Callers :
         \/ Call(c) \/ Look(c) \/ Decide(c) \/ RunScript(c) \/ Answered(c)
         \/ Throttled(c) \/ StoreDeadline(c) \/ ServerError(c) \/ Crash(c)

LimiterSpec == LimiterInit /\ [][LimiterNext]_limiterVars

-----------------------------------------------------------------------------
(* Properties *)

\* Type correctness; tokens may be negative, after a script stamped early.
LimiterTypeOK ==
    /\ now \in Times
    /\ bucket \in [set : BOOLEAN, tokens : Int, ts : Times, last : Times]
    /\ retryAfter \in Nat
    /\ pc \in [Callers -> {"idle", "calling", "looked", "stamped", "sent", "throttled"}]
    /\ stamp \in [Callers -> Times]
    /\ attempt \in [Callers -> 0..MaxAttempts]
    /\ seen \in [Callers -> Nat] /\ due \in [Callers -> Nat]
    /\ late \in [Callers -> Nat]
    /\ window \in [from : Times, upto : Times]
    /\ spent \in Nat

\* However many callers there are and in whatever order their scripts run, the
\* requests stamped within any interval cost at most a full bucket plus what
\* the interval refills: the budget of rate_limiter.py:6-7 and 22-24.
WindowBudget == spent <= Capacity + (window.upto - window.from)

\* What is left of "every caller pauses until the stored deadline"
\* (ARCHITECTURE.md:161) when the check, the bucket script, the answer and the SET are
\* awaited one after the other and callers overlap: from the moment a deadline is stored
\* until it is over or replaced, each caller, the skip guard included, sends at most
\* the one request it had already let past the check; its retries wait.
OneLateRequest == \A c \in Callers : late[c] <= 1

\* "Honours 429 Retry-After globally: every caller pauses until the stored deadline"
\* (ARCHITECTURE.md:161): no caller's request leaves while the stored deadline runs.
EveryCallerPauses ==
    [][\A c \in Callers : pc[c] # "sent" /\ pc'[c] = "sent" => retryAfter <= now]_limiterVars
=============================================================================
