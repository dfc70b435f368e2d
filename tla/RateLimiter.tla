---------------------------- MODULE RateLimiter ----------------------------
(***************************************************************************)
(* The rate limiter (rate_limiter/src/lib.rs and persist.rs), driven by a   *)
(* device that retries the request at the head of its queue               *)
(* (Request::rate_limit in devices/src/virtio/block/request.rs): one        *)
(* operation token, then the bytes of a data transfer, giving the          *)
(* operation token back when the bytes are refused.                        *)
(***************************************************************************)
EXTENDS Integers

CONSTANTS
    U64,           \* 2^64 in the code
    NsPerMs,       \* NANOSEC_IN_ONE_MILLISEC
    Configs,       \* the [TokenType -> [size, burst, refill_time]] it may be
                   \* created with
    NewConfigs,    \* what update_buckets may install: a set of such records
    Requests,      \* for each of Configs, the lengths of data requests; 0
                   \* stands for a request without data
    TimerMs,       \* REFILL_TIMER_INTERVAL_MS
    MaxTime,       \* bound on the clock
    MaxUpdates,    \* bound on the calls of update_buckets
    MaxRestores    \* bound on the number of snapshot restores

TokenTypes == {"Ops", "Bytes"}
Config == [size : Nat, burst : Nat, refill_time : Nat]

\* What the constants must be.
LimiterAssumption ==
    /\ U64 \in Nat \ {0} /\ NsPerMs \in Nat \ {0}
    /\ Configs \subseteq [TokenTypes -> Config]
    /\ NewConfigs \subseteq Config
    /\ Requests \in [Configs -> SUBSET Nat]
    /\ TimerMs \in Nat \ {0}
    /\ MaxTime \in Nat /\ MaxUpdates \in Nat /\ MaxRestores \in Nat

----------------------------------------------------------------------------
(* The token bucket, as operators on a bucket record. Time is a number of  *)
(* nanoseconds; u64 products wrap at U64, as a release build does.          *)

\* The `None` of Option<TokenBucket>.
NoBucket == [size |-> 0]

MinOf(a, b) == IF a <= b THEN a ELSE b

\* Euclid's algorithm, as the loop of `gcd` runs it.
Gcd(x, y) ==
    LET g[a \in Nat, b \in Nat] == IF b = 0 THEN a ELSE g[b, a % b]
    IN  g[x, y]

RefillNs(refill_time) == (refill_time * NsPerMs) % U64

NewBucket(size, burst, refill_time, at) ==
    IF size = 0 \/ refill_time = 0 THEN NoBucket
    ELSE LET f == Gcd(size, RefillNs(refill_time))
         IN  [size |-> size, refill_time |-> refill_time,
              one_time_burst |-> burst, budget |-> size, last_update |-> at,
              processed_capacity |-> size \div f,
              processed_refill_time |-> RefillNs(refill_time) \div f]

\* Mutant: the time of the fraction left over is dropped.
AutoReplenishDropsRest(b, at) ==
    LET tokens == (((at - b.last_update) * b.processed_capacity) % U64)
                      \div b.processed_refill_time
    IN  [b EXCEPT !.last_update = at,
                  !.budget = MinOf(b.budget + tokens, b.size)]

\* auto_replenish: whole tokens are credited, and the time of the fraction left
\* over is carried to the next call.
AutoReplenish(b, at) ==
    LET tokens == (((at - b.last_update) * b.processed_capacity) % U64)
                      \div b.processed_refill_time
    IN  [b EXCEPT !.last_update = @ + (tokens * b.processed_refill_time)
                                          \div b.processed_capacity,
                  !.budget = MinOf(b.budget + tokens, b.size)]

Reduction(result, b, over) == [result |-> result, bucket |-> b, over |-> over]

\* `reduce` once the burst no longer covers the request: `over` is what
\* OverConsumption reports, before its division by the size.
ReduceBudget(b, tokens, at) ==
    LET r == IF tokens > b.budget THEN AutoReplenish(b, at) ELSE b
    IN  CASE tokens > b.budget /\ tokens > b.size ->
               Reduction("OverConsumption", [r EXCEPT !.budget = 0], tokens - r.budget)
          [] tokens > r.budget -> Reduction("Failure", r, 0)
          [] OTHER -> Reduction("Success", [r EXCEPT !.budget = @ - tokens], 0)

\* `reduce`: the burst first, then the budget.
Reduce(b, tokens, at) ==
    IF b.one_time_burst > 0 /\ b.one_time_burst >= tokens
    THEN Reduction("Success",
                   [b EXCEPT !.one_time_burst = @ - tokens, !.last_update = at], 0)
    ELSE ReduceBudget([b EXCEPT !.one_time_burst = 0], tokens - b.one_time_burst, at)

ForceReplenish(b, tokens) ==
    IF b.one_time_burst > 0
    THEN [b EXCEPT !.one_time_burst = @ + tokens]
    ELSE [b EXCEPT !.budget = MinOf(@ + tokens, b.size)]

----------------------------------------------------------------------------
VARIABLES
    now,           \* Instant::now()
    bucket,        \* the fields `ops` and `bandwidth`
    timer_active,
    timer,         \* when the timerfd expires or did expire, or Disarmed
    req,           \* the request at the head of the queue, or NoReq
    fails,         \* history: the tries of req that found an unblocked limiter
                   \* and failed, since the limiter was last updated or restored
    updates, restores,
    config,        \* history: what the limiter was created with,
    granted,       \* tokens handed out since the bucket was installed,
    since,         \* when that was,
    credit         \* and with which one-time burst

vars == <<now, bucket, timer_active, timer, req, fails, updates, restores,
          config, granted, since, credit>>
limiterVars == <<bucket, timer_active, timer>>
history == <<config, granted, since, credit>>

Disarmed == -1
NoReq == -1

\* What poll(2) reports on the timerfd.
Readable == timer # Disarmed /\ timer <= now

\* activate_timer with Oneshot(ms): timerfd_settime disarms on a zero value.
Oneshot(ms) == IF ms = 0 THEN Disarmed ELSE now + ms * NsPerMs

Install(c) == NewBucket(c.size, c.burst, c.refill_time, now)

Limiter == [bucket |-> bucket, active |-> timer_active, timer |-> timer]

Init ==
    /\ now = 0
    /\ config \in Configs
    /\ bucket = [ty \in TokenTypes |-> Install(config[ty])]
    /\ timer_active = FALSE /\ timer = Disarmed
    /\ req = NoReq /\ fails = 0 /\ updates = 0 /\ restores = 0
    /\ granted = [ty \in TokenTypes |-> 0]
    /\ since = [ty \in TokenTypes |-> 0]
    /\ credit = [ty \in TokenTypes |-> config[ty].burst]

----------------------------------------------------------------------------

\* The milliseconds of an over-consumption: `(ratio * refill_time) as u64`.
OverMs(b, over) == (over * b.refill_time) \div b.size

ConsumeKeepsTimerOff(l, ty, tokens) ==
    LET r == Reduce(l.bucket[ty], tokens, now)
        l2 == [l EXCEPT !.bucket[ty] = r.bucket]
    IN  CASE l.active -> [ok |-> FALSE, limiter |-> l]
          [] l.bucket[ty].size = 0 -> [ok |-> TRUE, limiter |-> l]
          [] r.result = "Success" -> [ok |-> TRUE, limiter |-> l2]
          [] r.result = "Failure" ->
               [ok |-> FALSE, limiter |-> [l2 EXCEPT !.active = TRUE]]
          [] r.result = "OverConsumption" ->
               [ok |-> TRUE,
                limiter |-> [l2 EXCEPT !.active = TRUE,
                                       !.timer = Oneshot(OverMs(r.bucket, r.over))]]

\* consume(tokens, ty): the limiter afterwards and whether it granted.
Consume(l, ty, tokens) ==
    LET r == Reduce(l.bucket[ty], tokens, now)
        l2 == [l EXCEPT !.bucket[ty] = r.bucket, !.active = TRUE]
    IN  CASE l.active -> [ok |-> FALSE, limiter |-> l]
          [] l.bucket[ty].size = 0 -> [ok |-> TRUE, limiter |-> l]
          [] r.result = "Success" ->
               [ok |-> TRUE, limiter |-> [l EXCEPT !.bucket[ty] = r.bucket]]
          [] r.result = "Failure" ->
               [ok |-> FALSE, limiter |-> [l2 EXCEPT !.timer = Oneshot(TimerMs)]]
          [] r.result = "OverConsumption" ->
               [ok |-> TRUE,
                limiter |-> [l2 EXCEPT !.timer = Oneshot(OverMs(r.bucket, r.over))]]

ManualReplenish(l, ty, tokens) ==
    IF l.bucket[ty].size = 0 THEN l
    ELSE [l EXCEPT !.bucket[ty] = ForceReplenish(@, tokens)]

\* Request::rate_limit.
RateLimit(l, len) ==
    LET ops == Consume(l, "Ops", 1)
        bytes == Consume(ops.limiter, "Bytes", len)
    IN  CASE ~ops.ok \/ len = 0 -> ops
          [] bytes.ok -> bytes
          [] OTHER -> [ok |-> FALSE,
                       limiter |-> ManualReplenish(bytes.limiter, "Ops", 1)]

\* The guest queues a request behind those already served.
Arrive ==
    /\ req = NoReq
    /\ req' \in Requests[config]
    /\ fails' = 0
    /\ UNCHANGED <<now, limiterVars, updates, restores, history>>

\* The device's handler tries the head of the queue; refused, the request is
\* put back with undo_pop.
Try ==
    /\ req # NoReq
    /\ LET r == RateLimit(Limiter, req)
       IN  /\ bucket' = r.limiter.bucket
           /\ timer_active' = r.limiter.active
           /\ timer' = r.limiter.timer
           /\ req' = IF r.ok THEN NoReq ELSE req
           /\ fails' = IF r.ok \/ timer_active THEN fails ELSE fails + 1
           /\ granted' = [ty \in TokenTypes |->
                           granted[ty] + IF r.ok /\ bucket[ty].size # 0
                                         THEN IF ty = "Ops" THEN 1 ELSE req
                                         ELSE 0]
    /\ UNCHANGED <<now, updates, restores, config, since, credit>>

\* event_handler: the timerfd is read, which forgets the expiry.
EventHandler ==
    /\ Readable
    /\ timer' = Disarmed
    /\ timer_active' = FALSE
    /\ UNCHANGED <<now, bucket, req, fails, updates, restores, history>>

\* update_buckets on one bucket (BucketUpdate::Update or ::Disabled).  The
\* timer is left as it is.
UpdateBuckets ==
    /\ updates < MaxUpdates
    /\ updates' = updates + 1
    /\ \E ty \in TokenTypes, c \in NewConfigs :
         /\ bucket' = [bucket EXCEPT ![ty] = Install(c)]
         /\ granted' = [granted EXCEPT ![ty] = 0]
         /\ since' = [since EXCEPT ![ty] = now]
         /\ credit' = [credit EXCEPT ![ty] = c.burst]
    /\ fails' = 0
    /\ UNCHANGED <<now, timer_active, timer, req, restores, config>>

\* Persist::save and ::restore: the age of last_update is kept unless the new
\* host's clock is too young, the timer and timer_active are new.
SaveRestore ==
    /\ restores < MaxRestores
    /\ restores' = restores + 1
    /\ bucket' \in {bucket, [ty \in TokenTypes |->
                               IF bucket[ty].size = 0 THEN bucket[ty]
                               ELSE [bucket[ty] EXCEPT !.last_update = now]]}
    /\ timer_active' = FALSE
    /\ timer' = Disarmed
    /\ fails' = 0
    /\ UNCHANGED <<now, req, updates, history>>

Tick ==
    /\ now < MaxTime
    /\ now' = now + 1
    /\ UNCHANGED <<limiterVars, req, fails, updates, restores, history>>

Next == Arrive \/ Try \/ EventHandler \/ UpdateBuckets \/ SaveRestore \/ Tick

Spec == Init /\ [][Next]_vars

----------------------------------------------------------------------------
(* Properties.                                                             *)

\* The types; a bucket never holds more than its size ("never replenish above
\* their respective size") and never more burst than it was given.
TypeOK ==
    /\ now \in 0..MaxTime
    /\ timer_active \in BOOLEAN
    /\ timer \in Nat \cup {Disarmed}
    /\ req \in Requests[config] \cup {NoReq}
    /\ fails \in Nat
    /\ \A ty \in TokenTypes : bucket[ty].size # 0 =>
         /\ bucket[ty].budget \in 0..bucket[ty].size
         /\ bucket[ty].one_time_burst \in 0..credit[ty]
         /\ bucket[ty].last_update \in 0..now

\* A blocked limiter has its timer running or expired, so that the event which
\* unblocks it comes; an unblocked one has no timer that would wake it for
\* nothing ("only one running timer for this limiter").  It fails when borrowed
\* tokens are worth less than a millisecond, for Oneshot(0) disarms the timer.
BlockedIffArmed == timer_active <=> timer # Disarmed

\* Since it was installed, a bucket has granted no more than its size, its
\* burst and what its rate (size per refill time) allows for the time passed.
WithinRate(ty) ==
    (granted[ty] - bucket[ty].size - credit[ty]) * RefillNs(bucket[ty].refill_time)
        <= (now - since[ty]) * bucket[ty].size

\* A request above the bucket size borrows from the time to come, and the time
\* spent blocked refills the bucket as well: then twice the rate, and one such
\* request, are the bound.  A limiter is restored unblocked, which forgives the
\* debt of one request.
WithinTwiceRate(ty) ==
    \E n \in Requests[config] :
        (granted[ty] - bucket[ty].size - credit[ty] - n * (1 + restores))
            * RefillNs(bucket[ty].refill_time)
                <= 2 * (now - since[ty]) * bucket[ty].size

\* A request that fits its buckets waits no longer than they take to earn its
\* tokens: the tries of the timer that come before that may fail, and no other.
\* This needs the whole nanoseconds and the fractions of a token that one try
\* leaves over to count in the next, and no overflow of the elapsed time.
Earned(n, ty) ==
    LET b == bucket[ty]
    IN  IF b.size = 0 \/ n > b.size THEN 0
        ELSE (n * RefillNs(b.refill_time) + b.size - 1) \div b.size
TimerTries(ns) == (ns + TimerMs * NsPerMs - 1) \div (TimerMs * NsPerMs)
GrantedInTime ==
    \/ req = NoReq
    \/ fails <= TimerTries(Earned(1, "Ops")) \/ fails <= TimerTries(Earned(req, "Bytes"))
    \/ \E ty \in TokenTypes : bucket[ty].size # 0 /\ now * bucket[ty].processed_capacity >= U64

\* A limiter grants what its configuration says.  No more: a limited token type
\* stays within its rate, or within twice the rate when requests exceed the
\* bucket, across refusals, updates and restores.  And no less: a request is
\* granted once its tokens are earned.
RateBound ==
    /\ \A ty \in TokenTypes : bucket[ty].size # 0 =>
         IF ty = "Bytes" /\ \E n \in Requests[config] : n > bucket[ty].size
         THEN WithinTwiceRate(ty)
         ELSE WithinRate(ty)
    /\ GrantedInTime
=============================================================================
