---------------------------- MODULE RateLimiter ----------------------------
(***************************************************************************)
(* internal/ratelimit: one token bucket per caller identity, created on    *)
(* its first call under the mutex of the Limiter and shared by the         *)
(* goroutines that serve the caller's requests.                            *)
(*                                                                         *)
(* Time advances in ticks.  A bucket is kept in credit: a token is worth   *)
(* `Interval` ticks, the time rate.Every(interval) takes to give it back,  *)
(* so that New's integer division is the only rounding.  The rate.Limiter  *)
(* of golang.org/x/time is external: its Allow is one step.  Its float64   *)
(* arithmetic is not modelled.                                             *)
(***************************************************************************)
EXTENDS Integers, Sequences

CONSTANTS
    Callers,        \* caller identities
    Goroutines,     \* what serves requests
    Nobody,         \* neither a caller nor a goroutine
    Quotas,         \* the values perMinute may have
    Minute,         \* time.Minute in ticks
    MaxTime         \* bound: ticks that pass

ASSUME QuotasAssumption == Quotas \subseteq Int
ASSUME MinuteAssumption == Minute \in Nat \ {0}
ASSUME TimeBound == MaxTime \in Nat
ASSUME NobodyAssumption == Nobody \notin Callers \cup Goroutines

VARIABLES
    perMinute,  \* the configured limit; it stays what it is
    now,        \* the clock
    mu,         \* Limiter.mu: who holds it
    limiters,   \* Limiter.limiters: caller -> index in buckets, 0 for none
    buckets,    \* every *rate.Limiter: its credit, and when that was
    pc, caller, \* where each goroutine is ("answered" between two calls), its argument
    rl,         \* its local rl
    allowed,    \* its result
    admitted    \* history: when each caller got a token

limiterVars == <<mu, limiters, buckets>>
callVars    == <<pc, caller, rl, allowed>>
vars == <<perMinute, now, limiterVars, callVars, admitted>>

-----------------------------------------------------------------------------
(* New.                                                                    *)

Enabled == perMinute > 0

\* Mutant: the limit is one token per minute and caller.
MinuteInterval == Minute

\* time.Minute / time.Duration(perMinute): the division truncates.
Interval == Minute \div perMinute

\* rate.Every makes the rate of a zero interval infinite.
Unlimited == Enabled /\ Interval = 0

\* Mutant: room for one token more than the quota.
BurstAndOne == (perMinute + 1) * Interval

\* The burst is perMinute tokens.
Capacity == perMinute * Interval

Least(a, b) == IF a <= b THEN a ELSE b

\* What is in a bucket now.
Level(b) == Least(Capacity, b.credit + (now - b.at))

FullBucket == [credit |-> Capacity, at |-> now]

-----------------------------------------------------------------------------
(* Allow(caller).                                                          *)

Goto(g, to) == pc' = [pc EXCEPT ![g] = to]

Answer(g, yes) ==
    /\ Goto(g, "answered")
    /\ allowed' = [allowed EXCEPT ![g] = yes]
    /\ caller' = [caller EXCEPT ![g] = Nobody]
    /\ rl' = [rl EXCEPT ![g] = 0]

Call(g, c) ==
    /\ pc[g] = "answered"
    /\ caller' = [caller EXCEPT ![g] = c]
    /\ allowed' = [allowed EXCEPT ![g] = FALSE]
    /\ Goto(g, IF Enabled THEN "lock" ELSE "disabled")
    /\ UNCHANGED <<perMinute, now, limiterVars, rl, admitted>>

Disabled(g) ==
    /\ pc[g] = "disabled"
    /\ Answer(g, TRUE)
    /\ UNCHANGED <<perMinute, now, limiterVars, admitted>>

\* Mutant: the map is read and written without the mutex.
NoLockNeeded == TRUE

CanLock == mu = Nobody

Lock(g) ==
    /\ pc[g] = "lock" /\ CanLock
    /\ mu' = g
    /\ Goto(g, "find")
    /\ UNCHANGED <<perMinute, now, limiters, buckets, caller, rl, allowed, admitted>>

Find(g) ==
    /\ pc[g] = "find"
    /\ rl' = [rl EXCEPT ![g] = limiters[caller[g]]]
    /\ Goto(g, IF limiters[caller[g]] = 0 THEN "insert" ELSE "unlock")
    /\ UNCHANGED <<perMinute, now, limiterVars, caller, allowed, admitted>>

Insert(g) ==
    /\ pc[g] = "insert"
    /\ buckets' = Append(buckets, FullBucket)
    /\ rl' = [rl EXCEPT ![g] = Len(buckets) + 1]
    /\ limiters' = [limiters EXCEPT ![caller[g]] = Len(buckets) + 1]
    /\ Goto(g, "unlock")
    /\ UNCHANGED <<perMinute, now, mu, caller, allowed, admitted>>

Unlock(g) ==
    /\ pc[g] = "unlock"
    /\ mu' = Nobody
    /\ Goto(g, "take")
    /\ UNCHANGED <<perMinute, now, limiters, buckets, caller, rl, allowed, admitted>>

\* rl.Allow() takes a token, if there is a whole one.
Take(g) ==
    /\ pc[g] = "take" /\ ~Unlimited
    /\ Level(buckets[rl[g]]) >= Interval
    /\ buckets' = [buckets EXCEPT ![rl[g]] = [credit |-> Level(@) - Interval, at |-> now]]
    /\ admitted' = [admitted EXCEPT ![caller[g]] = Append(@, now)]
    /\ Answer(g, TRUE)
    /\ UNCHANGED <<perMinute, now, mu, limiters>>

\* An infinite rate: rl.Allow() looks at nothing.
TakeUnlimited(g) ==
    /\ pc[g] = "take" /\ Unlimited
    /\ Answer(g, TRUE)
    /\ UNCHANGED <<perMinute, now, limiterVars, admitted>>

\* Mutant: a call that is refused pays, too.
RefusePays(g) ==
    /\ pc[g] = "take"
    /\ ~Unlimited /\ Level(buckets[rl[g]]) < Interval
    /\ buckets' = [buckets EXCEPT ![rl[g]] = [credit |-> Level(@) - Interval, at |-> now]]
    /\ Answer(g, FALSE)
    /\ UNCHANGED <<perMinute, now, mu, limiters, admitted>>

Refuse(g) ==
    /\ pc[g] = "take"
    /\ ~Unlimited /\ Level(buckets[rl[g]]) < Interval
    /\ Answer(g, FALSE)
    /\ UNCHANGED <<perMinute, now, limiterVars, admitted>>

\* The clock; what becomes of it does not depend on the calls.
Tick ==
    /\ now < MaxTime
    /\ now' = now + 1
    /\ UNCHANGED <<perMinute, limiterVars, callVars, admitted>>

Init ==
    /\ perMinute \in Quotas
    /\ now = 0 /\ mu = Nobody
    /\ limiters = [c \in Callers |-> 0] /\ buckets = <<>>
    /\ pc = [g \in Goroutines |-> "answered"]
    /\ caller = [g \in Goroutines |-> Nobody]
    /\ rl = [g \in Goroutines |-> 0]
    /\ allowed = [g \in Goroutines |-> FALSE]
    /\ admitted = [c \in Callers |-> <<>>]

Progress(g) ==
    \/ Disabled(g) \/ Lock(g) \/ Find(g) \/ Insert(g) \/ Unlock(g)
    \/ Take(g) \/ TakeUnlimited(g) \/ Refuse(g)

Next ==
    \/ \E g \in Goroutines, c \in Callers : Call(g, c)
    \/ \E g \in Goroutines : Progress(g)
    \/ Tick

Spec == Init /\ [][Next]_vars

-----------------------------------------------------------------------------
(* Properties.                                                             *)

Pcs == {"disabled", "lock", "find", "insert", "unlock", "take", "answered"}

Ids == 0..Len(buckets)

TypeOK ==
    /\ perMinute \in Quotas /\ now \in 0..MaxTime
    /\ mu \in Goroutines \cup {Nobody}
    /\ limiters \in [Callers -> Ids]
    /\ buckets \in Seq([credit : 0..Capacity, at : 0..now])
    /\ pc \in [Goroutines -> Pcs] /\ caller \in [Goroutines -> Callers \cup {Nobody}]
    /\ rl \in [Goroutines -> Ids] /\ allowed \in [Goroutines -> BOOLEAN]
    /\ admitted \in [Callers -> Seq(0..now)]

\* Every way through Allow gives the mutex back before it takes a token.
MutexGivenBack ==
    \A g \in Goroutines : mu = g <=> pc[g] \in {"find", "insert", "unlock"}

\* Whatever the goroutines that serve one caller do at once, they end up with
\* the same bucket, and no two callers share one: the first call of a caller
\* creates a bucket under the mutex, and nobody replaces it.
OneBucketPerCaller ==
    /\ \A c, d \in Callers : limiters[c] = limiters[d] /\ limiters[c] # 0 => c = d
    /\ \A g \in Goroutines :
           pc[g] \in {"unlock", "take"} => rl[g] # 0 /\ rl[g] = limiters[caller[g]]

\* However its calls are spread over goroutines and time, n admissions of one
\* caller in a row span at least the time it takes to give n - perMinute tokens
\* back: a caller gets a full bucket and the rate, in every window.
RateIsBounded ==
    \A c \in Callers : \A i, j \in DOMAIN admitted[c] :
        i <= j => (j - i + 1 - perMinute) * Interval <= admitted[c][j] - admitted[c][i]

\* A caller is refused only if perMinute of its own calls got a token within
\* the last minute; a noisy neighbour cannot use up its quota.
RefusedOnlyWhenSpent ==
    [][\A g \in Goroutines :
          pc[g] # "answered" /\ pc'[g] = "answered" /\ ~allowed'[g] =>
              LET a == admitted[caller[g]]
              IN  Len(a) >= perMinute /\ a[Len(a) - perMinute + 1] > now - Minute]_vars

\* The Limiter cannot be told from one that has a full bucket for every caller
\* from the start and decides each call in one step.
CreditOf(c) ==
    IF ~Enabled \/ Unlimited THEN 0
    ELSE IF limiters[c] = 0 THEN Capacity ELSE Level(buckets[limiters[c]])

Phase == [g \in Goroutines |-> IF pc[g] = "answered" THEN "answered" ELSE "asking"]

Oracle == INSTANCE QuotaOracle WITH credit <- [c \in Callers |-> CreditOf(c)], phase <- Phase

KeepsTheQuota == Oracle!Spec
=============================================================================
