-------------------------- MODULE RateLimiterProofs --------------------------
(***************************************************************************)
(* Theorems about RateLimiter, for any callers, goroutines, quota, length  *)
(* of the minute and time.                                                 *)
(***************************************************************************)
EXTENDS RateLimiter, SequenceTheorems, TLAPS

-----------------------------------------------------------------------------
(* The arithmetic of a bucket.                                             *)

LEMMA IntervalType ==
    ASSUME perMinute \in Int, Enabled
    PROVE  Interval \in Nat /\ Capacity \in Nat /\ Capacity = perMinute * Interval
<1>1. Interval \in Nat
  BY MinuteAssumption DEF Interval, Enabled
<1>2. Capacity \in Nat
  BY <1>1 DEF Enabled, Capacity
<1> QED
  BY <1>1, <1>2 DEF Capacity

LEMMA LevelType ==
    ASSUME Capacity \in Nat, now \in Nat, NEW b \in [credit : 0..Capacity, at : 0..now]
    PROVE  Level(b) \in 0..Capacity
  BY DEF Level, Least

-----------------------------------------------------------------------------
(* The mutex, the map and the buckets.                                     *)

\* What a goroutine on its way through Allow may rely on.
Local ==
    \A g \in Goroutines :
        /\ pc[g] # "answered" => caller[g] \in Callers
        /\ pc[g] \in {"lock", "find", "insert", "unlock", "take"} => Enabled
        /\ pc[g] = "disabled" => ~Enabled
        /\ pc[g] = "insert" => limiters[caller[g]] = 0

Inv == TypeOK /\ Local /\ MutexGivenBack /\ OneBucketPerCaller

LEMMA InitInv == Init => Inv
<1> SUFFICES ASSUME Init PROVE Inv
  OBVIOUS
<1>1. TypeOK
  BY TimeBound DEF Init, TypeOK, Pcs, Ids
<1> QED
  BY <1>1, NobodyAssumption DEF Init, Inv, Local, MutexGivenBack, OneBucketPerCaller

LEMMA StepInv == Inv /\ [Next]_vars => Inv'
<1> SUFFICES ASSUME Inv, [Next]_vars PROVE Inv'
  OBVIOUS
<1> USE DEF TypeOK, Local, Pcs, Ids
<1>0. /\ TypeOK /\ Local /\ MutexGivenBack /\ OneBucketPerCaller
      /\ perMinute \in Int /\ now \in Nat
  BY QuotasAssumption, TimeBound DEF Inv
<1>1. ASSUME NEW g \in Goroutines, NEW c \in Callers, Call(g, c) PROVE Inv'
  <2>1. TypeOK' /\ Local'
    BY <1>0, <1>1 DEF Call, Goto, limiterVars, Enabled, Capacity, Interval
  <2>2. MutexGivenBack'
    BY <1>0, <1>1 DEF Call, Goto, limiterVars, MutexGivenBack
  <2>3. OneBucketPerCaller'
    BY <1>0, <1>1 DEF Call, Goto, limiterVars, OneBucketPerCaller
  <2> QED
    BY <2>1, <2>2, <2>3 DEF Inv
<1>2. ASSUME NEW g \in Goroutines, Disabled(g) PROVE Inv'
  <2>1. TypeOK' /\ Local'
    BY <1>0, <1>2 DEF Disabled, Answer, Goto, limiterVars, Enabled, Capacity, Interval
  <2>2. MutexGivenBack'
    BY <1>0, <1>2 DEF Disabled, Answer, Goto, limiterVars, MutexGivenBack
  <2>3. OneBucketPerCaller'
    BY <1>0, <1>2 DEF Disabled, Answer, Goto, limiterVars, OneBucketPerCaller
  <2> QED
    BY <2>1, <2>2, <2>3 DEF Inv
<1>3. ASSUME NEW g \in Goroutines, Lock(g) PROVE Inv'
  <2>1. TypeOK' /\ Local'
    BY <1>0, <1>3 DEF Lock, Goto, Enabled, Capacity, Interval
  <2>2. MutexGivenBack'
    BY <1>0, <1>3, NobodyAssumption DEF Lock, CanLock, Goto, MutexGivenBack
  <2>3. OneBucketPerCaller'
    BY <1>0, <1>3 DEF Lock, Goto, OneBucketPerCaller
  <2> QED
    BY <2>1, <2>2, <2>3 DEF Inv
<1>4. ASSUME NEW g \in Goroutines, Find(g) PROVE Inv'
  <2>1. TypeOK' /\ Local'
    BY <1>0, <1>4 DEF Find, Goto, limiterVars, Enabled, Capacity, Interval
  <2>2. MutexGivenBack'
    BY <1>0, <1>4 DEF Find, Goto, limiterVars, MutexGivenBack
  <2>3. OneBucketPerCaller'
    BY <1>0, <1>4 DEF Find, Goto, limiterVars, OneBucketPerCaller
  <2> QED
    BY <2>1, <2>2, <2>3 DEF Inv
<1>5. ASSUME NEW g \in Goroutines, Insert(g) PROVE Inv'
  <2>1. /\ caller[g] \in Callers /\ limiters[caller[g]] = 0 /\ Enabled /\ mu = g
        /\ \A h \in Goroutines \ {g} : pc[h] \notin {"find", "insert", "unlock"}
    BY <1>0, <1>5 DEF Insert, MutexGivenBack
  <2>2. buckets' \in Seq([credit : 0..Capacity, at : 0..now]) /\ Len(buckets') = Len(buckets) + 1
    <3>1. FullBucket \in [credit : 0..Capacity, at : 0..now]
      BY <1>0, <2>1, IntervalType DEF FullBucket
    <3> QED
      BY <1>0, <1>5, <3>1 DEF Insert
  <2>3. TypeOK'
    <3>1. Len(buckets) + 1 \in 0..Len(buckets') /\ Ids \subseteq 0..Len(buckets')
      BY <1>0, <2>2
    <3>2. limiters' \in [Callers -> Ids'] /\ rl' \in [Goroutines -> Ids']
      BY <1>0, <1>5, <3>1 DEF Insert
    <3>3. Capacity' = Capacity
      BY <1>5 DEF Insert, Capacity, Interval
    <3> QED
      BY <1>0, <1>5, <2>2, <3>2, <3>3 DEF Insert, Goto
  <2>4. Local'
    BY <1>0, <1>5, <2>1 DEF Insert, Goto, Enabled
  <2>5. MutexGivenBack'
    BY <1>0, <1>5 DEF Insert, Goto, MutexGivenBack
  <2>6. OneBucketPerCaller'
    <3>1. \A c \in Callers : limiters[c] # Len(buckets) + 1
      BY <1>0
    <3>2. limiters' = [limiters EXCEPT ![caller[g]] = Len(buckets) + 1]
          /\ rl' = [rl EXCEPT ![g] = Len(buckets) + 1] /\ pc' = [pc EXCEPT ![g] = "unlock"]
          /\ caller' = caller
      BY <1>5 DEF Insert, Goto
    <3>3. \A c, d \in Callers : limiters'[c] = limiters'[d] /\ limiters'[c] # 0 => c = d
      BY <1>0, <2>1, <3>1, <3>2 DEF OneBucketPerCaller
    <3>4. \A h \in Goroutines :
              pc'[h] \in {"unlock", "take"} => rl'[h] # 0 /\ rl'[h] = limiters'[caller'[h]]
      <4> SUFFICES ASSUME NEW h \in Goroutines, pc'[h] \in {"unlock", "take"}
                   PROVE rl'[h] # 0 /\ rl'[h] = limiters'[caller'[h]]
        OBVIOUS
      <4>1. CASE h = g
        BY <1>0, <2>1, <3>2, <4>1
      <4>2. CASE h # g
        <5>1. rl[h] # 0 /\ rl[h] = limiters[caller[h]] /\ caller[h] \in Callers
          BY <1>0, <3>2, <4>2 DEF OneBucketPerCaller
        <5> QED
          BY <1>0, <2>1, <3>2, <4>2, <5>1
      <4> QED
        BY <4>1, <4>2
    <3> QED
      BY <3>3, <3>4 DEF OneBucketPerCaller
  <2> QED
    BY <2>3, <2>4, <2>5, <2>6 DEF Inv
<1>6. ASSUME NEW g \in Goroutines, Unlock(g) PROVE Inv'
  <2>1. TypeOK' /\ Local'
    BY <1>0, <1>6 DEF Unlock, Goto, Enabled, Capacity, Interval
  <2>2. MutexGivenBack'
    BY <1>0, <1>6, NobodyAssumption DEF Unlock, Goto, MutexGivenBack
  <2>3. OneBucketPerCaller'
    BY <1>0, <1>6 DEF Unlock, Goto, OneBucketPerCaller
  <2> QED
    BY <2>1, <2>2, <2>3 DEF Inv
<1>7. ASSUME NEW g \in Goroutines, Take(g) PROVE Inv'
  <2>1. caller[g] \in Callers /\ Enabled /\ rl[g] \in 1..Len(buckets)
    BY <1>0, <1>7 DEF Take, OneBucketPerCaller
  <2>2. Capacity \in Nat /\ Interval \in Nat /\ Level(buckets[rl[g]]) \in 0..Capacity
    <3>1. Capacity \in Nat /\ Interval \in Nat
      BY <1>0, <2>1, IntervalType
    <3>2. buckets[rl[g]] \in [credit : 0..Capacity, at : 0..now]
      BY <1>0, <2>1, ElementOfSeq
    <3> QED
      BY <1>0, <3>1, <3>2, LevelType
  <2>3. buckets' \in Seq([credit : 0..Capacity, at : 0..now]) /\ Len(buckets') = Len(buckets)
    <3>1. [credit |-> Level(buckets[rl[g]]) - Interval, at |-> now] \in [credit : 0..Capacity, at : 0..now]
      BY <1>0, <1>7, <2>2 DEF Take
    <3> QED
      BY <1>0, <1>7, <2>1, <3>1 DEF Take
  <2>4. admitted' \in [Callers -> Seq(0..now)]
    <3>1. Append(admitted[caller[g]], now) \in Seq(0..now)
      BY <1>0, <2>1
    <3> QED
      BY <1>0, <1>7, <2>1, <3>1 DEF Take
  <2>5. TypeOK'
    <3>1. Capacity' = Capacity
      BY <1>7 DEF Take, Capacity, Interval
    <3>2. UNCHANGED <<perMinute, now, mu, limiters>>
      BY <1>7 DEF Take
    <3>3. pc' \in [Goroutines -> Pcs] /\ allowed' \in [Goroutines -> BOOLEAN]
      BY <1>0, <1>7 DEF Take, Answer, Goto
    <3>4. caller' \in [Goroutines -> Callers \cup {Nobody}] /\ rl' \in [Goroutines -> Ids]
      BY <1>0, <1>7 DEF Take, Answer, Goto
    <3> QED
      BY <1>0, <2>3, <2>4, <3>1, <3>2, <3>3, <3>4
  <2>6. Local'
    BY <1>0, <1>7 DEF Take, Answer, Goto, Enabled
  <2>7. MutexGivenBack'
    BY <1>0, <1>7 DEF Take, Answer, Goto, MutexGivenBack
  <2>8. OneBucketPerCaller'
    BY <1>0, <1>7 DEF Take, Answer, Goto, OneBucketPerCaller
  <2> QED
    BY <2>5, <2>6, <2>7, <2>8 DEF Inv
<1>8. ASSUME NEW g \in Goroutines, TakeUnlimited(g) \/ Refuse(g) PROVE Inv'
  <2>1. TypeOK' /\ Local'
    <3>1. CASE TakeUnlimited(g)
      BY <1>0, <3>1 DEF TakeUnlimited, Answer, Goto, limiterVars, Enabled, Capacity, Interval
    <3>2. CASE Refuse(g)
      BY <1>0, <3>2 DEF Refuse, Answer, Goto, limiterVars, Enabled, Capacity, Interval
    <3> QED
      BY <1>8, <3>1, <3>2
  <2>2. MutexGivenBack'
    BY <1>0, <1>8 DEF TakeUnlimited, Refuse, Answer, Goto, limiterVars, MutexGivenBack
  <2>3. OneBucketPerCaller'
    <3>1. /\ pc' = [pc EXCEPT ![g] = "answered"]
          /\ caller' = [caller EXCEPT ![g] = Nobody]
          /\ limiters' = limiters
      BY <1>8 DEF TakeUnlimited, Refuse, Answer, Goto, limiterVars
    <3>2. ASSUME NEW h \in Goroutines, pc'[h] \in {"unlock", "take"}
          PROVE  h # g /\ pc'[h] = pc[h] /\ caller'[h] = caller[h]
      BY <1>0, <3>1, <3>2
    <3>3. rl' = [rl EXCEPT ![g] = 0]
      BY <1>8 DEF TakeUnlimited, Refuse, Answer, Goto
    <3> QED
      BY <1>0, <3>1, <3>2, <3>3 DEF OneBucketPerCaller
  <2> QED
    BY <2>1, <2>2, <2>3 DEF Inv
<1>9. CASE Tick
  <2>1. Local' /\ MutexGivenBack' /\ OneBucketPerCaller'
    BY <1>0, <1>9 DEF Tick, limiterVars, callVars, MutexGivenBack, OneBucketPerCaller, Enabled
  <2>2. TypeOK'
    <3>1. Capacity' = Capacity /\ now' = now + 1 /\ now' \in 0..MaxTime /\ 0..now \subseteq 0..now'
      BY <1>0, <1>9, TimeBound DEF Tick, Capacity, Interval
    <3>2. buckets \in Seq([credit : 0..Capacity, at : 0..now'])
      <4>1. [credit : 0..Capacity, at : 0..now] \subseteq [credit : 0..Capacity, at : 0..now']
        BY <3>1
      <4> QED
        BY <1>0, <4>1, SeqMonotonic
    <3>3. admitted \in [Callers -> Seq(0..now')]
      BY <1>0, <3>1
    <3> QED
      BY <1>0, <1>9, <3>1, <3>2, <3>3 DEF Tick, limiterVars, callVars
  <2> QED
    BY <2>1, <2>2 DEF Inv
<1>10. CASE UNCHANGED vars
  BY <1>0, <1>10 DEF Inv, vars, limiterVars, callVars, MutexGivenBack, OneBucketPerCaller,
       Enabled, Capacity, Interval
<1> QED
  BY <1>1, <1>2, <1>3, <1>4, <1>5, <1>6, <1>7, <1>8, <1>9, <1>10 DEF Next, Progress

LEMMA InvHolds == Spec => []Inv
  BY InitInv, StepInv, PTL DEF Spec

\* Every variable keeps its type: no bucket is overdrawn or overfull.
THEOREM TypeCorrect == Spec => []TypeOK
<1>1. Inv => TypeOK
  BY DEF Inv
<1> QED
  BY <1>1, InvHolds, PTL

\* Allow gives its mutex back on every way through it.
THEOREM MutexSafe == Spec => []MutexGivenBack
<1>1. Inv => MutexGivenBack
  BY DEF Inv
<1> QED
  BY <1>1, InvHolds, PTL

\* Callers and buckets correspond one to one, however many calls race to make
\* the first one.
THEOREM BucketsAreOwned == Spec => []OneBucketPerCaller
<1>1. Inv => OneBucketPerCaller
  BY DEF Inv
<1> QED
  BY <1>1, InvHolds, PTL

-----------------------------------------------------------------------------
(* The account of a caller: a are the times of its admissions, t is now, h *)
(* what its bucket holds, I the price of a token and C the size of the     *)
(* bucket.                                                                 *)

\* Since the i-th admission it got no more than a full bucket and the time.
AtMost(a, t, h, I, C) ==
    \A i \in 1..Len(a) : h + (Len(a) - i + 1) * I <= C + (t - a[i])

\* It got at least what came in since the i-th admission (the start, for 0), or
\* the bucket has been full since.
AtLeast(a, t, h, I, C) ==
    \A i \in 0..Len(a) : \/ h + (Len(a) - i) * I >= C
                         \/ i # 0 /\ h + (Len(a) - i) * I >= t - a[i]

\* RateIsBounded, for one caller.
Windows(a, p, I) ==
    \A i, j \in 1..Len(a) : i <= j => (j - i + 1 - p) * I <= a[j] - a[i]

LEMMA Distribute ==
    ASSUME NEW k \in Int, NEW I \in Int
    PROVE  /\ k * I \in Int /\ (k + 1) * I = k * I + I /\ (k - 1) * I = k * I - I
           /\ 0 * I = 0 /\ 1 * I = I
  OBVIOUS

LEMMA Spread ==
    ASSUME NEW k \in Int, NEW p \in Int, NEW I \in Int
    PROVE  (k - p) * I = k * I - p * I
  OBVIOUS

LEMMA Products ==
    ASSUME NEW k \in Nat, NEW I \in Nat
    PROVE  k * I \in Nat
  OBVIOUS

\* A tick, which fills a bucket that is not full.
LEMMA AccountTick ==
    ASSUME NEW a, Len(a) \in Nat, NEW t \in Nat, \A i \in 1..Len(a) : a[i] \in 0..t,
           NEW I \in Nat, NEW C \in Nat, NEW h \in 0..C, NEW k \in 0..C,
           k = h + 1 \/ (h = C /\ k = C),
           AtMost(a, t, h, I, C), AtLeast(a, t, h, I, C)
    PROVE  AtMost(a, t + 1, k, I, C) /\ AtLeast(a, t + 1, k, I, C)
<1>1. ASSUME NEW i \in 1..Len(a) PROVE k + (Len(a) - i + 1) * I <= C + ((t + 1) - a[i])
  <2>1. h + (Len(a) - i + 1) * I <= C + (t - a[i]) /\ a[i] \in 0..t
    BY DEF AtMost
  <2>2. (Len(a) - i + 1) * I \in Int
    BY Distribute
  <2> QED
    BY <2>1, <2>2
<1>2. ASSUME NEW i \in 0..Len(a)
      PROVE  \/ k + (Len(a) - i) * I >= C
             \/ i # 0 /\ k + (Len(a) - i) * I >= (t + 1) - a[i]
  <2>1. \/ h + (Len(a) - i) * I >= C
        \/ i # 0 /\ h + (Len(a) - i) * I >= t - a[i]
    BY DEF AtLeast
  <2>2. (Len(a) - i) * I \in Nat
    BY Products
  <2>3. i # 0 => a[i] \in 0..t
    OBVIOUS
  <2> QED
    BY <2>1, <2>2, <2>3
<1> QED
  BY <1>1, <1>2 DEF AtMost, AtLeast

\* An admission, which costs I.
LEMMA AccountTake ==
    ASSUME NEW t \in Nat, NEW a \in Seq(0..t), NEW I \in Nat, NEW p \in Nat,
           NEW h \in 0..(p * I), h >= I,
           AtMost(a, t, h, I, p * I), AtLeast(a, t, h, I, p * I), Windows(a, p, I)
    PROVE  /\ AtMost(Append(a, t), t, h - I, I, p * I)
           /\ AtLeast(Append(a, t), t, h - I, I, p * I)
           /\ Windows(Append(a, t), p, I)
<1> DEFINE n == Len(a)
           b == Append(a, t)
           C == p * I
<1>1. /\ n \in Nat /\ Len(b) = n + 1 /\ b[n + 1] = t
      /\ \A i \in 1..n : b[i] = a[i] /\ a[i] \in 0..t
      /\ C \in Nat
  BY Products
<1> HIDE DEF n, b, C
<1>2. ASSUME NEW i \in 1..n + 1 PROVE (h - I) + (n + 1 - i + 1) * I <= C + (t - b[i])
  <2>1. CASE i = n + 1
    BY <1>1, <2>1, Distribute DEF C
  <2>2. CASE i # n + 1
    <3>1. i \in 1..n /\ n - i + 1 \in Int
      BY <1>1, <2>2
    <3>2. h + (n - i + 1) * I <= C + (t - a[i])
      BY <3>1 DEF AtMost, n, C
    <3>3. (n + 1 - i + 1) * I = (n - i + 1) * I + I /\ (n - i + 1) * I \in Int
      <4>1. n + 1 - i + 1 = (n - i + 1) + 1
        BY <1>1, <3>1
      <4>2. ((n - i + 1) + 1) * I = (n - i + 1) * I + I /\ (n - i + 1) * I \in Int
        BY ONLY <3>1, I \in Int, Distribute, Zenon
      <4> QED
        BY ONLY <4>1, <4>2, Zenon
    <3> QED
      BY <1>1, <3>1, <3>2, <3>3
  <2> QED
    BY <2>1, <2>2
<1>3. AtMost(b, t, h - I, I, C)
  BY <1>1, <1>2 DEF AtMost
<1>4. ASSUME NEW i \in 0..n + 1
      PROVE  \/ (h - I) + (n + 1 - i) * I >= C
             \/ i # 0 /\ (h - I) + (n + 1 - i) * I >= t - b[i]
  <2>1. CASE i = n + 1
    BY <1>1, <2>1, Distribute
  <2>2. CASE i # n + 1
    <3>1. i \in 0..n /\ n - i \in Int
      BY <1>1, <2>2
    <3>2. \/ h + (n - i) * I >= C
          \/ i # 0 /\ h + (n - i) * I >= t - a[i]
      BY <3>1 DEF AtLeast, n, C
    <3>3. (n + 1 - i) * I = (n - i) * I + I /\ (n - i) * I \in Int
      <4>1. n + 1 - i = (n - i) + 1
        BY <1>1, <3>1
      <4>2. ((n - i) + 1) * I = (n - i) * I + I /\ (n - i) * I \in Int
        BY ONLY <3>1, I \in Int, Distribute, Zenon
      <4> QED
        BY ONLY <4>1, <4>2, Zenon
    <3>4. i # 0 => b[i] = a[i] /\ a[i] \in 0..t
      BY <1>1, <3>1
    <3> QED
      BY <1>1, <3>1, <3>2, <3>3, <3>4
  <2> QED
    BY <2>1, <2>2
<1>5. AtLeast(b, t, h - I, I, C)
  BY <1>1, <1>4 DEF AtLeast
<1>6. ASSUME NEW i \in 1..n + 1, NEW j \in 1..n + 1, i <= j
      PROVE  (j - i + 1 - p) * I <= b[j] - b[i]
  <2>1. CASE j # n + 1
    <3>1. i \in 1..n /\ j \in 1..n
      BY <1>1, <1>6, <2>1
    <3> QED
      BY <1>1, <1>6, <3>1 DEF Windows, n
  <2>2. CASE j = n + 1
    <3>1. (h - I) + (n + 1 - i + 1) * I <= C + (t - b[i])
      BY <1>2
    <3>2. (j - i + 1 - p) * I = (n + 1 - i + 1) * I - C /\ (n + 1 - i + 1) * I \in Int
      BY <1>1, <2>2, Spread, Distribute DEF C
    <3>3. b[i] \in Int /\ b[j] = t
      BY <1>1, <2>2
    <3> QED
      BY <1>1, <3>1, <3>2, <3>3
  <2> QED
    BY <2>1, <2>2
<1>7. Windows(b, p, I)
  BY <1>1, <1>6 DEF Windows
<1> QED
  BY <1>3, <1>5, <1>7 DEF b, C

\* What a bucket with less than a token in it says about the last minute.
LEMMA Spent ==
    ASSUME NEW t \in Nat, NEW a \in Seq(0..t), NEW I \in Nat, NEW p \in Nat \ {0},
           NEW M \in Nat, p * I <= M, NEW h \in Nat, h < I, AtLeast(a, t, h, I, p * I)
    PROVE  Len(a) >= p /\ a[Len(a) - p + 1] > t - M
<1> DEFINE n == Len(a)
<1>1. n \in Nat /\ \A i \in 1..n : a[i] \in 0..t
  OBVIOUS
<1> HIDE DEF n
<1>2. (p - 1) * I = p * I - I /\ p * I \in Nat
  BY Distribute, Products
<1>3. n >= p
  <2>1. h + (n - 0) * I >= p * I
    BY <1>1 DEF AtLeast, n
  <2>2. ASSUME n < p PROVE FALSE
    <3>1. p - 1 - n \in Nat
      BY <1>1, <2>2
    <3>2. (p - 1 - n) * I \in Nat
      BY <3>1, Products
    <3>3. (p - 1 - n) * I = (p - 1) * I - n * I /\ n * I \in Int
      BY <1>1, Spread
    <3> QED
      BY <1>1, <1>2, <2>1, <3>2, <3>3
  <2> QED
    BY <1>1, <2>2
<1>4. n - p + 1 \in 1..n
  BY <1>1, <1>3
<1>5. \/ h + (n - (n - p + 1)) * I >= p * I
      \/ h + (n - (n - p + 1)) * I >= t - a[n - p + 1]
  <2>1. n - p + 1 \in 0..n /\ n - p + 1 # 0
    BY <1>1, <1>4
  <2>2. AtLeast(a, t, h, I, p * I)
    OBVIOUS
  <2> QED
    BY ONLY <2>1, <2>2, Zenon DEF AtLeast, n
<1>6. n - (n - p + 1) = p - 1
  BY <1>1
<1>7. h + (p - 1) * I >= t - a[n - p + 1]
  BY <1>1, <1>2, <1>5, <1>6
<1>8. a[n - p + 1] > t - M
  BY <1>1, <1>2, <1>4, <1>7
<1> QED
  BY <1>3, <1>8 DEF n

-----------------------------------------------------------------------------
(* The buckets of the Limiter keep the accounts of its callers.            *)

\* What the bucket of c holds, or would if it were there already.
Held(c) == IF limiters[c] = 0 THEN Capacity ELSE Level(buckets[limiters[c]])

Ledger ==
    \A c \in Callers :
        /\ admitted[c] # <<>> => Enabled /\ limiters[c] # 0
        /\ Enabled => /\ AtMost(admitted[c], now, Held(c), Interval, Capacity)
                      /\ AtLeast(admitted[c], now, Held(c), Interval, Capacity)
                      /\ Windows(admitted[c], perMinute, Interval)

LEMMA HeldType ==
    ASSUME Inv, Enabled, NEW c \in Callers
    PROVE  /\ Held(c) \in 0..Capacity /\ Capacity = perMinute * Interval
           /\ perMinute \in Nat \ {0} /\ Interval \in Nat /\ Capacity \in Nat
           /\ now \in Nat /\ limiters[c] \in 0..Len(buckets)
           /\ limiters[c] # 0 => buckets[limiters[c]] \in [credit : 0..Capacity, at : 0..now]
<1>1. TypeOK /\ perMinute \in Int /\ now \in Nat
  BY QuotasAssumption, TimeBound DEF Inv, TypeOK
<1>2. perMinute \in Nat \ {0} /\ Interval \in Nat /\ Capacity \in Nat /\ Capacity = perMinute * Interval
  BY <1>1, IntervalType DEF Enabled
<1>3. limiters[c] \in 0..Len(buckets)
  BY <1>1 DEF TypeOK, Ids
<1>4. limiters[c] # 0 => buckets[limiters[c]] \in [credit : 0..Capacity, at : 0..now]
  <2> SUFFICES ASSUME limiters[c] # 0
               PROVE buckets[limiters[c]] \in [credit : 0..Capacity, at : 0..now]
    OBVIOUS
  <2>1. limiters[c] \in 1..Len(buckets)
    BY <1>1, <1>3 DEF TypeOK
  <2> QED
    BY <1>1, <2>1, ElementOfSeq DEF TypeOK
<1>5. Held(c) \in 0..Capacity
  BY <1>1, <1>2, <1>4, LevelType DEF Held
<1> QED
  BY <1>1, <1>2, <1>3, <1>4, <1>5

\* What a step does to the buckets.
LEMMA HeldTake ==
    ASSUME Inv, NEW g \in Goroutines, Take(g), NEW c \in Callers
    PROVE  /\ caller[g] \in Callers /\ Enabled
           /\ Held(caller[g]) = Level(buckets[rl[g]])
           /\ Held(c)' = (IF c = caller[g] THEN Held(c) - Interval ELSE Held(c))
<1>1. /\ caller[g] \in Callers /\ Enabled /\ TypeOK /\ perMinute \in Int /\ now \in Nat
      /\ rl[g] = limiters[caller[g]] /\ rl[g] # 0
      /\ c # caller[g] /\ limiters[c] # 0 => limiters[c] # rl[g]
  BY QuotasAssumption, TimeBound DEF Take, Inv, Local, OneBucketPerCaller, TypeOK
<1>2. /\ Capacity \in Nat /\ Interval \in Nat /\ Level(buckets[rl[g]]) \in 0..Capacity
      /\ rl[g] \in 1..Len(buckets) /\ Held(caller[g]) = Level(buckets[rl[g]])
  <2>1. Held(caller[g]) = Level(buckets[rl[g]])
    BY <1>1 DEF Held
  <2> QED
    BY <1>1, <2>1, HeldType
<1>3. /\ buckets' = [buckets EXCEPT ![rl[g]] = [credit |-> Level(buckets[rl[g]]) - Interval, at |-> now]]
      /\ now' = now /\ limiters' = limiters /\ perMinute' = perMinute
      /\ Level(buckets[rl[g]]) >= Interval
  BY DEF Take
<1>4. Capacity' = Capacity
  BY <1>3 DEF Capacity, Interval
<1>5. CASE c = caller[g]
  <2> DEFINE l == Level(buckets[rl[g]]) - Interval
  <2>1. l \in 0..Capacity
    BY <1>2, <1>3
  <2>2. buckets'[limiters'[c]] = [credit |-> l, at |-> now]
    BY <1>1, <1>2, <1>3, <1>5 DEF TypeOK
  <2> HIDE DEF l
  <2>3. Held(c)' = Least(Capacity', buckets'[limiters'[c]].credit + (now' - buckets'[limiters'[c]].at))
    BY <1>1, <1>3, <1>5 DEF Held, Level
  <2>4. Held(c)' = Least(Capacity', l + (now' - now))
    BY <2>2, <2>3
  <2> QED
    BY <1>1, <1>2, <1>3, <1>4, <1>5, <2>1, <2>4 DEF Least, l
<1>6. CASE c # caller[g]
  <2>1. limiters[c] # 0 => buckets'[limiters[c]] = buckets[limiters[c]]
    <3>1. limiters[c] \in 0..Len(buckets)
      BY <1>1, HeldType
    <3> QED
      BY <1>1, <1>2, <1>3, <1>6, <3>1 DEF TypeOK
  <2> QED
    BY <1>1, <1>2, <1>3, <1>4, <1>6, <2>1 DEF Held, Level, Least
<1> QED
  BY <1>1, <1>2, <1>5, <1>6

LEMMA HeldInsert ==
    ASSUME Inv, NEW g \in Goroutines, Insert(g), NEW c \in Callers
    PROVE  Held(c)' = Held(c)
<1>1. /\ caller[g] \in Callers /\ Enabled /\ TypeOK /\ limiters[caller[g]] = 0
  BY DEF Insert, Inv, Local
<1>2. /\ limiters[c] \in 0..Len(buckets) /\ Capacity \in Nat /\ now \in Nat
  BY <1>1, HeldType
<1>3. /\ buckets' = Append(buckets, FullBucket) /\ now' = now /\ perMinute' = perMinute
      /\ limiters' = [limiters EXCEPT ![caller[g]] = Len(buckets) + 1]
  BY DEF Insert
<1>4. Capacity' = Capacity
  BY <1>3 DEF Capacity, Interval
<1>5. CASE c = caller[g]
  <2>1. limiters'[c] = Len(buckets) + 1 /\ limiters'[c] # 0
    BY <1>1, <1>3, <1>5 DEF TypeOK
  <2>2. buckets'[limiters'[c]] = [credit |-> Capacity, at |-> now]
    BY <1>1, <1>3, <2>1 DEF TypeOK, FullBucket
  <2>3. Held(c)' = Least(Capacity', buckets'[limiters'[c]].credit + (now' - buckets'[limiters'[c]].at))
    BY <2>1 DEF Held, Level
  <2>4. Held(c)' = Least(Capacity', Capacity + (now' - now))
    BY <2>2, <2>3
  <2> QED
    BY <1>1, <1>2, <1>3, <1>4, <1>5, <2>4 DEF Least, Held
<1>6. CASE c # caller[g]
  <2>1. limiters'[c] = limiters[c]
    BY <1>1, <1>3, <1>6 DEF TypeOK
  <2>2. limiters[c] # 0 => buckets'[limiters[c]] = buckets[limiters[c]]
    BY <1>1, <1>2, <1>3 DEF TypeOK
  <2>3. now' = now
    BY <1>3
  <2>4. CASE limiters[c] = 0
    BY ONLY <1>4, <2>1, <2>4 DEF Held
  <2>5. CASE limiters[c] # 0
    BY ONLY <1>4, <2>1, <2>2, <2>3, <2>5 DEF Held, Level, Least
  <2> QED
    BY <2>4, <2>5
<1> QED
  BY <1>5, <1>6

LEMMA HeldTick ==
    ASSUME Inv, Enabled, Tick, NEW c \in Callers
    PROVE  Held(c)' = (IF Held(c) < Capacity THEN Held(c) + 1 ELSE Held(c))
<1>1. /\ now' = now + 1 /\ limiters' = limiters /\ buckets' = buckets /\ perMinute' = perMinute
      /\ Capacity' = Capacity
  BY DEF Tick, limiterVars, Capacity, Interval
<1>2. /\ Capacity \in Nat /\ now \in Nat
      /\ limiters[c] # 0 => buckets[limiters[c]] \in [credit : 0..Capacity, at : 0..now]
  BY HeldType
<1>3. CASE limiters[c] = 0
  BY <1>1, <1>2, <1>3 DEF Held
<1>4. CASE limiters[c] # 0
  <2> DEFINE b == buckets[limiters[c]]
  <2>1. b.credit \in 0..Capacity /\ b.at \in 0..now
    BY <1>2, <1>4
  <2>2. /\ Held(c) = Least(Capacity, b.credit + (now - b.at))
        /\ Held(c)' = Least(Capacity, b.credit + ((now + 1) - b.at))
    BY <1>1, <1>4 DEF Held, Level
  <2> HIDE DEF b
  <2> QED
    BY <1>2, <2>1, <2>2 DEF Least
<1> QED
  BY <1>3, <1>4

LEMMA InitLedger == Init => Ledger
<1> SUFFICES ASSUME Init, NEW c \in Callers
             PROVE  /\ admitted[c] = <<>> /\ limiters[c] = 0
                    /\ Enabled => /\ AtMost(<<>>, now, Capacity, Interval, Capacity)
                                  /\ AtLeast(<<>>, now, Capacity, Interval, Capacity)
                                  /\ Windows(<<>>, perMinute, Interval)
  BY DEF Ledger, Held, Init
<1>1. admitted[c] = <<>> /\ limiters[c] = 0 /\ now = 0
  BY DEF Init
<1>2. ASSUME Enabled PROVE AtLeast(<<>>, now, Capacity, Interval, Capacity)
  <2>1. Capacity \in Nat /\ Interval \in Nat
    BY <1>2, IntervalType, QuotasAssumption DEF Init
  <2>2. (0 - 0) * Interval = 0
    BY <2>1
  <2> QED
    BY <2>1, <2>2 DEF AtLeast
<1> QED
  BY <1>1, <1>2 DEF AtMost, Windows

LEMMA StepLedger == Inv /\ Ledger /\ [Next]_vars => Ledger'
<1> SUFFICES ASSUME Inv, Ledger, [Next]_vars, NEW c \in Callers
             PROVE  /\ admitted'[c] # <<>> => Enabled' /\ limiters'[c] # 0
                    /\ Enabled' => /\ AtMost(admitted'[c], now', Held(c)', Interval', Capacity')
                                   /\ AtLeast(admitted'[c], now', Held(c)', Interval', Capacity')
                                   /\ Windows(admitted'[c], perMinute', Interval')
  BY DEF Ledger, AtMost, AtLeast, Windows
<1>1. /\ admitted[c] # <<>> => Enabled /\ limiters[c] # 0
      /\ Enabled => /\ AtMost(admitted[c], now, Held(c), Interval, Capacity)
                    /\ AtLeast(admitted[c], now, Held(c), Interval, Capacity)
                    /\ Windows(admitted[c], perMinute, Interval)
  BY DEF Ledger
<1>2. perMinute' = perMinute => Enabled' = Enabled /\ Interval' = Interval /\ Capacity' = Capacity
  BY DEF Enabled, Interval, Capacity
<1>3. /\ admitted[c] \in Seq(0..now) /\ admitted \in [Callers -> Seq(0..now)]
      /\ limiters \in [Callers -> 0..Len(buckets)]
  BY DEF Inv, TypeOK, Ids
<1>4. ASSUME UNCHANGED <<perMinute, now, limiters, buckets, admitted>> PROVE Ledger'
  BY <1>4 DEF Ledger, Held, Level, Least, Enabled, Interval, Capacity, AtMost, AtLeast, Windows
<1>5. ASSUME NEW g \in Goroutines, Insert(g)
      PROVE  /\ admitted'[c] # <<>> => Enabled' /\ limiters'[c] # 0
             /\ Enabled' => /\ AtMost(admitted'[c], now', Held(c)', Interval', Capacity')
                            /\ AtLeast(admitted'[c], now', Held(c)', Interval', Capacity')
                            /\ Windows(admitted'[c], perMinute', Interval')
  <2>1. Held(c)' = Held(c)
    BY <1>5, HeldInsert
  <2>2. admitted' = admitted /\ now' = now /\ perMinute' = perMinute
    BY <1>5 DEF Insert
  <2>3. limiters'[c] = 0 => limiters[c] = 0
    BY <1>3, <1>5 DEF Insert
  <2> QED
    BY <1>1, <1>2, <2>1, <2>2, <2>3
<1>6. ASSUME NEW g \in Goroutines, Take(g)
      PROVE  /\ admitted'[c] # <<>> => Enabled' /\ limiters'[c] # 0
             /\ Enabled' => /\ AtMost(admitted'[c], now', Held(c)', Interval', Capacity')
                            /\ AtLeast(admitted'[c], now', Held(c)', Interval', Capacity')
                            /\ Windows(admitted'[c], perMinute', Interval')
  <2>1. /\ now' = now /\ perMinute' = perMinute /\ limiters' = limiters
        /\ admitted' = [admitted EXCEPT ![caller[g]] = Append(@, now)]
        /\ Level(buckets[rl[g]]) >= Interval
    BY <1>6 DEF Take
  <2>2. /\ caller[g] \in Callers /\ Enabled
        /\ Held(caller[g]) = Level(buckets[rl[g]])
        /\ Held(c)' = (IF c = caller[g] THEN Held(c) - Interval ELSE Held(c))
    BY <1>6, HeldTake
  <2>3. CASE c # caller[g]
    BY <1>1, <1>2, <1>3, <2>1, <2>2, <2>3
  <2>4. CASE c = caller[g]
    <3>1. admitted'[c] = Append(admitted[c], now) /\ Held(c)' = Held(c) - Interval
          /\ Held(c) >= Interval
      BY <1>3, <2>1, <2>2, <2>4
    <3>2. limiters[c] # 0
      <4>1. pc[g] = "take" /\ rl[g] # 0 /\ rl[g] = limiters[caller[g]]
        BY <1>6 DEF Take, Inv, OneBucketPerCaller
      <4> QED
        BY <2>4, <4>1
    <3>3. /\ Held(c) \in 0..Capacity /\ Capacity = perMinute * Interval
          /\ perMinute \in Nat /\ Interval \in Nat /\ now \in Nat
      BY <2>2, HeldType
    <3>4. /\ AtMost(Append(admitted[c], now), now, Held(c) - Interval, Interval, Capacity)
          /\ AtLeast(Append(admitted[c], now), now, Held(c) - Interval, Interval, Capacity)
          /\ Windows(Append(admitted[c], now), perMinute, Interval)
      BY <1>1, <1>3, <2>2, <3>1, <3>3, AccountTake
    <3> QED
      BY <1>2, <2>1, <2>2, <3>1, <3>2, <3>4
  <2> QED
    BY <2>3, <2>4
<1>7. ASSUME Tick
      PROVE  /\ admitted'[c] # <<>> => Enabled' /\ limiters'[c] # 0
             /\ Enabled' => /\ AtMost(admitted'[c], now', Held(c)', Interval', Capacity')
                            /\ AtLeast(admitted'[c], now', Held(c)', Interval', Capacity')
                            /\ Windows(admitted'[c], perMinute', Interval')
  <2>1. /\ now' = now + 1 /\ perMinute' = perMinute /\ limiters' = limiters /\ admitted' = admitted
    BY <1>7 DEF Tick, limiterVars
  <2>2. ASSUME Enabled
        PROVE  /\ AtMost(admitted[c], now + 1, Held(c)', Interval, Capacity)
               /\ AtLeast(admitted[c], now + 1, Held(c)', Interval, Capacity)
    <3>1. Held(c)' = (IF Held(c) < Capacity THEN Held(c) + 1 ELSE Held(c))
      BY <1>7, <2>2, HeldTick
    <3>2. /\ Held(c) \in 0..Capacity /\ Capacity \in Nat
          /\ Interval \in Nat /\ now \in Nat
      BY <2>2, HeldType
    <3>3. /\ Held(c)' \in 0..Capacity
          /\ Held(c)' = Held(c) + 1 \/ (Held(c) = Capacity /\ Held(c)' = Capacity)
      BY <3>1, <3>2
    <3>4. Len(admitted[c]) \in Nat /\ \A i \in 1..Len(admitted[c]) : admitted[c][i] \in 0..now
      BY ONLY <1>3, LenProperties, ElementOfSeq, Zenon
    <3> QED
      BY <1>1, <2>2, <3>2, <3>3, <3>4, AccountTick
  <2> QED
    BY <1>1, <1>2, <2>1, <2>2
<1>8. CASE UNCHANGED <<perMinute, now, limiters, buckets, admitted>>
  BY <1>4, <1>8 DEF Ledger
<1>9. ASSUME \/ UNCHANGED vars
             \/ \E g \in Goroutines, d \in Callers : Call(g, d)
             \/ \E g \in Goroutines : Disabled(g) \/ Lock(g) \/ Find(g) \/ Unlock(g)
                                      \/ TakeUnlimited(g) \/ Refuse(g)
      PROVE  UNCHANGED <<perMinute, now, limiters, buckets, admitted>>
  BY <1>9 DEF vars, limiterVars, Call, Disabled, Lock, Find, Unlock, TakeUnlimited, Refuse
<1> QED
  BY <1>5, <1>6, <1>7, <1>8, <1>9 DEF Next, Progress

LEMMA LedgerHolds == Spec => [](Inv /\ Ledger)
  BY InitInv, StepInv, InitLedger, StepLedger, PTL DEF Spec

\* In every window of time a caller gets a full bucket and what the rate gives,
\* however its calls are spread over goroutines.
THEOREM RateBounded == Spec => []RateIsBounded
<1>1. Inv /\ Ledger => RateIsBounded
  <2> SUFFICES ASSUME Inv, Ledger, NEW c \in Callers, NEW i \in DOMAIN admitted[c],
                      NEW j \in DOMAIN admitted[c], i <= j
               PROVE  (j - i + 1 - perMinute) * Interval <= admitted[c][j] - admitted[c][i]
    BY DEF RateIsBounded
  <2>1. admitted[c] \in Seq(0..now)
    BY DEF Inv, TypeOK
  <2>2. DOMAIN admitted[c] = 1..Len(admitted[c]) /\ admitted[c] # <<>>
    BY <2>1
  <2>3. Windows(admitted[c], perMinute, Interval)
    BY <2>2 DEF Ledger
  <2> QED
    BY <2>2, <2>3 DEF Windows
<1> QED
  BY <1>1, LedgerHolds, PTL

LEMMA QuotaFitsMinute ==
    ASSUME perMinute \in Nat \ {0}
    PROVE  perMinute * Interval <= Minute
  BY MinuteAssumption DEF Interval

\* Who is refused has used up its own quota within the last minute.
THEOREM RefusalsAreFair == Spec => RefusedOnlyWhenSpent
<1>1. Inv /\ Ledger /\ [Next]_vars =>
          [\A g \in Goroutines :
              pc[g] # "answered" /\ pc'[g] = "answered" /\ ~allowed'[g] =>
                  LET a == admitted[caller[g]]
                  IN  Len(a) >= perMinute /\ a[Len(a) - perMinute + 1] > now - Minute]_vars
  <2> SUFFICES ASSUME Inv, Ledger, [Next]_vars, NEW g \in Goroutines,
                      pc[g] # "answered", pc'[g] = "answered", ~allowed'[g]
               PROVE  /\ Len(admitted[caller[g]]) >= perMinute
                      /\ admitted[caller[g]][Len(admitted[caller[g]]) - perMinute + 1] > now - Minute
    BY DEF vars
  <2>1. pc \in [Goroutines -> Pcs] /\ allowed \in [Goroutines -> BOOLEAN]
    BY DEF Inv, TypeOK
  <2>2. Refuse(g)
    BY <2>1 DEF Next, Progress, Call, Disabled, Lock, Find, Insert, Unlock, Take, TakeUnlimited,
         Refuse, Tick, Answer, Goto, vars, callVars
  <2>3. /\ caller[g] \in Callers /\ Enabled /\ rl[g] # 0 /\ rl[g] = limiters[caller[g]]
        /\ Level(buckets[rl[g]]) < Interval
    BY <2>2 DEF Refuse, Inv, Local, OneBucketPerCaller
  <2>4. /\ Held(caller[g]) \in 0..Capacity /\ Capacity = perMinute * Interval
        /\ perMinute \in Nat \ {0} /\ Interval \in Nat /\ now \in Nat /\ Capacity \in Nat
    BY <2>3, HeldType
  <2>5. Held(caller[g]) = Level(buckets[rl[g]])
    BY <2>3 DEF Held
  <2>6. AtLeast(admitted[caller[g]], now, Held(caller[g]), Interval, perMinute * Interval)
    BY <2>3, <2>4 DEF Ledger
  <2>7. admitted[caller[g]] \in Seq(0..now)
    BY <2>3 DEF Inv, TypeOK
  <2>8. perMinute * Interval <= Minute /\ Minute \in Nat
    BY <2>4, QuotaFitsMinute, MinuteAssumption
  <2>9. Held(caller[g]) \in Nat /\ Held(caller[g]) < Interval
    BY <2>3, <2>4, <2>5
  <2> QED
    BY <2>4, <2>6, <2>7, <2>8, <2>9, Spent
<1> QED
  BY <1>1, LedgerHolds, PTL DEF Spec, RefusedOnlyWhenSpent

-----------------------------------------------------------------------------
(* RateLimiter implements QuotaOracle.                                     *)

Credit == [c \in Callers |-> CreditOf(c)]

Limited == Enabled /\ Interval > 0

LEMMA CreditIsHeld ==
    ASSUME Inv, NEW c \in Callers
    PROVE  /\ CreditOf(c) = (IF Limited THEN Held(c) ELSE 0)
           /\ Unlimited <=> (Enabled /\ ~Limited)
<1>1. Enabled => Interval \in Nat
  BY HeldType
<1> QED
  BY <1>1 DEF CreditOf, Unlimited, Limited, Held

\* What is held changes only when a token is taken and when time passes.
LEMMA CreditKept ==
    ASSUME Inv, perMinute' = perMinute, now' = now,
           \/ limiters' = limiters /\ buckets' = buckets
           \/ \E g \in Goroutines : Insert(g)
    PROVE  UNCHANGED Credit
<1>1. Interval' = Interval /\ Capacity' = Capacity /\ Enabled' = Enabled
      /\ Unlimited' = Unlimited
  BY DEF Interval, Capacity, Enabled, Unlimited
<1>2. ASSUME NEW c \in Callers PROVE Held(c)' = Held(c)
  <2>1. CASE limiters' = limiters /\ buckets' = buckets
    BY <1>1, <2>1 DEF Held, Level, Least
  <2> QED
    BY <2>1, HeldInsert
<1>3. ASSUME NEW c \in Callers PROVE CreditOf(c)' = CreditOf(c)
  BY <1>1, <1>2, <1>3 DEF CreditOf, Held
<1> QED
  BY <1>3 DEF Credit

LEMMA InitRefines == Init => Oracle!Init
<1> SUFFICES ASSUME Init PROVE Oracle!Init
  OBVIOUS
<1>1. Inv /\ \A c \in Callers : limiters[c] = 0
  BY InitInv DEF Init
<1>2. ASSUME NEW c \in Callers PROVE CreditOf(c) = (IF Limited THEN Capacity ELSE 0)
  BY <1>1, CreditIsHeld DEF Held
<1>3. Credit = [c \in Callers |-> IF Limited THEN Capacity ELSE 0]
  BY <1>2 DEF Credit
<1> QED
  BY <1>3 DEF Init, Oracle!Init, Oracle!Limited, Oracle!Interval, Oracle!Capacity, Phase,
     Credit, Limited, Enabled, Interval, Capacity

LEMMA StepRefines == Inv /\ [Next]_vars => [Oracle!Next]_(Oracle!vars)
<1> SUFFICES ASSUME Inv, [Next]_vars PROVE [Oracle!Next]_(Oracle!vars)
  OBVIOUS
<1> USE DEF Credit
<1>0. /\ TypeOK /\ Local /\ perMinute \in Int
  BY QuotasAssumption DEF Inv, TypeOK
<1>1. ASSUME NEW g \in Goroutines, NEW c \in Callers, Call(g, c) PROVE Oracle!Ask(g, c)
  <2>1. UNCHANGED Credit
    BY <1>1, CreditKept DEF Call, limiterVars
  <2>2. Phase' = [Phase EXCEPT ![g] = "asking"]
    BY <1>0, <1>1 DEF Call, Goto, Phase, TypeOK
  <2> QED
    BY <1>1, <2>1, <2>2 DEF Call, Oracle!Ask, Phase
<1>2. ASSUME NEW g \in Goroutines, NEW yes \in BOOLEAN, Answer(g, yes), pc[g] # "answered",
             perMinute' = perMinute, now' = now
      PROVE  Oracle!Decide(g, yes)
  <2>1. Phase' = [Phase EXCEPT ![g] = "answered"]
    BY <1>0, <1>2 DEF Answer, Goto, Phase, TypeOK
  <2> QED
    BY <1>2, <2>1 DEF Answer, Oracle!Decide, Phase
<1>3. ASSUME NEW g \in Goroutines, Disabled(g) \/ TakeUnlimited(g) PROVE Oracle!Admit(g)
  <2>1. Oracle!Decide(g, TRUE)
    BY <1>2, <1>3 DEF Disabled, TakeUnlimited
  <2>2. UNCHANGED Credit
    BY <1>3, CreditKept DEF Disabled, TakeUnlimited, limiterVars
  <2>3. ~Oracle!Limited
    <3>1. ~Enabled \/ Unlimited
      BY <1>0, <1>3 DEF Disabled, TakeUnlimited, Local
    <3>2. Oracle!Limited <=> (Enabled /\ Interval > 0)
      BY DEF Oracle!Limited, Oracle!Interval, Enabled, Interval
    <3>3. Unlimited => ~(Interval > 0)
      BY DEF Unlimited
    <3> QED
      BY <3>1, <3>2, <3>3
  <2> QED
    BY <2>1, <2>2, <2>3 DEF Oracle!Admit
<1>4. ASSUME NEW g \in Goroutines, Take(g) PROVE Oracle!Admit(g)
  <2>1. Oracle!Decide(g, TRUE)
    BY <1>2, <1>4 DEF Take
  <2>2. /\ caller[g] \in Callers /\ Enabled /\ ~Unlimited
        /\ Interval <= Held(caller[g])
        /\ perMinute' = perMinute
    <3>1. caller[g] \in Callers /\ Level(buckets[rl[g]]) >= Interval
      BY <1>0, <1>4 DEF Take, Local
    <3>2. Enabled /\ Held(caller[g]) = Level(buckets[rl[g]])
      BY <1>4, <3>1, HeldTake
    <3> QED
      BY <1>4, <3>1, <3>2 DEF Take
  <2>3. Limited /\ Credit[caller[g]] = Held(caller[g]) /\ Oracle!Limited
    BY <1>0, <2>2, CreditIsHeld DEF Limited, Oracle!Limited, Oracle!Interval, Enabled, Interval
  <2>4. ASSUME NEW c \in Callers
        PROVE  CreditOf(c)' = (IF c = caller[g] THEN CreditOf(c) - Interval ELSE CreditOf(c))
    <3>1. Enabled' /\ ~Unlimited'
      BY <2>2 DEF Enabled, Unlimited, Interval
    <3>2. CreditOf(c)' = Held(c)' /\ CreditOf(c) = Held(c)
      BY <2>2, <3>1 DEF CreditOf, Held
    <3>3. Held(c)' = (IF c = caller[g] THEN Held(c) - Interval ELSE Held(c))
      BY <1>4, HeldTake
    <3> QED
      BY ONLY <3>2, <3>3
  <2>5. Credit' = [Credit EXCEPT ![caller[g]] = @ - Interval]
    BY <2>2, <2>4
  <2> QED
    BY <2>1, <2>2, <2>3, <2>5 DEF Oracle!Admit, Oracle!Interval, Interval
<1>5. ASSUME NEW g \in Goroutines, Refuse(g) PROVE Oracle!Refuse(g)
  <2>1. Oracle!Decide(g, FALSE)
    BY <1>2, <1>5 DEF Refuse
  <2>2. UNCHANGED Credit
    BY <1>5, CreditKept DEF Refuse, limiterVars
  <2>3. /\ caller[g] \in Callers /\ Enabled /\ ~Unlimited
        /\ Held(caller[g]) = Level(buckets[rl[g]]) /\ Level(buckets[rl[g]]) < Interval
    BY <1>0, <1>5 DEF Refuse, Inv, Local, OneBucketPerCaller, Held
  <2>4. Limited /\ Credit[caller[g]] < Interval /\ Oracle!Limited
    BY <1>0, <2>3, CreditIsHeld DEF Limited, Oracle!Limited, Oracle!Interval, Enabled, Interval
  <2> QED
    BY <2>1, <2>2, <2>4 DEF Oracle!Refuse, Oracle!Interval, Interval
<1>6. ASSUME NEW g \in Goroutines, Lock(g) \/ Find(g) \/ Insert(g) \/ Unlock(g)
      PROVE  UNCHANGED Oracle!vars
  <2>1. UNCHANGED Credit
    <3>1. CASE Insert(g)
      BY <3>1, CreditKept DEF Insert
    <3>2. CASE Lock(g) \/ Find(g) \/ Unlock(g)
      BY <3>2, CreditKept DEF Lock, Find, Unlock, limiterVars
    <3> QED
      BY <1>6, <3>1, <3>2
  <2>2. Phase' = Phase
    BY <1>0, <1>6 DEF Lock, Find, Insert, Unlock, Goto, Phase, TypeOK
  <2> QED
    BY <1>6, <2>1, <2>2 DEF Lock, Find, Insert, Unlock, Oracle!vars
<1>7. ASSUME Tick PROVE Oracle!Tick
  <2>1. /\ now' = now + 1 /\ perMinute' = perMinute /\ limiters' = limiters /\ buckets' = buckets
        /\ Phase' = Phase
    BY <1>7 DEF Tick, limiterVars, callVars, Phase
  <2>2. Oracle!Limited <=> Limited
    BY <1>0 DEF Limited, Oracle!Limited, Oracle!Interval, Enabled, Interval
  <2>3. Oracle!Capacity = Capacity
    BY DEF Oracle!Capacity, Oracle!Interval, Capacity, Interval
  <2>4. ASSUME NEW c \in Callers
        PROVE  CreditOf(c)' = (IF Limited /\ CreditOf(c) < Capacity THEN CreditOf(c) + 1
                               ELSE CreditOf(c))
    <3>1. (Enabled' <=> Enabled) /\ (Unlimited' <=> Unlimited)
      BY <2>1 DEF Enabled, Unlimited, Interval
    <3>2. CreditOf(c) = (IF Limited THEN Held(c) ELSE 0) /\ (Unlimited <=> (Enabled /\ ~Limited))
      BY CreditIsHeld
    <3>3. Limited => Enabled /\ ~Unlimited
      BY <3>2 DEF Limited
    <3>4. CASE Limited
      <4>1. CreditOf(c)' = Held(c)'
        BY <3>1, <3>3, <3>4 DEF CreditOf, Held
      <4> QED
        BY <1>7, <3>2, <3>3, <3>4, <4>1, HeldTick
    <3>5. CASE ~Limited
      <4>1. CreditOf(c)' = 0
        BY <3>1, <3>2, <3>5 DEF CreditOf
      <4> QED
        BY <3>2, <3>5, <4>1
    <3> QED
      BY <3>4, <3>5
  <2>5. Credit' = [c \in Callers |-> IF Oracle!Limited /\ Credit[c] < Oracle!Capacity
                                     THEN Credit[c] + 1 ELSE Credit[c]]
    BY <2>2, <2>3, <2>4
  <2> QED
    BY <1>7, <2>1, <2>5 DEF Oracle!Tick, Tick, callVars
<1>8. CASE UNCHANGED vars
  <2>1. UNCHANGED Credit
    BY <1>8, CreditKept DEF vars, limiterVars
  <2> QED
    BY <1>8, <2>1 DEF vars, callVars, Oracle!vars, Phase
<1> QED
  BY <1>1, <1>3, <1>4, <1>5, <1>6, <1>7, <1>8 DEF Next, Progress, Oracle!Next

\* To its callers, the Limiter is a set of full buckets, one for each of them,
\* that decides every call in one step.
THEOREM KeepsTheQuotaAlways == Spec => KeepsTheQuota
  BY InitRefines, StepRefines, InvHolds, PTL DEF Spec, KeepsTheQuota, Oracle!Spec
=============================================================================
