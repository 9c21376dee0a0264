\* Two goroutines and two callers, for more than a minute of three ticks.
CONSTANTS
    Callers = {c1, c2}
    Goroutines = {g1, g2}
    Nobody = Nobody
    Quotas <- MCQuotas
    Minute = 3
    MaxTime = 4
SPECIFICATION Spec
SYMMETRY Symmetry
INVARIANTS TypeOK OneBucketPerCaller RateIsBounded
PROPERTIES RefusedOnlyWhenSpent KeepsTheQuota
