---------------------------- MODULE QuotaOracle ----------------------------
(***************************************************************************)
(* What a Limiter promises, without its mutex, its map and its lazily      *)
(* filled buckets: every caller has a bucket of its own from the start, it *)
(* fills by one tick's worth with every tick of the clock, and a call is   *)
(* decided in one step: it takes a whole token or is refused for want of   *)
(* one.                                                                    *)
(***************************************************************************)
EXTENDS Integers

CONSTANTS Callers, Goroutines, Nobody, Quotas, Minute, MaxTime

VARIABLES perMinute, now, credit, phase, caller, allowed

vars == <<perMinute, now, credit, phase, caller, allowed>>

Interval == Minute \div perMinute

Capacity == perMinute * Interval

Limited == perMinute > 0 /\ Interval > 0

Ask(g, c) ==
    /\ phase[g] = "answered"
    /\ phase' = [phase EXCEPT ![g] = "asking"]
    /\ caller' = [caller EXCEPT ![g] = c]
    /\ allowed' = [allowed EXCEPT ![g] = FALSE]
    /\ UNCHANGED <<perMinute, now, credit>>

Decide(g, yes) ==
    /\ phase[g] = "asking"
    /\ phase' = [phase EXCEPT ![g] = "answered"]
    /\ allowed' = [allowed EXCEPT ![g] = yes]
    /\ caller' = [caller EXCEPT ![g] = Nobody]
    /\ UNCHANGED <<perMinute, now>>

Admit(g) ==
    /\ Decide(g, TRUE)
    /\ IF Limited
       THEN /\ credit[caller[g]] >= Interval
            /\ credit' = [credit EXCEPT ![caller[g]] = @ - Interval]
       ELSE UNCHANGED credit

Refuse(g) ==
    /\ Decide(g, FALSE)
    /\ Limited /\ credit[caller[g]] < Interval
    /\ UNCHANGED credit

Tick ==
    /\ now < MaxTime
    /\ now' = now + 1
    /\ credit' = [c \in Callers |-> IF Limited /\ credit[c] < Capacity
                                    THEN credit[c] + 1 ELSE credit[c]]
    /\ UNCHANGED <<perMinute, phase, caller, allowed>>

Init ==
    /\ perMinute \in Quotas /\ now = 0
    /\ credit = [c \in Callers |-> IF Limited THEN Capacity ELSE 0]
    /\ phase = [g \in Goroutines |-> "answered"]
    /\ caller = [g \in Goroutines |-> Nobody]
    /\ allowed = [g \in Goroutines |-> FALSE]

Next ==
    \/ \E g \in Goroutines : \/ \E c \in Callers : Ask(g, c)
                             \/ Admit(g) \/ Refuse(g)
    \/ Tick

Spec == Init /\ [][Next]_vars
=============================================================================
