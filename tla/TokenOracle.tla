---------------------------- MODULE TokenOracle ----------------------------
(***************************************************************************)
(* What a Source promises a caller of Validate, without its lock, its      *)
(* cache key and its stat: at every moment it serves one version of the    *)
(* token file, it may move on to the current version at any time and never *)
(* moves back, and it answers a call from the served version.  A call      *)
(* during which the file was readable throughout is answered only once the *)
(* served version is at least the one the file had when the call began; a  *)
(* call that met an outage is answered from whatever is served, or with    *)
(* no_token.                                                               *)
(***************************************************************************)
EXTENDS Integers

CONSTANTS Procs, Tokens, Bodies, TrimRight, Empty, MaxVersion

VARIABLES version, body, readable, served, phase, cand, floor, outage, answer

vars == <<version, body, readable, served, phase, cand, floor, outage, answer>>

TokenAt(v) == IF v = 0 THEN Empty ELSE TrimRight[body[v]]

Verdict(c, v) ==
    IF TokenAt(v) = Empty THEN "no_token"
    ELSE IF c = TokenAt(v) THEN "ok" ELSE "invalid"

Rewrite(b) ==
    /\ version < MaxVersion
    /\ version' = version + 1
    /\ body' = [body EXCEPT ![version + 1] = b]
    /\ UNCHANGED <<readable, served, phase, cand, floor, outage, answer>>

SetReadable(r) ==
    /\ readable' = r
    /\ outage' = [p \in Procs |-> outage[p] \/ (phase[p] = "pending" /\ ~r)]
    /\ UNCHANGED <<version, body, served, phase, cand, floor, answer>>

Ask(p, c) ==
    /\ phase[p] = "idle"
    /\ phase' = [phase EXCEPT ![p] = "pending"]
    /\ cand' = [cand EXCEPT ![p] = c]
    /\ floor' = [floor EXCEPT ![p] = version]
    /\ outage' = [outage EXCEPT ![p] = ~readable]
    /\ UNCHANGED <<version, body, readable, served, answer>>

\* The service moves on to a newer version of the file.
Advance ==
    /\ served' \in served..version
    /\ UNCHANGED <<version, body, readable, phase, cand, floor, outage, answer>>

Reply(p, a) ==
    /\ phase[p] = "pending"
    /\ phase' = [phase EXCEPT ![p] = "replied"]
    /\ answer' = [answer EXCEPT ![p] = a]
    /\ UNCHANGED <<version, body, readable, served, cand, floor, outage>>

Answer(p) ==
    /\ outage[p] \/ floor[p] <= served
    /\ Reply(p, Verdict(cand[p], served))

GiveUp(p) == outage[p] /\ Reply(p, "no_token")

Leave(p) ==
    /\ phase[p] = "replied"
    /\ phase' = [phase EXCEPT ![p] = "idle"]
    /\ cand' = [cand EXCEPT ![p] = Empty]
    /\ floor' = [floor EXCEPT ![p] = 0]
    /\ outage' = [outage EXCEPT ![p] = FALSE]
    /\ answer' = [answer EXCEPT ![p] = "none"]
    /\ UNCHANGED <<version, body, readable, served>>

Init ==
    /\ version = 1
    /\ body \in {[v \in 0..MaxVersion |-> b] : b \in Bodies}
    /\ readable \in BOOLEAN
    /\ served = 0
    /\ phase = [p \in Procs |-> "idle"]
    /\ cand = [p \in Procs |-> Empty]
    /\ floor = [p \in Procs |-> 0]
    /\ outage = [p \in Procs |-> FALSE]
    /\ answer = [p \in Procs |-> "none"]

Next ==
    \/ \E b \in Bodies : Rewrite(b)
    \/ \E r \in BOOLEAN : SetReadable(r)
    \/ Advance
    \/ \E p \in Procs : \/ \E c \in Tokens : Ask(p, c)
                        \/ Answer(p) \/ GiveUp(p) \/ Leave(p)

Spec == Init /\ [][Next]_vars
=============================================================================
