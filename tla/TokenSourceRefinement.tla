------------------------ MODULE TokenSourceRefinement ------------------------
(***************************************************************************)
(* TokenSource implements TokenOracle: the stat, the lock and the reload   *)
(* key stay out of sight of the callers of Validate.                       *)
(***************************************************************************)
EXTENDS TokenSourceProofs

\* The phase of the oracle's call that stands for the code's pc.
Phase == [p \in Procs |-> IF pc[p] = "idle" THEN "idle"
                          ELSE IF pc[p] = "done" THEN "replied" ELSE "pending"]

LEMMA InitRefines == Init => Oracle!Init
  BY DEF Init, Oracle!Init, Access, Versions

\* A step that leaves the file, the calls' answers and the phases alone.
LEMMA Invisible ==
  ASSUME UNCHANGED <<version, body, access, held, cand, floor, outage, answer>>,
         Phase' = Phase
  PROVE  UNCHANGED Oracle!vars
  BY DEF Oracle!vars, Phase

LEMMA StepRefines ==
  ASSUME FreshInv, [Next]_vars
  PROVE  [Oracle!Next]_(Oracle!vars)
<1> USE DEF FreshInv, SourceInv, TypeOK
<1>1. ASSUME NEW b \in Bodies, Write(b) PROVE Oracle!Rewrite(b)
  BY <1>1 DEF Write, Oracle!Rewrite, sourceVars, callVars, ghostVars
<1>2. ASSUME NEW a \in Access, SetAccess(a) PROVE Oracle!SetReadable(a = "readable")
  <2>1. UNCHANGED <<version, body, held, pc, cand, floor, answer>> /\ access' = a
    BY <1>2 DEF SetAccess, sourceVars, callVars
  <2>2. Phase' = Phase
    BY <2>1 DEF Phase
  <2>3. outage' = [p \in Procs |-> outage[p] \/ (Phase[p] = "pending" /\ ~(a = "readable"))]
    <3>1. outage' = [p \in Procs |-> outage[p] \/ (Running(p) /\ a # "readable")]
      BY <1>2 DEF SetAccess
    <3>2. \A p \in Procs : Running(p) <=> Phase[p] = "pending"
      BY DEF Phase, Running
    <3>3. \A p \in Procs : (outage[p] \/ (Running(p) /\ a # "readable"))
                            = (outage[p] \/ (Phase[p] = "pending" /\ ~(a = "readable")))
      BY <3>2, Zenon
    <3> QED
      BY <3>1, <3>3, Zenon
  <2> QED
    BY <2>1, <2>2, <2>3 DEF Oracle!SetReadable, Phase
<1>3. ASSUME NEW p \in Procs, NEW c \in Tokens, Call(p, c) PROVE Oracle!Ask(p, c)
  BY <1>3 DEF Call, Goto, Oracle!Ask, fileVars, sourceVars
<1>4. ASSUME NEW p \in Procs, Stat(p) \/ Check(p) \/ Lock(p) \/ Read(p)
      PROVE  UNCHANGED Oracle!vars
  <2>1. UNCHANGED <<version, body, access, held, cand, floor, outage, answer>>
    BY <1>4 DEF Stat, Check, Lock, Read, Goto, fileVars, sourceVars, ghostVars
  <2>2. Phase' = Phase
    <3>1. /\ \A q \in Procs : q # p => pc'[q] = pc[q]
          /\ pc[p] \notin {"idle", "done"} /\ pc'[p] \notin {"idle", "done"}
      BY <1>4 DEF Stat, Check, Lock, Read, Goto
    <3> QED
      BY <3>1 DEF Phase
  <2> QED
    BY <2>1, <2>2, Invisible
<1>10. ASSUME NEW p \in Procs, Store(p) PROVE Oracle!Advance
  <2>1. held' \in held..version
    <3>1. held' = fetched /\ held <= fetched /\ fetched <= version
      BY <1>10 DEF Store, StoreInv
    <3>2. held \in Int /\ fetched \in Int /\ version \in Int
      BY BoundsAssumption DEF Versions
    <3> QED
      BY <3>1, <3>2
  <2>2. UNCHANGED <<version, body, access, cand, floor, outage, answer>>
    BY <1>10 DEF Store, fileVars, ghostVars
  <2>3. Phase' = Phase
    BY <1>10 DEF Store, Goto, Phase
  <2> QED
    BY <2>1, <2>2, <2>3 DEF Oracle!Advance, Phase
<1>11. ASSUME NEW p \in Procs, Compare(p) PROVE Oracle!Answer(p)
  BY <1>11 DEF Compare, AnswerWith, Goto, ReadyInv, Verdict, TokenAt,
     Oracle!Answer, Oracle!Reply, Oracle!Verdict, Oracle!TokenAt,
     fileVars, sourceVars, ghostVars
<1>9. ASSUME NEW p \in Procs, ReadFails(p) PROVE Oracle!GiveUp(p)
  BY <1>9 DEF ReadFails, AnswerWith, Goto, HistoryInv, Running,
     Oracle!GiveUp, Oracle!Reply, fileVars, ghostVars
<1>5. ASSUME NEW p \in Procs, Cached(p) PROVE Oracle!GiveUp(p) \/ UNCHANGED Oracle!vars
  <2>1. CASE TokenAt(held) # Empty
    <3>1. UNCHANGED <<version, body, access, held, cand, floor, outage, answer>>
      BY <1>5, <2>1 DEF Cached, Goto, fileVars, sourceVars, ghostVars
    <3>2. Phase' = Phase
      BY <1>5, <2>1 DEF Cached, Goto, Phase
    <3> QED
      BY <3>1, <3>2, Invisible
  <2>2. CASE TokenAt(held) = Empty
    <3>1. /\ UNCHANGED <<version, body, access, held, cand, floor, outage>>
          /\ pc[p] = "cached" /\ pc' = [pc EXCEPT ![p] = "done"]
          /\ answer' = [answer EXCEPT ![p] = "no_token"]
      BY <1>5, <2>2 DEF Cached, AnswerWith, Goto, fileVars, sourceVars, ghostVars
    <3>2. outage[p] /\ Phase[p] = "pending" /\ Phase' = [Phase EXCEPT ![p] = "replied"]
      BY <3>1 DEF HistoryInv, Phase
    <3> QED
      BY <3>1, <3>2 DEF Oracle!GiveUp, Oracle!Reply, Phase
  <2> QED
    BY <2>1, <2>2
<1>12. ASSUME NEW p \in Procs, Return(p) PROVE Oracle!Leave(p)
  BY <1>12 DEF Return, Goto, Oracle!Leave, fileVars, sourceVars
<1>13. CASE UNCHANGED vars
  BY <1>13 DEF vars, Oracle!vars, fileVars, sourceVars, callVars, ghostVars
<1> QED
  BY <1>1, <1>2, <1>3, <1>4, <1>5, <1>9, <1>10, <1>11, <1>12, <1>13
  DEF Next, Environment, Progress, Oracle!Next

\* On a clock that tells any two writes of the file apart, concurrent calls of
\* Validate cannot be told from calls of the oracle: one version of the token
\* served at a time, never going back.
THEOREM ImplementsOracle == ASSUME FineClock PROVE Spec => ServesLikeTheOracle
<1>1. Init => FreshInv /\ Oracle!Init
  BY FreshInit, InitRefines
<1>2. FreshInv /\ [Next]_vars => FreshInv'
  BY FreshStep
<1>3. FreshInv /\ [Next]_vars => [Oracle!Next]_(Oracle!vars)
  BY StepRefines
<1> QED
  BY <1>1, <1>2, <1>3, PTL DEF Spec, ServesLikeTheOracle, Oracle!Spec
=============================================================================
