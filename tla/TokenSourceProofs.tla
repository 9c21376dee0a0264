------------------------- MODULE TokenSourceProofs -------------------------
(***************************************************************************)
(* Theorems about TokenSource, for any number of goroutines, tokens, file  *)
(* contents and rotations.                                                 *)
(***************************************************************************)
EXTENDS TokenSource, TLAPS

USE DEF Versions, Access, Answers, PCs, Running

-----------------------------------------------------------------------------
(* Type correctness.                                                       *)

LEMMA TypeInit == Init => TypeOK
  BY BoundsAssumption DEF Init, TypeOK

LEMMA TypeStep == TypeOK /\ [Next]_vars => TypeOK'
<1> SUFFICES ASSUME TypeOK, [Next]_vars PROVE TypeOK'
  OBVIOUS
<1> USE BoundsAssumption DEF TypeOK
<1>1. ASSUME NEW b \in Bodies, Write(b) PROVE TypeOK'
  <2>1. version + 1 \in Versions \ {0} /\ version' = version + 1
    BY <1>1 DEF Write
  <2>2. body' \in [Versions -> Bodies]
    BY <1>1, <2>1 DEF Write
  <2>3. mtime' \in [Versions -> Nat]
    <3>1. mtime[version] \in Nat /\ mtime[version] + 1 \in Nat
      OBVIOUS
    <3>2. PICK tick \in {mtime[version] + 1} \cup (IF FineClock THEN {} ELSE {mtime[version]}) :
             mtime' = [mtime EXCEPT ![version + 1] = tick]
      BY <1>1 DEF Write
    <3>3. tick \in Nat
      BY <3>1, <3>2
    <3> QED
      BY <2>1, <3>2, <3>3
  <2> QED
    BY <1>1, <2>1, <2>2, <2>3 DEF Write, sourceVars, callVars, ghostVars
<1>2. ASSUME NEW a \in Access, SetAccess(a) PROVE TypeOK'
  BY <1>2 DEF SetAccess, sourceVars, callVars
<1>3. ASSUME NEW p \in Procs, NEW c \in Tokens, Call(p, c) PROVE TypeOK'
  BY <1>3 DEF Call, Goto, fileVars, sourceVars
<1>4. ASSUME NEW p \in Procs, Stat(p) PROVE TypeOK'
  BY <1>4 DEF Stat, Goto, fileVars, sourceVars, ghostVars
<1>5. ASSUME NEW p \in Procs, Cached(p) PROVE TypeOK'
  BY <1>5 DEF Cached, AnswerWith, Goto, fileVars, sourceVars, ghostVars
<1>6. ASSUME NEW p \in Procs, Check(p) PROVE TypeOK'
  BY <1>6 DEF Check, Goto, fileVars, sourceVars, ghostVars
<1>7. ASSUME NEW p \in Procs, Lock(p) PROVE TypeOK'
  BY <1>7 DEF Lock, Goto, fileVars, ghostVars
<1>8. ASSUME NEW p \in Procs, Read(p) PROVE TypeOK'
  BY <1>8 DEF Read, Goto, fileVars, ghostVars
<1>9. ASSUME NEW p \in Procs, ReadFails(p) PROVE TypeOK'
  BY <1>9 DEF ReadFails, AnswerWith, Goto, fileVars, ghostVars
<1>10. ASSUME NEW p \in Procs, Store(p) PROVE TypeOK'
  BY <1>10 DEF Store, Goto, fileVars, ghostVars
<1>11. ASSUME NEW p \in Procs, Compare(p) PROVE TypeOK'
  BY <1>11 DEF Compare, Verdict, AnswerWith, Goto, fileVars, sourceVars, ghostVars
<1>12. ASSUME NEW p \in Procs, Return(p) PROVE TypeOK'
  <2>1. UNCHANGED <<fileVars, sourceVars>>
    BY <1>12 DEF Return
  <2>2. /\ pc' \in [Procs -> PCs] /\ cand' \in [Procs -> Tokens \cup {Empty}]
        /\ answer' \in [Procs -> Answers]
    BY <1>12 DEF Return, Goto, PCs, Answers
  <2>3. statted' \in [Procs -> Versions] /\ floor' \in [Procs -> Versions]
    BY <1>12 DEF Return, Versions
  <2>4. known' \in [Procs -> Versions] /\ outage' \in [Procs -> BOOLEAN]
    BY <1>12 DEF Return, Versions
  <2> QED
    BY <2>1, <2>2, <2>3, <2>4 DEF fileVars, sourceVars
<1>13. CASE UNCHANGED vars
  BY <1>13 DEF vars, fileVars, sourceVars, callVars, ghostVars
<1> QED
  BY <1>1, <1>2, <1>3, <1>4, <1>5, <1>6, <1>7, <1>8, <1>9, <1>10, <1>11, <1>12, <1>13
  DEF Next, Environment, Progress

\* The state of the file, of the Source and of every call keeps its type.
THEOREM TypeCorrect == Spec => []TypeOK
  BY TypeInit, TypeStep, PTL DEF Spec

-----------------------------------------------------------------------------
(* The Source, whatever the clock of the file system does: the inductive   *)
(* invariant relates the version each step of a reload has seen to the     *)
(* version in memory.                                                      *)

StatInv ==
    \A p \in Procs :
        pc[p] \in {"check", "lock", "read", "store"} =>
            /\ statted[p] \in 1..version
            /\ floor[p] <= statted[p]

StoreInv ==
    \A p \in Procs :
        pc[p] = "store" => /\ statted[p] <= fetched
                           /\ held <= fetched

SourceInv ==
    /\ TypeOK
    /\ LockHeldByReloader
    /\ KeyNeverAhead
    /\ held <= version /\ fetched <= version
    /\ \A p \in Procs : floor[p] <= version
    /\ StatInv
    /\ StoreInv

LEMMA SourceInit == Init => SourceInv
  BY TypeInit, ProcsAssumption
  DEF Init, SourceInv, LockHeldByReloader, KeyNeverAhead, StatInv, StoreInv

\* A step of a call that is not reloading, and is not on its way to, disturbs
\* nobody's reload.
LEMMA AwayFromReload ==
    ASSUME SourceInv, TypeOK', NEW p \in Procs,
           UNCHANGED <<version, held, keyed, writer, fetched>>,
           \A q \in Procs \ {p} :
               pc'[q] = pc[q] /\ statted'[q] = statted[q] /\ floor'[q] = floor[q],
           pc[p] \notin {"read", "store"}, pc'[p] \notin {"check", "lock", "read", "store"},
           floor'[p] <= version'
    PROVE  SourceInv'
<1>1. LockHeldByReloader'
  BY DEF SourceInv, LockHeldByReloader
<1>2. KeyNeverAhead'
  BY DEF SourceInv, KeyNeverAhead
<1>3. StatInv'
  BY DEF SourceInv, StatInv
<1>4. StoreInv'
  BY DEF SourceInv, StoreInv
<1>5. \A q \in Procs : floor'[q] <= version'
  BY DEF SourceInv
<1>6. held' <= version' /\ fetched' <= version'
  BY DEF SourceInv
<1> QED
  BY <1>1, <1>2, <1>3, <1>4, <1>5, <1>6 DEF SourceInv

LEMMA SourceStep == SourceInv /\ [Next]_vars => SourceInv'
<1> SUFFICES ASSUME SourceInv, [Next]_vars PROVE SourceInv'
  OBVIOUS
<1>0. TypeOK'
  BY TypeStep DEF SourceInv
<1> USE <1>0, ProcsAssumption
    DEF SourceInv, TypeOK, LockHeldByReloader, KeyNeverAhead, StatInv, StoreInv
<1>1. ASSUME NEW b \in Bodies, Write(b) PROVE SourceInv'
  <2>1. UNCHANGED <<held, keyed, fetched, writer, pc, statted, floor>> /\ version' = version + 1
    BY <1>1 DEF Write, sourceVars, callVars, ghostVars
  <2>2. version \in Nat /\ held \in Nat /\ fetched \in Nat /\ \A p \in Procs : floor[p] \in Nat
    BY ONLY SourceInv, BoundsAssumption DEF SourceInv, TypeOK, Versions
  <2>3. held <= version /\ fetched <= version /\ \A p \in Procs : floor[p] <= version
    BY ONLY SourceInv DEF SourceInv
  <2>4. held' <= version' /\ fetched' <= version' /\ \A p \in Procs : floor'[p] <= version'
    BY ONLY <2>1, <2>2, <2>3
  <2>5. LockHeldByReloader' /\ KeyNeverAhead' /\ StoreInv'
    BY ONLY <2>1, SourceInv DEF SourceInv, LockHeldByReloader, KeyNeverAhead, StoreInv
  <2>6. StatInv'
    <3>1. 1..version \subseteq 1..(version')
      BY ONLY <2>1, <2>2
    <3>2. StatInv
      BY ONLY SourceInv DEF SourceInv
    <3> QED
      BY ONLY <2>1, <3>1, <3>2 DEF StatInv
  <2> QED
    BY ONLY <1>0, <2>4, <2>5, <2>6 DEF SourceInv
<1>2. ASSUME NEW a \in Access, SetAccess(a) PROVE SourceInv'
  BY <1>2 DEF SetAccess, sourceVars, callVars
<1>3. ASSUME NEW p \in Procs, NEW c \in Tokens, Call(p, c) PROVE SourceInv'
  <2>1. /\ UNCHANGED <<version, held, keyed, writer, fetched, statted>>
        /\ pc[p] = "idle" /\ pc' = [pc EXCEPT ![p] = "stat"]
        /\ floor' = [floor EXCEPT ![p] = version]
    BY <1>3 DEF Call, Goto, fileVars, sourceVars
  <2>2. pc'[p] = "stat" /\ floor'[p] <= version'
    BY ONLY SourceInv, <2>1 DEF SourceInv, TypeOK
  <2>3. \A q \in Procs \ {p} : pc'[q] = pc[q] /\ statted'[q] = statted[q] /\ floor'[q] = floor[q]
    BY ONLY SourceInv, <2>1 DEF SourceInv, TypeOK
  <2> QED
    BY ONLY SourceInv, <1>0, <2>1, <2>2, <2>3, AwayFromReload
<1>4. ASSUME NEW p \in Procs, Stat(p) PROVE SourceInv'
  <2>1. /\ UNCHANGED <<version, held, keyed, writer, fetched, floor>>
        /\ pc[p] = "stat" /\ pc'[p] \in {"cached", "check"}
        /\ \A q \in Procs \ {p} : pc'[q] = pc[q] /\ statted'[q] = statted[q]
    BY <1>4 DEF Stat, Goto, fileVars, sourceVars, ghostVars
  <2>2. pc'[p] = "check" => statted'[p] = version
    BY <1>4 DEF Stat, Goto
  <2>3. LockHeldByReloader'
    BY ONLY <2>1, SourceInv, pc[p] = "stat" DEF SourceInv, LockHeldByReloader
  <2>4. StoreInv'
    BY ONLY <2>1, SourceInv DEF SourceInv, StoreInv
  <2>5. StatInv'
    <3>1. version \in 1..version /\ floor[p] <= version
      BY ONLY SourceInv, BoundsAssumption DEF SourceInv, TypeOK, Versions
    <3>2. StatInv
      BY ONLY SourceInv DEF SourceInv
    <3> QED
      BY ONLY <2>1, <2>2, <3>1, <3>2 DEF StatInv
  <2>6. KeyNeverAhead'
    BY ONLY <2>1, SourceInv DEF SourceInv, KeyNeverAhead
  <2> QED
    BY ONLY <1>0, <2>1, <2>3, <2>4, <2>5, <2>6, SourceInv DEF SourceInv
<1>5. ASSUME NEW p \in Procs, Cached(p) PROVE SourceInv'
  <2>1. /\ UNCHANGED <<version, held, keyed, writer, fetched>>
        /\ statted' = statted /\ floor' = floor /\ pc[p] = "cached"
        /\ pc' = [pc EXCEPT ![p] = "compare"] \/ pc' = [pc EXCEPT ![p] = "done"]
    BY <1>5 DEF Cached, AnswerWith, Goto, fileVars, sourceVars, ghostVars
  <2>2. pc'[p] \in {"compare", "done"} /\ floor'[p] <= version'
    BY ONLY SourceInv, <2>1 DEF SourceInv, TypeOK
  <2>3. \A q \in Procs \ {p} : pc'[q] = pc[q] /\ statted'[q] = statted[q] /\ floor'[q] = floor[q]
    BY ONLY SourceInv, <2>1 DEF SourceInv, TypeOK
  <2> QED
    BY ONLY SourceInv, <1>0, <2>1, <2>2, <2>3, AwayFromReload
<1>6. ASSUME NEW p \in Procs, Check(p) PROVE SourceInv'
  BY <1>6 DEF Check, Goto, fileVars, sourceVars, ghostVars
<1>7. ASSUME NEW p \in Procs, Lock(p) PROVE SourceInv'
  <2> USE <1>7 DEF Lock, CanLock, Goto, fileVars, ghostVars
  <2>1. LockHeldByReloader' /\ KeyNeverAhead'
    OBVIOUS
  <2>2. StatInv'
    OBVIOUS
  <2>3. StoreInv'
    OBVIOUS
  <2> QED
    BY <2>1, <2>2, <2>3
<1>8. ASSUME NEW p \in Procs, Read(p) PROVE SourceInv'
  BY <1>8 DEF Read, Goto, fileVars, ghostVars
<1>9. ASSUME NEW p \in Procs, ReadFails(p) PROVE SourceInv'
  BY <1>9 DEF ReadFails, AnswerWith, Goto, fileVars, ghostVars
<1>10. ASSUME NEW p \in Procs, Store(p) PROVE SourceInv'
  <2> USE <1>10 DEF Store, Goto, fileVars, ghostVars
  <2>1. LockHeldByReloader'
    OBVIOUS
  <2>2. KeyNeverAhead'
    OBVIOUS
  <2>3. StatInv'
    OBVIOUS
  <2>4. StoreInv'
    BY <2>1
  <2> QED
    BY <2>1, <2>2, <2>3, <2>4
<1>11. ASSUME NEW p \in Procs, Compare(p) PROVE SourceInv'
  <2>1. /\ UNCHANGED <<version, held, keyed, writer, fetched>>
        /\ statted' = statted /\ floor' = floor /\ pc[p] = "compare"
        /\ pc' = [pc EXCEPT ![p] = "done"]
    BY <1>11 DEF Compare, AnswerWith, Goto, fileVars, sourceVars, ghostVars
  <2>2. pc'[p] = "done" /\ floor'[p] <= version'
    BY ONLY SourceInv, <2>1 DEF SourceInv, TypeOK
  <2>3. \A q \in Procs \ {p} : pc'[q] = pc[q] /\ statted'[q] = statted[q] /\ floor'[q] = floor[q]
    BY ONLY SourceInv, <2>1 DEF SourceInv, TypeOK
  <2> QED
    BY ONLY SourceInv, <1>0, <2>1, <2>2, <2>3, AwayFromReload
<1>12. ASSUME NEW p \in Procs, Return(p) PROVE SourceInv'
  <2>1. /\ UNCHANGED <<version, held, keyed, writer, fetched>>
        /\ statted' = [statted EXCEPT ![p] = 0] /\ floor' = [floor EXCEPT ![p] = 0]
        /\ pc[p] = "done" /\ pc' = [pc EXCEPT ![p] = "idle"]
    BY <1>12 DEF Return, Goto, fileVars, sourceVars
  <2>2. pc'[p] = "idle" /\ floor'[p] <= version'
    BY ONLY SourceInv, <2>1 DEF SourceInv, TypeOK, Versions
  <2>3. \A q \in Procs \ {p} : pc'[q] = pc[q] /\ statted'[q] = statted[q] /\ floor'[q] = floor[q]
    BY ONLY SourceInv, <2>1 DEF SourceInv, TypeOK
  <2> QED
    BY ONLY SourceInv, <1>0, <2>1, <2>2, <2>3, AwayFromReload
<1>13. CASE UNCHANGED vars
  BY <1>13 DEF vars, fileVars, sourceVars, callVars, ghostVars
<1> QED
  BY <1>1, <1>2, <1>3, <1>4, <1>5, <1>6, <1>7, <1>8, <1>9, <1>10, <1>11, <1>12, <1>13
  DEF Next, Environment, Progress

LEMMA SourceCorrect == Spec => []SourceInv
  BY SourceInit, SourceStep, PTL DEF Spec

\* One goroutine reloads at a time, and every way out of a reload unlocks.
THEOREM OneReloader == Spec => []LockHeldByReloader
<1>1. SourceInv => LockHeldByReloader
  BY DEF SourceInv
<1> QED
  BY <1>1, SourceCorrect, PTL

\* The (mtime, size) a token is filed under is never that of a newer version.
THEOREM KeyBehindToken == Spec => []KeyNeverAhead
<1>1. SourceInv => KeyNeverAhead
  BY DEF SourceInv
<1> QED
  BY <1>1, SourceCorrect, PTL

\* The token in memory is replaced by a reload, and by nothing else.
LEMMA TokenMoves ==
  ASSUME [Next]_vars
  PROVE  (held' = held /\ keyed' = keyed) \/ (\E p \in Procs : Store(p))
BY DEF Next, Environment, Progress, Write, SetAccess, Call, Stat, Cached, Check,
   Lock, Read, ReadFails, Compare, Return, vars, sourceVars

\* Reloads that race never bring back an older token.
THEOREM NoOlderToken == Spec => NeverBackToAnOlderToken
<1>1. SourceInv /\ [Next]_vars => [held' >= held]_held
  <2> SUFFICES ASSUME SourceInv, [Next]_vars, held' # held PROVE held' >= held
    OBVIOUS
  <2>1. PICK p \in Procs : Store(p)
    BY TokenMoves
  <2> QED
    BY <2>1 DEF Store, SourceInv, StoreInv, TypeOK
<1> QED
  BY <1>1, SourceCorrect, PTL DEF Spec, NeverBackToAnOlderToken

-----------------------------------------------------------------------------
(* Freshness: what it rests on whatever the clock does.                    *)

\* What is known of the history of a call at each of its steps.
HistoryInv ==
    \A p \in Procs :
        /\ known[p] <= held
        /\ Running(p) /\ access # "readable" => outage[p]
        /\ pc[p] = "cached" => outage[p]

\* What a call that met no outage compares with is as good as a version that
\* the file has had since the call began.
Backed ==
    \A p \in Procs :
        pc[p] = "compare" /\ ~outage[p] =>
            \E v \in floor[p]..version : TokenAt(held) = TokenAt(v)

\* What the comparison answers is justified by the version in memory, or by
\* the one that is as good.
LEMMA CompareJustified ==
  ASSUME SourceInv, HistoryInv, Backed, NEW p \in Procs, Compare(p)
  PROVE  Justified(p)'
<1>1. /\ answer'[p] = Verdict(cand[p], held)
      /\ held \in 0..version /\ version \in Nat
      /\ floor[p] \in Nat /\ known[p] \in Nat
      /\ UNCHANGED <<version, body, held, cand, floor, known, outage>>
  BY DEF Compare, AnswerWith, SourceInv, TypeOK, fileVars, sourceVars, ghostVars
<1>2. \A v \in Nat : Verdict(cand[p], v)' = Verdict(cand[p], v)
  BY <1>1 DEF Verdict, TokenAt
<1>3. CASE ~outage[p]
  <2>1. PICK v \in floor[p]..version : TokenAt(held) = TokenAt(v)
    BY <1>3 DEF Backed, Compare
  <2>2. answer'[p] = Verdict(cand[p], v)'
    BY <1>1, <1>2, <2>1 DEF Verdict
  <2> QED
    BY <1>1, <2>1, <2>2 DEF Justified
<1>4. CASE outage[p] /\ held = 0
  <2>1. Verdict(cand[p], held) = "no_token"
    BY <1>4 DEF Verdict, TokenAt
  <2> QED
    BY <1>1, <1>4, <2>1 DEF Justified
<1>5. CASE outage[p] /\ held # 0
  <2>1. held \in known[p]..version
    BY <1>1 DEF HistoryInv
  <2> QED
    BY <1>1, <1>2, <1>5, <2>1 DEF Justified
<1> QED
  BY <1>3, <1>4, <1>5

LEMMA HistoryStep ==
  ASSUME SourceInv, HistoryInv, [Next]_vars
  PROVE  HistoryInv'
<1> USE DEF SourceInv, TypeOK, HistoryInv
<1>1. ASSUME NEW b \in Bodies, Write(b) PROVE HistoryInv'
  BY <1>1 DEF Write, sourceVars, callVars, ghostVars
<1>2. ASSUME NEW a \in Access, SetAccess(a) PROVE HistoryInv'
  <2>1. UNCHANGED <<held, known, floor, pc>> /\ access' = a
    BY <1>2 DEF SetAccess, sourceVars, callVars
  <2>2. \A p \in Procs : outage'[p] = (outage[p] \/ (Running(p) /\ a # "readable"))
    BY <1>2 DEF SetAccess
  <2>3. \A p \in Procs : outage[p] => outage'[p]
    BY <2>2
  <2>4. \A p \in Procs : Running(p) /\ a # "readable" => outage'[p]
    BY <2>2, Zenon
  <2> SUFFICES ASSUME NEW p \in Procs
               PROVE  /\ known'[p] <= held'
                      /\ Running(p)' /\ access' # "readable" => outage'[p]
                      /\ pc'[p] = "cached" => outage'[p]
    BY Zenon
  <2>5. known'[p] <= held'
    BY <2>1
  <2>6. Running(p)' /\ access' # "readable" => outage'[p]
    BY <2>1, <2>4, Zenon
  <2>7. pc'[p] = "cached" => outage'[p]
    BY <2>1, <2>3, Zenon
  <2> QED
    BY <2>5, <2>6, <2>7, Zenon
<1>3. ASSUME NEW p \in Procs, NEW c \in Tokens, Call(p, c) PROVE HistoryInv'
  <2>1. /\ UNCHANGED <<held, access>>
        /\ pc'[p] = "stat" /\ known'[p] = held
        /\ \A q \in Procs : q # p => /\ pc'[q] = pc[q] /\ known'[q] = known[q]
                                    /\ floor'[q] = floor[q] /\ outage'[q] = outage[q]
    BY <1>3 DEF Call, Goto, fileVars, sourceVars
  <2>2. access # "readable" => outage'[p]
    <3>1. outage'[p] = (access # "readable")
      BY <1>3 DEF Call
    <3> QED
      BY <3>1, Zenon
  <2> SUFFICES ASSUME NEW q \in Procs
               PROVE  /\ known'[q] <= held'
                      /\ Running(q)' /\ access' # "readable" => outage'[q]
                      /\ pc'[q] = "cached" => outage'[q]
    BY Zenon
  <2>3. CASE q = p
    <3>1. known'[q] = held /\ held' = held /\ held \in Nat /\ pc'[q] = "stat"
      BY <2>1, <2>3
    <3>2. Running(q)' /\ access' # "readable" => outage'[q]
      BY <2>1, <2>2, <2>3
    <3> QED
      BY <3>1, <3>2
  <2>4. CASE q # p
    <3>1. /\ pc'[q] = pc[q] /\ known'[q] = known[q] /\ floor'[q] = floor[q]
          /\ outage'[q] = outage[q] /\ held' = held /\ access' = access
      BY <2>1, <2>4
    <3>2. /\ known[q] <= held
          /\ Running(q) /\ access # "readable" => outage[q]
          /\ pc[q] = "cached" => outage[q]
      BY Zenon
    <3> QED
      BY <3>1, <3>2, Zenon
  <2> QED
    BY <2>3, <2>4
<1>4. ASSUME NEW p \in Procs, Stat(p) PROVE HistoryInv'
  <2>1. /\ UNCHANGED <<held, known, floor, outage, access>>
        /\ \A q \in Procs : q # p => pc'[q] = pc[q]
        /\ pc[p] = "stat" /\ pc'[p] \in {"cached", "check"}
        /\ pc'[p] = "cached" => access = "missing"
    BY <1>4 DEF Stat, Goto, fileVars, sourceVars, ghostVars
  <2> QED
    BY <2>1
<1>5. ASSUME NEW p \in Procs, Cached(p) PROVE HistoryInv'
  BY <1>5 DEF Cached, AnswerWith, Goto, fileVars, sourceVars, ghostVars
<1>6. ASSUME NEW p \in Procs, Check(p) PROVE HistoryInv'
  BY <1>6 DEF Check, Goto, fileVars, sourceVars, ghostVars
<1>7. ASSUME NEW p \in Procs, Lock(p) PROVE HistoryInv'
  BY <1>7 DEF Lock, Goto, fileVars, ghostVars
<1>8. ASSUME NEW p \in Procs, Read(p) PROVE HistoryInv'
  BY <1>8 DEF Read, Goto, fileVars, ghostVars
<1>9. ASSUME NEW p \in Procs, ReadFails(p) PROVE HistoryInv'
  BY <1>9 DEF ReadFails, AnswerWith, Goto, fileVars, ghostVars
<1>10. ASSUME NEW p \in Procs, Store(p) PROVE HistoryInv'
  <2>1. held <= held'
    BY <1>10 DEF Store, StoreInv
  <2> QED
    BY <1>10, <2>1 DEF Store, Goto, fileVars, ghostVars
<1>11. ASSUME NEW p \in Procs, Compare(p) PROVE HistoryInv'
  BY <1>11 DEF Compare, AnswerWith, Goto, fileVars, sourceVars, ghostVars
<1>12. ASSUME NEW p \in Procs, Return(p) PROVE HistoryInv'
  BY <1>12 DEF Return, Goto, fileVars, sourceVars
<1>13. CASE UNCHANGED vars
  BY <1>13 DEF vars, fileVars, sourceVars, callVars, ghostVars
<1> QED
  BY <1>1, <1>2, <1>3, <1>4, <1>5, <1>6, <1>7, <1>8, <1>9, <1>10, <1>11, <1>12, <1>13
  DEF Next, Environment, Progress

\* How a call that met no outage comes to the comparison: under a stat that is
\* unchanged, or from a reload of its own.
LEMMA WayToCompare ==
  ASSUME SourceInv, HistoryInv, [Next]_vars,
         NEW p \in Procs, pc'[p] = "compare", ~outage'[p]
  PROVE  /\ floor'[p] = floor[p]
         /\ \/ pc[p] = "compare" /\ ~outage[p]
            \/ (Check(p) \/ Lock(p)) /\ Unchanged(statted[p])
            \/ Store(p)
<1> USE DEF SourceInv, TypeOK
<1>1. CASE pc[p] = "compare"
  <2>1. floor'[p] = floor[p] /\ (outage[p] => outage'[p])
    <3>1. ASSUME NEW a \in Access, SetAccess(a) PROVE <2>1
      <4>1. outage'[p] = (outage[p] \/ (Running(p) /\ a # "readable"))
        BY <3>1 DEF SetAccess
      <4>2. floor' = floor
        BY <3>1 DEF SetAccess
      <4> QED
        BY <4>1, <4>2, Zenon
    <3>2. CASE UNCHANGED ghostVars
      BY <3>2 DEF ghostVars
    <3>3. ASSUME NEW q \in Procs, (\E c \in Tokens : Call(q, c)) \/ Return(q)
          PROVE  <2>1
      <4>1. q # p
        BY <1>1, <3>3 DEF Call, Return
      <4> QED
        BY <3>3, <4>1 DEF Call, Return
    <3> QED
      BY <3>1, <3>2, <3>3 DEF Next, Environment, Progress, Write, Stat, Cached, Check,
         Lock, Read, ReadFails, Store, Compare, vars
  <2> QED
    BY <1>1, <2>1
<1>2. CASE pc[p] # "compare"
  <2>1. pc # pc'
    BY <1>2
  <2>2. PICK q \in Procs : (\E c \in Tokens : Call(q, c)) \/ Progress(q) \/ Return(q)
    BY <2>1 DEF Next, Environment, Write, SetAccess, vars, callVars
  <2>3. q = p
    BY <1>2, <2>2 DEF Call, Progress, Stat, Cached, Check, Lock, Read, ReadFails,
       Store, Compare, Return, AnswerWith, Goto
  <2>4. \/ Cached(p)
        \/ (Check(p) \/ Lock(p)) /\ Unchanged(statted[p])
        \/ Store(p)
    BY <2>2, <2>3 DEF Call, Progress, Stat, Check, Lock, Read, ReadFails, Compare,
       Return, AnswerWith, Goto
  <2>5. ~Cached(p)
    BY DEF Cached, HistoryInv, ghostVars
  <2>6. floor' = floor
    BY <2>4 DEF Cached, Check, Lock, Store, ghostVars
  <2> QED
    BY <2>4, <2>5, <2>6
<1> QED
  BY <1>1, <1>2

LEMMA AnswersStep ==
  ASSUME SourceInv, HistoryInv, Backed, AnswersAreCurrent, [Next]_vars
  PROVE  AnswersAreCurrent'
<1> SUFFICES ASSUME NEW q \in Procs, pc'[q] = "done" PROVE Justified(q)'
  BY DEF AnswersAreCurrent
<1> USE DEF SourceInv, TypeOK
<1>1. CASE pc[q] = "done"
  <2>1. Justified(q)
    BY <1>1 DEF AnswersAreCurrent
  <2>2. ASSUME NEW b \in Bodies, Write(b) PROVE Justified(q)'
    <3>1. /\ version' = version + 1
          /\ UNCHANGED <<answer, cand, floor, known, outage>>
      BY <2>2 DEF Write, callVars, ghostVars
    <3>2. \A v \in 0..version : Verdict(cand[q], v)' = Verdict(cand[q], v)
      <4> SUFFICES ASSUME NEW CONSTANT v \in 0..version
                   PROVE  Verdict(cand[q], v)' = Verdict(cand[q], v)
        OBVIOUS
      <4>1. v # version + 1 /\ v \in Versions
        BY BoundsAssumption
      <4>2. v # 0 => body'[v] = body[v]
        BY <2>2, <4>1 DEF Write
      <4> QED
        BY <3>1, <4>2 DEF Verdict, TokenAt
    <3>3. \A n \in Versions : n..version \subseteq (0..version) \cap (n..(version'))
      BY <3>1
    <3> QED
      BY <2>1, <3>1, <3>2, <3>3 DEF Justified
  <2>3. ASSUME NEW a \in Access, SetAccess(a) PROVE Justified(q)'
    <3>1. outage'[q] = outage[q]
      BY <1>1, <2>3 DEF SetAccess
    <3> QED
      BY <2>1, <2>3, <3>1 DEF SetAccess, callVars, Justified, Verdict, TokenAt
  <2>4. ASSUME NEW p \in Procs,
               (\E c \in Tokens : Call(p, c)) \/ Progress(p) \/ Return(p)
        PROVE  Justified(q)'
    <3>1. /\ UNCHANGED <<version, body>>
          /\ answer'[q] = answer[q] /\ cand'[q] = cand[q] /\ floor'[q] = floor[q]
          /\ known'[q] = known[q] /\ outage'[q] = outage[q]
      BY <1>1, <2>4 DEF Call, Progress, Stat, Cached, Check, Lock, Read, ReadFails,
         Store, Compare, Return, AnswerWith, Goto, fileVars, sourceVars, ghostVars
    <3> QED
      BY <2>1, <3>1 DEF Justified, Verdict, TokenAt
  <2>5. CASE UNCHANGED vars
    BY <2>1, <2>5 DEF Justified, Verdict, TokenAt, vars, fileVars, callVars, ghostVars
  <2> QED
    BY <2>2, <2>3, <2>4, <2>5 DEF Next, Environment
<1>2. CASE pc[q] # "done"
  <2>1. Cached(q) \/ ReadFails(q) \/ Compare(q)
    <3>1. pc # pc'
      BY <1>2
    <3>2. PICK p \in Procs :
             (\E c \in Tokens : Call(p, c)) \/ Progress(p) \/ Return(p)
      BY <3>1 DEF Next, Environment, Write, SetAccess, vars, callVars
    <3>3. p = q
      BY <1>2, <3>2 DEF Call, Progress, Stat, Cached, Check, Lock, Read, ReadFails,
         Store, Compare, Return, AnswerWith, Goto
    <3>4. ~(\E c \in Tokens : Call(q, c)) /\ ~Stat(q) /\ ~Check(q) /\ ~Lock(q)
          /\ ~Read(q) /\ ~Store(q) /\ ~Return(q)
      BY DEF Call, Stat, Check, Lock, Read, Store, Return, Goto
    <3> QED
      BY <3>2, <3>3, <3>4 DEF Progress
  <2>2. CASE Cached(q)
    BY <2>2 DEF Cached, AnswerWith, Goto, HistoryInv, ghostVars, Justified
  <2>3. CASE ReadFails(q)
    BY <2>3 DEF ReadFails, AnswerWith, Goto, HistoryInv, ghostVars, Justified
  <2>4. CASE Compare(q)
    BY <2>4, CompareJustified
  <2> QED
    BY <2>1, <2>2, <2>3, <2>4
<1> QED
  BY <1>1, <1>2

-----------------------------------------------------------------------------
(* Freshness, on a clock that tells any two writes of the file apart.      *)

ClockInv == \A u, v \in 1..version : u < v => mtime[u] < mtime[v]

\* What a call that met no outage compares with is no older than the call.
ReadyInv ==
    \A p \in Procs : pc[p] = "compare" /\ ~outage[p] => floor[p] <= held

FreshInv ==
    /\ SourceInv
    /\ ClockInv
    /\ HistoryInv
    /\ ReadyInv
    /\ AnswersAreCurrent

LEMMA ClockStep ==
  ASSUME FineClock, SourceInv, ClockInv, [Next]_vars
  PROVE  ClockInv'
<1>1. ASSUME NEW b \in Bodies, Write(b) PROVE ClockInv'
  <2>1. version + 1 \in Versions /\ version' = version + 1
    BY <1>1, BoundsAssumption DEF Write, SourceInv, TypeOK
  <2>2. mtime' = [mtime EXCEPT ![version + 1] = mtime[version] + 1]
    BY <1>1 DEF Write
  <2>0. \A w \in 1..version : w \in Versions /\ mtime[w] \in Nat /\ mtime'[w] = mtime[w]
    BY <2>1, <2>2, BoundsAssumption DEF SourceInv, TypeOK
  <2> SUFFICES ASSUME NEW u \in 1..version', NEW v \in 1..version', u < v
               PROVE  mtime'[u] < mtime'[v]
    BY DEF ClockInv
  <2>3. u \in 1..version /\ mtime'[u] = mtime[u]
    BY <2>1, <2>0 DEF SourceInv, TypeOK
  <2>4. CASE v = version + 1
    <3>1. mtime'[v] = mtime[version] + 1
      BY <2>1, <2>2, <2>4 DEF SourceInv, TypeOK
    <3>2. version \in 1..version /\ mtime[version] \in Nat /\ mtime[u] \in Nat
      BY <2>3, <2>0 DEF SourceInv, TypeOK
    <3>3. u = version \/ mtime[u] < mtime[version]
      BY <2>3, <3>2 DEF ClockInv
    <3> QED
      BY <2>3, <3>1, <3>2, <3>3
  <2>5. CASE v # version + 1
    <3>1. v \in 1..version /\ mtime'[v] = mtime[v]
      BY <2>1, <2>0, <2>5 DEF SourceInv, TypeOK
    <3> QED
      BY <2>3, <3>1 DEF ClockInv
  <2> QED
    BY <2>4, <2>5
<1>2. CASE UNCHANGED <<version, mtime>>
  BY <1>2 DEF ClockInv
<1> QED
  BY <1>1, <1>2 DEF Next, Environment, Progress, SetAccess, Call, Stat, Cached,
     Check, Lock, Read, ReadFails, Store, Compare, Return, vars, fileVars

\* The stat of a reload key names one version: a call whose stat is unchanged
\* has the version it statted, or a later one, in memory.
LEMMA UnchangedMeansCurrent ==
  ASSUME SourceInv, ClockInv, NEW v \in 1..version, Unchanged(v)
  PROVE  v <= held
<1>1. keyed \in 1..version /\ mtime[v] = mtime[keyed]
  BY DEF Unchanged, SourceInv, KeyNeverAhead, TypeOK
<1>2. v = keyed
  <2>1. mtime[v] \in Nat /\ mtime[keyed] \in Nat
    BY <1>1 DEF SourceInv, TypeOK
  <2>2. ~(v < keyed) /\ ~(keyed < v)
    BY <1>1, <2>1 DEF ClockInv
  <2> QED
    BY <1>1, <2>2
<1> QED
  BY <1>2 DEF SourceInv, KeyNeverAhead, TypeOK

LEMMA ReadyStep ==
  ASSUME SourceInv, ClockInv, HistoryInv, ReadyInv, [Next]_vars
  PROVE  ReadyInv'
<1> SUFFICES ASSUME NEW p \in Procs, pc'[p] = "compare", ~outage'[p]
             PROVE  floor'[p] <= held'
  BY DEF ReadyInv
<1>0. /\ floor'[p] = floor[p]
      /\ \/ pc[p] = "compare" /\ ~outage[p]
         \/ (Check(p) \/ Lock(p)) /\ Unchanged(statted[p])
         \/ Store(p)
  BY WayToCompare
<1>1. held <= held'
  BY TokenMoves DEF Store, StoreInv, SourceInv, TypeOK
<1>2. held \in Nat /\ held' \in Nat /\ floor[p] \in Nat
  BY TypeStep DEF SourceInv, TypeOK
<1>3. CASE pc[p] = "compare" /\ ~outage[p]
  BY <1>1, <1>2, <1>3, <1>0 DEF ReadyInv
<1>4. CASE (Check(p) \/ Lock(p)) /\ Unchanged(statted[p])
  <2>1. statted[p] \in 1..version /\ floor[p] <= statted[p]
    BY <1>4 DEF Check, Lock, StatInv, SourceInv
  <2>2. statted[p] <= held
    BY <1>4, <2>1, UnchangedMeansCurrent
  <2> QED
    BY <1>0, <1>1, <1>2, <2>1, <2>2 DEF SourceInv, TypeOK
<1>5. CASE Store(p)
  <2>1. floor[p] <= statted[p] /\ statted[p] <= fetched /\ held' = fetched
    BY <1>5 DEF Store, StatInv, StoreInv, SourceInv
  <2>2. statted[p] \in Nat /\ fetched \in Nat
    BY DEF SourceInv, TypeOK
  <2> QED
    BY <1>0, <1>2, <2>1, <2>2
<1> QED
  BY <1>0, <1>3, <1>4, <1>5

LEMMA FreshStep == ASSUME FineClock PROVE FreshInv /\ [Next]_vars => FreshInv'
<1>1. SourceInv /\ ReadyInv => Backed
  BY DEF SourceInv, TypeOK, ReadyInv, Backed
<1> QED
  BY <1>1, SourceStep, ClockStep, HistoryStep, ReadyStep, AnswersStep DEF FreshInv

LEMMA FreshInit == Init => FreshInv
<1> SUFFICES ASSUME Init PROVE FreshInv
  OBVIOUS
<1>1. ClockInv /\ HistoryInv /\ ReadyInv /\ AnswersAreCurrent
  BY DEF Init, ClockInv, HistoryInv, ReadyInv, AnswersAreCurrent
<1> QED
  BY <1>1, SourceInit DEF FreshInv

\* On a file system whose clock tells any two writes of the file apart, every
\* answer of Validate is one the file justified while the call was running (or
\* the call met an outage, and was answered from no older a token than before).
THEOREM Fresh == ASSUME FineClock PROVE Spec => []AnswersAreCurrent
<1>1. Init => FreshInv
  BY FreshInit
<1>2. FreshInv /\ [Next]_vars => FreshInv'
  BY FreshStep
<1>3. FreshInv => AnswersAreCurrent
  BY DEF FreshInv
<1> QED
  BY <1>1, <1>2, <1>3, PTL DEF Spec

-----------------------------------------------------------------------------
(* Freshness without a clock: the sizes tell the contents apart, and the   *)
(* file is written between calls only.                                     *)

\* Bodies that os.Stat reports the same size of hold the same token.
SizesTell ==
    \A b, c \in Bodies :
        Length[TrimRight[b]] + Blanks[b] = Length[TrimRight[c]] + Blanks[c]
            => TrimRight[b] = TrimRight[c]

\* While a call runs there is only one version of the file, and what a reload
\* files a token under is the stat of that very version.
OneVersion ==
    /\ keyed = held
    /\ \A p \in Procs :
          /\ pc[p] # "idle" => floor[p] = version
          /\ pc[p] \in {"check", "lock", "read", "store"} => statted[p] = version
          /\ pc[p] = "store" => fetched = version

\* What a call that met no outage compares with is what the file holds.
SameToken ==
    \A p \in Procs :
        pc[p] = "compare" /\ ~outage[p] => TokenAt(held) = TokenAt(version)

QuietInv ==
    /\ SourceInv
    /\ HistoryInv
    /\ OneVersion
    /\ SameToken
    /\ AnswersAreCurrent

LEMMA OneVersionStep ==
  ASSUME QuietWrites, SourceInv, OneVersion, [Next]_vars
  PROVE  OneVersion'
<1> USE DEF SourceInv, TypeOK, OneVersion
<1>1. ASSUME NEW b \in Bodies, Write(b) PROVE OneVersion'
  BY <1>1 DEF Write, Quiet, sourceVars, callVars, ghostVars
<1>2. ASSUME NEW a \in Access, SetAccess(a) PROVE OneVersion'
  BY <1>2 DEF SetAccess, sourceVars, callVars
<1>3. ASSUME NEW p \in Procs, NEW c \in Tokens, Call(p, c) PROVE OneVersion'
  BY <1>3 DEF Call, Goto, fileVars, sourceVars
<1>4. ASSUME NEW p \in Procs, Stat(p) PROVE OneVersion'
  BY <1>4 DEF Stat, Goto, fileVars, sourceVars, ghostVars
<1>5. ASSUME NEW p \in Procs, Cached(p) PROVE OneVersion'
  BY <1>5 DEF Cached, AnswerWith, Goto, fileVars, sourceVars, ghostVars
<1>6. ASSUME NEW p \in Procs, Check(p) PROVE OneVersion'
  BY <1>6 DEF Check, Goto, fileVars, sourceVars, ghostVars
<1>7. ASSUME NEW p \in Procs, Lock(p) PROVE OneVersion'
  BY <1>7 DEF Lock, Goto, fileVars, ghostVars
<1>8. ASSUME NEW p \in Procs, Read(p) PROVE OneVersion'
  BY <1>8 DEF Read, Goto, fileVars, ghostVars
<1>9. ASSUME NEW p \in Procs, ReadFails(p) PROVE OneVersion'
  BY <1>9 DEF ReadFails, AnswerWith, Goto, fileVars, ghostVars
<1>10. ASSUME NEW p \in Procs, Store(p) PROVE OneVersion'
  <2>1. \A q \in Procs : pc[q] = "store" => q = p
    BY <1>10 DEF Store, LockHeldByReloader
  <2> QED
    BY <1>10, <2>1 DEF Store, Goto, fileVars, ghostVars
<1>11. ASSUME NEW p \in Procs, Compare(p) PROVE OneVersion'
  BY <1>11 DEF Compare, AnswerWith, Goto, fileVars, sourceVars, ghostVars
<1>12. ASSUME NEW p \in Procs, Return(p) PROVE OneVersion'
  BY <1>12 DEF Return, Goto, fileVars, sourceVars
<1>13. CASE UNCHANGED vars
  BY <1>13 DEF vars, fileVars, sourceVars, callVars, ghostVars
<1> QED
  BY <1>1, <1>2, <1>3, <1>4, <1>5, <1>6, <1>7, <1>8, <1>9, <1>10, <1>11, <1>12, <1>13
  DEF Next, Environment, Progress

\* A stat that is unchanged is of the token in memory, whatever the clock says.
LEMMA UnchangedMeansSame ==
  ASSUME SizesTell, SourceInv, keyed = held, Unchanged(version)
  PROVE  TokenAt(held) = TokenAt(version)
<1>1. keyed \in Versions \ {0} /\ version \in Versions \ {0}
  BY DEF Unchanged, SourceInv, TypeOK
<1>2. body[keyed] \in Bodies /\ body[version] \in Bodies
  BY <1>1 DEF SourceInv, TypeOK
<1>3. TrimRight[body[keyed]] = TrimRight[body[version]]
  BY <1>2 DEF Unchanged, StatSize, KeySize, SizesTell
<1> QED
  BY <1>1, <1>3 DEF TokenAt

LEMMA SameTokenStep ==
  ASSUME QuietWrites, SizesTell, SourceInv, HistoryInv, OneVersion, SameToken, [Next]_vars
  PROVE  SameToken'
<1> SUFFICES ASSUME NEW p \in Procs, pc'[p] = "compare", ~outage'[p]
             PROVE  (TokenAt(held) = TokenAt(version))'
  BY DEF SameToken
<1>1. UNCHANGED <<version, body>>
  <2>1. ASSUME NEW b \in Bodies, Write(b) PROVE FALSE
    BY <2>1 DEF Write, Quiet, callVars
  <2> QED
    BY <2>1 DEF Next, Environment, Progress, SetAccess, Call, Stat, Cached, Check,
       Lock, Read, ReadFails, Store, Compare, Return, vars, fileVars
<1>2. ASSUME NEW q \in Procs, Store(q) PROVE held' = version
  BY <1>2 DEF Store, OneVersion
<1>3. CASE \E q \in Procs : Store(q)
  BY <1>1, <1>2, <1>3 DEF TokenAt
<1>4. CASE held' = held /\ ~(\E q \in Procs : Store(q))
  <2>1. TokenAt(held) = TokenAt(version)
    <3>1. CASE pc[p] = "compare" /\ ~outage[p]
      BY <3>1 DEF SameToken
    <3>2. CASE (Check(p) \/ Lock(p)) /\ Unchanged(statted[p])
      <4>1. statted[p] = version /\ keyed = held
        BY <3>2 DEF Check, Lock, OneVersion
      <4> QED
        BY <3>2, <4>1, UnchangedMeansSame
    <3> QED
      BY <1>4, <3>1, <3>2, WayToCompare
  <2> QED
    BY <1>1, <1>4, <2>1 DEF TokenAt
<1> QED
  BY <1>3, <1>4, TokenMoves

LEMMA QuietStep ==
  ASSUME QuietWrites, SizesTell PROVE QuietInv /\ [Next]_vars => QuietInv'
<1>1. SourceInv /\ OneVersion /\ SameToken => Backed
  <2> SUFFICES ASSUME SourceInv, OneVersion, SameToken,
                      NEW p \in Procs, pc[p] = "compare", ~outage[p]
               PROVE  \E v \in floor[p]..version : TokenAt(held) = TokenAt(v)
    BY DEF Backed
  <2>1. version \in floor[p]..version
    BY DEF OneVersion, SourceInv, TypeOK
  <2> QED
    BY <2>1 DEF SameToken
<1> QED
  BY <1>1, SourceStep, HistoryStep, OneVersionStep, SameTokenStep, AnswersStep DEF QuietInv

LEMMA QuietInit == Init => QuietInv
<1> SUFFICES ASSUME Init PROVE QuietInv
  OBVIOUS
<1>1. HistoryInv /\ OneVersion /\ SameToken /\ AnswersAreCurrent
  BY DEF Init, HistoryInv, OneVersion, SameToken, AnswersAreCurrent
<1> QED
  BY <1>1, SourceInit DEF QuietInv

\* On a clock that may stand still the size in the reload key is enough, when
\* contents of one size hold one token and no write falls into a running call.
THEOREM FreshBySize == ASSUME QuietWrites, SizesTell PROVE Spec => []AnswersAreCurrent
<1>1. Init => QuietInv
  BY QuietInit
<1>2. QuietInv /\ [Next]_vars => QuietInv'
  BY QuietStep
<1>3. QuietInv => AnswersAreCurrent
  BY DEF QuietInv
<1> QED
  BY <1>1, <1>2, <1>3, PTL DEF Spec
=============================================================================
