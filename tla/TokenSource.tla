---------------------------- MODULE TokenSource ----------------------------
(***************************************************************************)
(* The file-backed bearer-token validator of internal/auth/source.go: a    *)
(* token cached in memory under a sync.RWMutex, reloaded when a stat of    *)
(* the token file shows another (mtime, size) than the one it was loaded   *)
(* under.  Requests call Validate concurrently; an operator (or the        *)
(* kubelet) rewrites, hides and restores the file at any moment.           *)
(*                                                                         *)
(* The contents of the file are numbered: version v of the file holds      *)
(* body[v] and was written at the clock tick mtime[v].  The code's fields  *)
(* token, (mtime, size) and loaded are represented by the versions they    *)
(* came from: `held` is the version whose bytes are in s.token, `keyed`    *)
(* the version whose stat is in s.mtime and s.size, and both are 0 while   *)
(* s.loaded is false.  Since a written version never changes, comparing    *)
(* through the version is comparing the values.                            *)
(***************************************************************************)
EXTENDS Integers

CONSTANTS
    Procs,          \* the goroutines that may be inside Validate
    Tokens,         \* the tokens callers present
    Bodies,         \* the contents the token file can have
    TrimRight,      \* TrimRight[b]: the body without its trailing white space
    Blanks,         \* Blanks[b]: how many bytes of white space that is
    Length,         \* Length[t]: the bytes of a token
    Empty,          \* the token of an empty (or all-blank) file
    NoProc,         \* nobody holds the write lock
    MaxVersion,     \* bound: how many versions the file goes through
    FineClock,      \* every write of the file moves its mtime
    QuietWrites     \* the file is written only while no Validate is running

ASSUME BodiesAssumption ==
    /\ Empty \notin Tokens
    /\ TrimRight \in [Bodies -> Tokens \cup {Empty}]
    /\ Blanks \in [Bodies -> Nat]
    /\ Length \in [Tokens \cup {Empty} -> Nat]

ASSUME ProcsAssumption == NoProc \notin Procs

ASSUME BoundsAssumption == MaxVersion \in Nat \ {0}

ASSUME EnvironmentAssumption == FineClock \in BOOLEAN /\ QuietWrites \in BOOLEAN

VARIABLES
    \* the file
    version,    \* how often it has been written: its contents are body[version]
    body,       \* version -> contents
    mtime,      \* version -> modification time
    access,     \* what the gateway can do with the path now
    \* the Source
    held,       \* s.token, by version
    keyed,      \* s.mtime and s.size, by version
    writer,     \* who holds s.mu for writing
    fetched,    \* the local `raw` of the lock holder, by version
    \* the calls of Validate
    pc, cand, statted, answer,
    \* history: what the answer of a call may rest on
    floor,      \* the version the file had when the call began
    known,      \* the version the Source held when the call began
    outage      \* the file was not readable at some moment of the call

fileVars   == <<version, body, mtime, access>>
sourceVars == <<held, keyed, writer, fetched>>
callVars   == <<pc, cand, statted, answer>>
ghostVars  == <<floor, known, outage>>
vars == <<fileVars, sourceVars, callVars, ghostVars>>

Versions == 0..MaxVersion
Access   == {"readable", "unreadable", "missing"}
Answers  == {"none", "ok", "invalid", "no_token"}
PCs      == {"idle", "stat", "cached", "check", "lock", "read", "store",
             "compare", "done"}

TypeOK ==
    /\ version \in Versions \ {0}
    /\ body \in [Versions -> Bodies]
    /\ mtime \in [Versions -> Nat]
    /\ access \in Access
    /\ held \in Versions /\ keyed \in Versions /\ fetched \in Versions
    /\ writer \in Procs \cup {NoProc}
    /\ pc \in [Procs -> PCs]
    /\ cand \in [Procs -> Tokens \cup {Empty}]
    /\ statted \in [Procs -> Versions]
    /\ answer \in [Procs -> Answers]
    /\ floor \in [Procs -> Versions]
    /\ known \in [Procs -> Versions]
    /\ outage \in [Procs -> BOOLEAN]

-----------------------------------------------------------------------------
(* What the Source computes.                                               *)

TokenAt(v) == IF v = 0 THEN Empty ELSE TrimRight[body[v]]

\* What Validate answers to candidate c when version v of the token is loaded.
Verdict(c, v) ==
    IF TokenAt(v) = Empty THEN "no_token"
    ELSE IF c = TokenAt(v) THEN "ok" ELSE "invalid"

\* The size a stat of version v reports: trailing white space counts.
StatSize(v) == Length[TrimRight[body[v]]] + Blanks[body[v]]

\* Mutant: the size is the length that remains after trimming.
TrimmedSize(k) == Length[TrimRight[body[k]]]

\* The size a load under the stat of version k leaves in s.size.
KeySize(k) == StatSize(k)

\* s.loaded and the stat of version v is the one in s.mtime, s.size.
Unchanged(v) ==
    /\ keyed # 0
    /\ mtime[v] = mtime[keyed]
    /\ StatSize(v) = KeySize(keyed)

\* s.mu.RLock does not wait (the read sections themselves are single steps).
CanRLock == writer = NoProc

\* Mutant: the reload runs without the write lock.
NoLockNeeded == TRUE

\* s.mu.Lock does not wait.
CanLock == writer = NoProc

Running(p) == pc[p] \notin {"idle", "done"}

Quiet == \A p \in Procs : pc[p] = "idle"

Goto(p, l) == pc' = [pc EXCEPT ![p] = l]

AnswerWith(p, a) ==
    /\ answer' = [answer EXCEPT ![p] = a]
    /\ Goto(p, "done")

-----------------------------------------------------------------------------
(* The file, as os.Stat and os.ReadFile see it.                            *)

\* The operator writes the file.  The tick moves, or (on a coarse clock) does not.
Write(b) ==
    /\ version < MaxVersion
    /\ QuietWrites => Quiet
    /\ version' = version + 1
    /\ body' = [body EXCEPT ![version + 1] = b]
    /\ \E tick \in {mtime[version] + 1} \cup (IF FineClock THEN {} ELSE {mtime[version]}) :
           mtime' = [mtime EXCEPT ![version + 1] = tick]
    /\ UNCHANGED <<access, sourceVars, callVars, ghostVars>>

\* The path is hidden from the gateway, or its contents are, or it is back.
SetAccess(a) ==
    /\ a # access
    /\ access' = a
    /\ outage' = [p \in Procs |-> outage[p] \/ (Running(p) /\ a # "readable")]
    /\ UNCHANGED <<version, body, mtime, sourceVars, callVars, floor, known>>

-----------------------------------------------------------------------------
(* Validate and reloadIfChanged.                                           *)

Call(p, c) ==
    /\ pc[p] = "idle"
    /\ Goto(p, "stat")
    /\ cand' = [cand EXCEPT ![p] = c]
    /\ floor' = [floor EXCEPT ![p] = version]
    /\ known' = [known EXCEPT ![p] = held]
    /\ outage' = [outage EXCEPT ![p] = access # "readable"]
    /\ UNCHANGED <<fileVars, sourceVars, statted, answer>>

Stat(p) ==
    /\ pc[p] = "stat"
    /\ IF access = "missing"
       THEN Goto(p, "cached") /\ UNCHANGED statted
       ELSE Goto(p, "check") /\ statted' = [statted EXCEPT ![p] = version]
    /\ UNCHANGED <<fileVars, sourceVars, cand, answer, ghostVars>>

\* Mutant: a failed stat drops the cached token.
CachedForgets(p) ==
    /\ pc[p] = "cached"
    /\ CanRLock
    /\ held' = 0 /\ keyed' = 0
    /\ AnswerWith(p, "no_token")
    /\ UNCHANGED <<fileVars, writer, fetched, cand, statted, ghostVars>>

\* The stat failed: go on with a cached token, if there is one.
Cached(p) ==
    /\ pc[p] = "cached"
    /\ CanRLock
    /\ IF TokenAt(held) # Empty
       THEN Goto(p, "compare") /\ UNCHANGED answer
       ELSE AnswerWith(p, "no_token")
    /\ UNCHANGED <<fileVars, sourceVars, cand, statted, ghostVars>>

Check(p) ==
    /\ pc[p] = "check"
    /\ CanRLock
    /\ Goto(p, IF Unchanged(statted[p]) THEN "compare" ELSE "lock")
    /\ UNCHANGED <<fileVars, sourceVars, cand, statted, answer, ghostVars>>

\* The lock is taken and the stat compared again: if another goroutine has
\* reloaded under the same stat meanwhile, the lock is given back at once.
Lock(p) ==
    /\ pc[p] = "lock"
    /\ CanLock
    /\ IF Unchanged(statted[p])
       THEN Goto(p, "compare") /\ UNCHANGED writer
       ELSE Goto(p, "read") /\ writer' = p
    /\ UNCHANGED <<fileVars, held, keyed, fetched, cand, statted, answer, ghostVars>>

Read(p) ==
    /\ pc[p] = "read"
    /\ access = "readable"
    /\ fetched' = version
    /\ Goto(p, "store")
    /\ UNCHANGED <<fileVars, held, keyed, writer, cand, statted, answer, ghostVars>>

\* Mutant: the early return does not unlock.
ReadFailsLocked(p) ==
    /\ pc[p] = "read"
    /\ access # "readable"
    /\ AnswerWith(p, "no_token")
    /\ UNCHANGED <<fileVars, sourceVars, cand, statted, ghostVars>>

\* Mutant: the read error is returned without being wrapped in ErrNoToken.
ReadFailsRaw(p) ==
    /\ pc[p] = "read"
    /\ access # "readable"
    /\ writer' = NoProc
    /\ AnswerWith(p, "os_error")
    /\ UNCHANGED <<fileVars, held, keyed, fetched, cand, statted, ghostVars>>

ReadFails(p) ==
    /\ pc[p] = "read"
    /\ access # "readable"
    /\ writer' = NoProc
    /\ AnswerWith(p, "no_token")
    /\ UNCHANGED <<fileVars, held, keyed, fetched, cand, statted, ghostVars>>

\* Mutant: the file is statted again after the read, for the key.
StoreUnderLaterStat(p) ==
    /\ pc[p] = "store"
    /\ held' = fetched
    /\ keyed' = version
    /\ writer' = NoProc
    /\ fetched' = 0
    /\ Goto(p, "compare")
    /\ UNCHANGED <<fileVars, cand, statted, answer, ghostVars>>

\* The contents just read are stored under the stat taken before the read.
Store(p) ==
    /\ pc[p] = "store"
    /\ held' = fetched
    /\ keyed' = statted[p]
    /\ writer' = NoProc
    /\ fetched' = 0
    /\ Goto(p, "compare")
    /\ UNCHANGED <<fileVars, cand, statted, answer, ghostVars>>

Compare(p) ==
    /\ pc[p] = "compare"
    /\ CanRLock
    /\ AnswerWith(p, Verdict(cand[p], held))
    /\ UNCHANGED <<fileVars, sourceVars, cand, statted, ghostVars>>

\* The call's locals and its history are gone.
Return(p) ==
    /\ pc[p] = "done"
    /\ Goto(p, "idle")
    /\ cand' = [cand EXCEPT ![p] = Empty]
    /\ statted' = [statted EXCEPT ![p] = 0]
    /\ answer' = [answer EXCEPT ![p] = "none"]
    /\ floor' = [floor EXCEPT ![p] = 0]
    /\ known' = [known EXCEPT ![p] = 0]
    /\ outage' = [outage EXCEPT ![p] = FALSE]
    /\ UNCHANGED <<fileVars, sourceVars>>

-----------------------------------------------------------------------------

Init ==
    /\ version = 1
    /\ body \in {[v \in Versions |-> b] : b \in Bodies}
    /\ mtime = [v \in Versions |-> 0]
    /\ access \in Access
    /\ held = 0 /\ keyed = 0 /\ fetched = 0
    /\ writer = NoProc
    /\ pc = [p \in Procs |-> "idle"]
    /\ cand = [p \in Procs |-> Empty]
    /\ statted = [p \in Procs |-> 0]
    /\ answer = [p \in Procs |-> "none"]
    /\ floor = [p \in Procs |-> 0]
    /\ known = [p \in Procs |-> 0]
    /\ outage = [p \in Procs |-> FALSE]

Environment ==
    \/ \E b \in Bodies : Write(b)
    \/ \E a \in Access : SetAccess(a)

\* The steps of a call that has begun.
Progress(p) ==
    \/ Stat(p) \/ Cached(p) \/ Check(p) \/ Lock(p)
    \/ Read(p) \/ ReadFails(p) \/ Store(p) \/ Compare(p)

Next ==
    \/ Environment
    \/ \E p \in Procs : \/ \E c \in Tokens : Call(p, c)
                        \/ Progress(p)
                        \/ Return(p)

Spec == Init /\ [][Next]_vars

\* A goroutine that can run does, and sync.RWMutex starves nobody: a reader
\* waits for at most the writer at hand, a writer blocks new readers, and two
\* writers take turns.  At each pc one step of Progress is possible, so strong
\* fairness of Progress is strong fairness of the step that waits for the lock.
Fairness == \A p \in Procs : SF_vars(Progress(p))

FairSpec == Spec /\ Fairness

-----------------------------------------------------------------------------
(* Properties.                                                             *)

\* The write lock is held exactly from the re-check to the return of
\* reloadIfChanged: every exit of the reload, the failed read included, has
\* given it back, and no two goroutines reload at a time.
LockHeldByReloader ==
    \A p \in Procs : pc[p] \in {"read", "store"} <=> writer = p

\* The reload key is never newer than the token it stands for, so that a
\* rotation between the stat and the read of a reload shows at the next stat
\* instead of being hidden behind a key that is already up to date.
KeyNeverAhead == keyed <= held /\ (keyed = 0 <=> held = 0)

\* A call that could read the file all along answers what some version of the
\* file says that was current between the call and its return: no rotation
\* that was complete when the call began is missed.  A call that met an outage
\* may say no_token, and otherwise answers from a loaded token that is no
\* older than the one in use when it began.
Justified(p) ==
    \/ \E v \in floor[p]..version : answer[p] = Verdict(cand[p], v)
    \/ /\ outage[p]
       /\ \/ answer[p] = "no_token"
          \/ \E v \in known[p]..version : v # 0 /\ answer[p] = Verdict(cand[p], v)

AnswersAreCurrent == \A p \in Procs : pc[p] = "done" => Justified(p)

\* The token in use only moves forward: with two goroutines reloading at once
\* the one that statted earlier cannot put back a token already replaced.
NeverBackToAnOlderToken == [][held' >= held]_held

\* Every call of Validate returns, whatever the file does.
CallsReturn == \A p \in Procs : Running(p) ~> pc[p] = "done"

\* The Source is an implementation of the oracle: every interleaving of stats,
\* reloads and comparisons looks to its callers like one version of the token
\* being served at a time, moving forward with the file.
Oracle == INSTANCE TokenOracle WITH
    readable <- access = "readable",
    served   <- held,
    phase    <- [p \in Procs |-> IF pc[p] = "idle" THEN "idle"
                                 ELSE IF pc[p] = "done" THEN "replied" ELSE "pending"]

ServesLikeTheOracle == Oracle!Spec

\* security.md: the old token stops working on the next request, also after
\* two rotations that fall on one mtime tick.
OldTokenStops ==
    \A p \in Procs :
        pc[p] = "done" /\ answer[p] = "ok" /\ ~outage[p] =>
            \E v \in floor[p]..version : cand[p] = TokenAt(v)

\* source.go says of a file that cannot be read after a token was loaded: fall
\* through with the cached token rather than lock the gateway out.  So a call
\* that begins with a token in memory, over a file that never was empty,
\* should not answer that there is none.
CachedTokenSurvives ==
    \A p \in Procs :
        pc[p] = "done" /\ answer[p] = "no_token" =>
            \/ TokenAt(known[p]) = Empty
            \/ \E v \in known[p]..version : TokenAt(v) = Empty
=============================================================================
