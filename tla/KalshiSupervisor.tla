-------------------------- MODULE KalshiSupervisor --------------------------
(***************************************************************************)
(* What keeps the Kalshi desk running: the supervisor loop with its pid    *)
(* file and watchdog (scripts/kalshi_paper_loop.sh), and the check-in that *)
(* starts the loop again, stops the paper sleeves that were sat and reports*)
(* new fills (quantfirm/kalshi/runtime.py, scripts/kalshi_desk_checkin.py).*)
(*                                                                         *)
(* The perps desk has a loop of the same shape (scripts/perps_loop.sh).    *)
(*                                                                         *)
(* A Tick is the watchdog's 30 seconds.  An engine writes to the decisions *)
(* file within WarmUp ticks of its start and at every tick after that,     *)
(* unless it hangs.                                                        *)
(***************************************************************************)
EXTENDS Integers, FiniteSets, FiniteSetsExt

CONSTANTS
    Pids,
    CheckIns,     \* check-ins that may run at the same time
    WarmUp,       \* ticks until a session's first decision
    StaleAfter,   \* ticks without a decision that the watchdog allows
    PidReuse,     \* a restarted host may give an old pid to something else
    MaxBoot,      \* restarts of the host
    MaxRow,       \* settled fills
    ReapsChild,   \* TRUE: the watchdog kills what is under `timeout` as well
    MaxKill,      \* times the kill switch is set
    MaxStray      \* sleeves that somebody starts by hand

ASSUME PidAssumption    == IsFiniteSet(Pids) /\ Pids \subseteq Nat \ {0}
ASSUME NumberAssumption == /\ {WarmUp, StaleAfter, MaxBoot, MaxRow, MaxKill, MaxStray}
                                \subseteq Nat
                           /\ {PidReuse, ReapsChild} \subseteq BOOLEAN

VARIABLES
    procs,     \* pid -> "none", "live" or "stray" loop, or "foreign"
    pidfile,   \* kalshi_paper_loop.pid, 0 if it does not exist
    strayfile, \* the sleeve's pid file
    phase,     \* pid -> where the live loop is
    engine,    \* pid -> [status, silent] of the engine that loop started
    orphans,   \* engines whose `timeout` is dead
    age,       \* ticks since the decisions file was written, or NoFile
    kill,      \* the kill switch file exists
    pc,        \* check-in -> where it is, and the rows it has read
    books,     \* [rows, reported, mark]: trade rows, those written up, the mark file
    pushed,    \* what the remote repository has of books
    counts     \* [boots, kills, strays], bounded

processVars == <<procs, pidfile, strayfile, phase, engine, orphans, age, kill>>
reportVars == <<books, pushed>>
supervisorVars == <<processVars, pc, reportVars, counts>>

Gone == [status |-> "none", silent |-> 0]
NoFile == -1
Idle == [at |-> "idle", rows |-> 0]
Exists(p) == p # 0 /\ procs[p] # "none"
Live == {p \in Pids : procs[p] = "live"}
Engines == {p \in Pids : engine[p].status # "none"}

Books == [rows : Nat, reported : SUBSET Nat, mark : Nat]

TypeOK ==
    /\ procs \in [Pids -> {"none", "live", "stray", "foreign"}]
    /\ {pidfile, strayfile} \subseteq Pids \cup {0}
    /\ phase \in [Pids -> {"none", "start", "probe", "watch", "sleep"}]
    /\ engine \in [Pids -> [status : {"none", "warming", "running", "hung"}, silent : Nat]]
    /\ orphans \in Nat
    /\ age \in Nat \cup {NoFile}
    /\ kill \in BOOLEAN
    /\ pc \in [CheckIns -> [at : {"idle", "spawn", "sleeves", "report", "mark", "push"},
                            rows : Nat]]
    /\ books \in Books /\ pushed \in Books
    /\ counts \in [boots : Nat, kills : Nat, strays : Nat]

-----------------------------------------------------------------------------
(* The loop and its engine *)

\* The loop begins by writing its pid file over whatever is there.
StartLoop(l) ==
    /\ procs[l] = "live" /\ phase[l] = "start"
    /\ pidfile' = l /\ phase' = [phase EXCEPT ![l] = "probe"]
    /\ UNCHANGED <<procs, strayfile, engine, orphans, age, kill, pc, reportVars, counts>>

\* open-count: no open window sleeps, anything else starts a session.
Probe(l) ==
    /\ procs[l] = "live" /\ phase[l] = "probe"
    /\ \/ phase' = [phase EXCEPT ![l] = "sleep"] /\ UNCHANGED engine
       \/ /\ phase' = [phase EXCEPT ![l] = "watch"]
          /\ engine' = [engine EXCEPT ![l] = [status |-> "warming", silent |-> 0]]
    /\ UNCHANGED <<procs, pidfile, strayfile, orphans, age, kill, pc, reportVars, counts>>

\* A tick of the engine that gets to log a decision.
DecideLive(l) ==
    /\ engine[l].status \in {"warming", "running"} /\ ~kill
    /\ engine[l].silent = (IF engine[l].status = "warming" THEN WarmUp ELSE 1)
    /\ engine' = [engine EXCEPT ![l] = [status |-> "running", silent |-> 0]]
    /\ age' = 0
    /\ UNCHANGED <<procs, pidfile, strayfile, phase, orphans, kill, pc, reportVars, counts>>

Hang(l) ==
    /\ engine[l].status = "running"
    /\ engine' = [engine EXCEPT ![l].status = "hung"]
    /\ UNCHANGED <<procs, pidfile, strayfile, phase, orphans, age, kill, pc, reportVars, counts>>

\* The session is over, or crashed, or `timeout` ended it.
SessionEnds(l) ==
    /\ engine[l].status # "none"
    /\ engine' = [engine EXCEPT ![l] = Gone]
    /\ UNCHANGED <<procs, pidfile, strayfile, phase, orphans, age, kill, pc, reportVars, counts>>

\* A fill settles: a row of the trade log.
SettleRow ==
    /\ books.rows < MaxRow /\ \E l \in Engines : engine[l].status = "running"
    /\ books' = [books EXCEPT !.rows = @ + 1]
    /\ UNCHANGED <<processVars, pc, pushed, counts>>

\* Time does not pass an engine that has a decision to log.
Overdue(l) ==
    /\ ~kill
    /\ \/ engine[l].status = "warming" /\ engine[l].silent >= WarmUp
       \/ engine[l].status = "running" /\ engine[l].silent >= 1

\* A watchdog that kills the wrapper and not the engine under it.
LeftRunning(killed) == Cardinality(killed)

\* The watchdog kills the engine and then its `timeout`, or only the latter:
\* then the engine goes on without a parent.
Orphaned(killed) == IF ReapsChild THEN 0 ELSE Cardinality(killed)

\* Half a minute passes: every loop that watches finds its engine gone, or the
\* decisions file too old, and every sleep ends.  An engine without a parent ends
\* when its minutes are over.
Tick ==
    /\ ~\E l \in Pids : Overdue(l)
    /\ age' = IF age = NoFile THEN NoFile ELSE Min({age + 1, StaleAfter + 1})
    /\ LET stale == age' > StaleAfter
           watching(l) == procs[l] = "live" /\ phase[l] = "watch"
           over(l) == watching(l) /\ (engine[l] = Gone \/ stale)
           later(e) == IF e = Gone THEN e ELSE [e EXCEPT !.silent = Min({@ + 1, StaleAfter + 1})]
       IN /\ phase' = [l \in Pids |-> IF over(l) THEN "sleep"
                                      ELSE IF phase[l] = "sleep" THEN "probe" ELSE phase[l]]
          /\ engine' = [l \in Pids |-> IF over(l) THEN Gone ELSE later(engine[l])]
          /\ \E left \in 0 .. orphans :
                orphans' = Min({left + Orphaned({l \in Engines : over(l)}), Cardinality(Pids)})
    /\ UNCHANGED <<procs, pidfile, strayfile, kill, pc, reportVars, counts>>

\* The kill switch appears and is removed; every engine sees it at its next
\* tick and ends, in SessionEnds.
KillSwitch ==
    /\ kill \/ counts.kills < MaxKill
    /\ kill' = ~kill
    /\ counts' = [counts EXCEPT !.kills = IF kill THEN @ ELSE @ + 1]
    /\ UNCHANGED <<procs, pidfile, strayfile, phase, engine, orphans, age, pc, reportVars>>

-----------------------------------------------------------------------------
(* The check-in *)

\* A pid file is all the liveness there is.
AliveByFile == pidfile # 0

\* supervisor_alive: the pid in the file is a process.
Alive == Exists(pidfile)

\* ensure_supervisor starts nothing under the kill switch, and otherwise looks
\* for the process.  A loop that an earlier check-in
\* started has written its pid file by now: check-ins are minutes apart.
Look(c) ==
    /\ pc[c] = Idle /\ ~\E l \in Live : phase[l] = "start"
    /\ pc' = [pc EXCEPT ![c].at = IF kill \/ Alive THEN "sleeves" ELSE "spawn"]
    /\ UNCHANGED <<processVars, reportVars, counts>>

\* ... and starts one under a free pid.
Spawn(c) ==
    /\ pc[c].at = "spawn"
    /\ \E p \in Pids :
          /\ procs[p] = "none" /\ engine[p] = Gone
          /\ procs' = [procs EXCEPT ![p] = "live"]
          /\ phase' = [phase EXCEPT ![p] = "start"]
    /\ pc' = [pc EXCEPT ![c].at = "sleeves"]
    /\ UNCHANGED <<pidfile, strayfile, engine, orphans, age, kill, reportVars, counts>>

\* _stop_named_supervisor kills what the pid file names if its command line is
\* the sleeve's; SIGKILL leaves the pid file behind.
StopTarget == IF Exists(strayfile) /\ procs[strayfile] = "stray" THEN {strayfile} ELSE {}

StopSleeves(c) ==
    /\ pc[c].at = "sleeves"
    /\ procs' = [p \in Pids |-> IF p \in StopTarget THEN "none" ELSE procs[p]]
    /\ phase' = [p \in Pids |-> IF p \in StopTarget THEN "none" ELSE phase[p]]
    /\ engine' = [p \in Pids |-> IF p \in StopTarget THEN Gone ELSE engine[p]]
    /\ pc' = [pc EXCEPT ![c] = [at |-> "report", rows |-> books.rows]]
    /\ UNCHANGED <<pidfile, strayfile, orphans, age, kill, reportVars, counts>>

\* The new rows are written up, and then the mark is moved.
Report(c) ==
    /\ pc[c].at = "report"
    /\ books' = [books EXCEPT !.reported = @ \cup (books.mark + 1 .. pc[c].rows)]
    /\ pc' = [pc EXCEPT ![c].at = "mark"]
    /\ UNCHANGED <<processVars, pushed, counts>>

\* A mark that follows the trade log and not what has been written up.
MarkedLate(c) == books.rows
Marked(c) == pc[c].rows

WriteMark(c) ==
    /\ pc[c].at = "mark"
    /\ books' = [books EXCEPT !.mark = Marked(c)]
    /\ pc' = [pc EXCEPT ![c].at = "push"]
    /\ UNCHANGED <<processVars, pushed, counts>>

\* git commit and push; the push may fail.
Push(c) ==
    /\ pc[c].at = "push"
    /\ pushed' \in {pushed, books}
    /\ pc' = [pc EXCEPT ![c] = Idle]
    /\ UNCHANGED <<processVars, books, counts>>

-----------------------------------------------------------------------------
(* The host *)

\* Somebody starts a sat sleeve by hand.
StartStray ==
    /\ counts.strays < MaxStray
    /\ \E p \in Pids :
          /\ procs[p] = "none" /\ engine[p] = Gone
          /\ procs' = [procs EXCEPT ![p] = "stray"] /\ strayfile' = p
    /\ counts' = [counts EXCEPT !.strays = @ + 1]
    /\ UNCHANGED <<pidfile, phase, engine, orphans, age, kill, pc, reportVars>>

\* The host restarts: every process is gone, no trap has run, the disk is as it
\* was or is a new clone, and an old pid may be in use again.
Boot ==
    /\ counts.boots < MaxBoot
    /\ counts' = [counts EXCEPT !.boots = @ + 1]
    /\ \E foreign \in IF PidReuse THEN SUBSET Pids ELSE {{}} :
          procs' = [p \in Pids |-> IF p \in foreign THEN "foreign" ELSE "none"]
    /\ phase' = [p \in Pids |-> "none"] /\ engine' = [p \in Pids |-> Gone]
    /\ orphans' = 0
    /\ pc' = [c \in CheckIns |-> Idle]
    /\ \/ UNCHANGED <<pidfile, strayfile, books, age>>
       \/ pidfile' = 0 /\ strayfile' = 0 /\ books' = pushed /\ age' = NoFile
    /\ UNCHANGED <<kill, pushed>>

Init ==
    /\ procs = [p \in Pids |-> "none"] /\ phase = [p \in Pids |-> "none"]
    /\ engine = [p \in Pids |-> Gone]
    /\ orphans = 0 /\ pidfile = 0 /\ strayfile = 0 /\ age = NoFile /\ kill = FALSE
    /\ pc = [c \in CheckIns |-> Idle]
    /\ books = [rows |-> 0, reported |-> {}, mark |-> 0] /\ pushed = books
    /\ counts = [boots |-> 0, kills |-> 0, strays |-> 0]

Loop(l) == StartLoop(l) \/ Probe(l) \/ DecideLive(l) \/ Hang(l) \/ SessionEnds(l)
CheckIn(c) == Look(c) \/ Spawn(c) \/ StopSleeves(c) \/ Report(c) \/ WriteMark(c) \/ Push(c)

Next ==
    \/ \E l \in Pids : Loop(l)
    \/ \E c \in CheckIns : CheckIn(c)
    \/ SettleRow \/ Tick \/ KillSwitch \/ StartStray \/ Boot

\* Check-ins run from a timer; a process that was started runs.
Fairness ==
    /\ \A c \in CheckIns : WF_supervisorVars(CheckIn(c))
    /\ \A l \in Pids : WF_supervisorVars(StartLoop(l))

Spec == Init /\ [][Next]_supervisorVars
FairSpec == Spec /\ Fairness

-----------------------------------------------------------------------------
(* Properties *)

\* One engine trades the book, through hangs, watchdog kills, sessions, host
\* restarts and check-ins (of which one runs at a time).
OneEngine == Cardinality(Engines) + orphans <= 1

\* Why there is one: a loop is named by the pid file as soon as it has begun, a
\* check-in about to start one knows that there is none, every engine has its
\* loop, and no engine outlives it.
SoleLoop ==
    /\ \A l \in Live : phase[l] = "start" \/ pidfile = l
    /\ \A l, k \in Live : l = k
    /\ \A c \in CheckIns : pc[c].at = "spawn" => Live = {}
    /\ Engines \subseteq Live
    /\ orphans = 0

\* A fill the mark has passed is in the report, on this host and on a clone.
NoFillUnreported == 1 .. books.mark \subseteq books.reported /\ 1 .. pushed.mark \subseteq pushed.reported

\* Why: what a check-in is about to mark it has written up before.
WrittenUp(b, n) == 1 .. n \subseteq b.reported

ReportInv ==
    /\ WrittenUp(books, books.mark) /\ WrittenUp(pushed, pushed.mark)
    /\ \A c \in CheckIns : pc[c].at = "mark" => WrittenUp(books, pc[c].rows)

\* A desk without its loop gets one again, unless the kill switch is set.
LoopReturns == Live = {} ~> Live # {} \/ kill
=============================================================================
