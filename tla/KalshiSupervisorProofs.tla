------------------------ MODULE KalshiSupervisorProofs ------------------------
(* Theorems about KalshiSupervisor, for every value of its constants. *)
EXTENDS KalshiSupervisor, FiniteSetTheorems, TLAPS

\* The smaller of two numbers.
LEMMA MinOfTwo ==
    ASSUME NEW a \in Int, NEW b \in Int
    PROVE  Min({a, b}) = IF a <= b THEN a ELSE b
<1> DEFINE m == IF a <= b THEN a ELSE b
<1>1. m \in {a, b} /\ \A y \in {a, b} : m <= y
  OBVIOUS
<1>2. \A x \in {a, b} : (\A y \in {a, b} : x <= y) => x = m
  OBVIOUS
<1> QED
  BY <1>1, <1>2, Zenon DEF Min

\* Every variable keeps its type.
LEMMA TypeInvariant == Spec => []TypeOK
<1> USE PidAssumption, NumberAssumption
<1>1. Init => TypeOK
  <2> SUFFICES ASSUME Init PROVE TypeOK
    OBVIOUS
  <2>1. books \in Books /\ pushed \in Books
    BY DEF Init, Books
  <2>2. engine \in [Pids -> [status : {"none", "warming", "running", "hung"}, silent : Nat]]
    BY DEF Init, Gone
  <2>3. pc \in [CheckIns -> [at : {"idle", "spawn", "sleeves", "report", "mark", "push"},
                            rows : Nat]]
    BY DEF Init, Idle
  <2>4. counts \in [boots : Nat, kills : Nat, strays : Nat]
    BY DEF Init
  <2> QED
    BY <2>1, <2>2, <2>3, <2>4 DEF Init, TypeOK
<1>2. TypeOK /\ [Next]_supervisorVars => TypeOK'
  <2> SUFFICES ASSUME TypeOK, [Next]_supervisorVars PROVE TypeOK'
    OBVIOUS
  <2>1. CASE UNCHANGED supervisorVars
    BY <2>1 DEF TypeOK, supervisorVars, processVars, reportVars
  <2>2. ASSUME NEW l \in Pids, Loop(l) PROVE TypeOK'
    <3>1. CASE StartLoop(l)
      BY <3>1 DEF StartLoop, TypeOK, reportVars
    <3>2. CASE Probe(l)
      BY <3>2 DEF Probe, TypeOK, reportVars
    <3>3. CASE DecideLive(l)
      BY <3>3 DEF DecideLive, TypeOK, reportVars
    <3>4. CASE Hang(l)
      BY <3>4 DEF Hang, TypeOK, reportVars
    <3>5. CASE SessionEnds(l)
      BY <3>5 DEF SessionEnds, TypeOK, Gone, reportVars
    <3> QED
      BY <2>2, <3>1, <3>2, <3>3, <3>4, <3>5 DEF Loop
  <2>3. ASSUME NEW c \in CheckIns, CheckIn(c) PROVE TypeOK'
    <3>1. CASE Look(c)
      BY <3>1 DEF Look, TypeOK, processVars, reportVars
    <3>2. CASE Spawn(c)
      BY <3>2 DEF Spawn, TypeOK, reportVars
    <3>3. CASE StopSleeves(c)
      <4>1. books.rows \in Nat
        BY DEF TypeOK, Books
      <4> QED
        BY <3>3, <4>1 DEF StopSleeves, TypeOK, Gone, reportVars
    <3>4. CASE Report(c)
      <4>1. books.mark \in Nat /\ pc[c].rows \in Nat
        BY DEF TypeOK, Books
      <4>2. (books.mark + 1 .. pc[c].rows) \subseteq Nat
        BY <4>1
      <4>3. books' \in Books
        BY <3>4, <4>2 DEF Report, TypeOK, Books
      <4> QED
        BY <3>4, <4>3 DEF Report, TypeOK, processVars
    <3>5. CASE WriteMark(c)
      <4>1. books' \in Books
        BY <3>5 DEF WriteMark, Marked, TypeOK, Books
      <4> QED
        BY <3>5, <4>1 DEF WriteMark, TypeOK, processVars
    <3>6. CASE Push(c)
      BY <3>6 DEF Push, TypeOK, Idle, processVars
    <3> QED
      BY <2>3, <3>1, <3>2, <3>3, <3>4, <3>5, <3>6 DEF CheckIn
  <2>4. CASE SettleRow
    BY <2>4 DEF SettleRow, TypeOK, Books, processVars
  <2>5. CASE Tick
    <3>1. age' \in Nat \cup {NoFile}
      <4>1. CASE age = NoFile
        BY <2>5, <4>1 DEF Tick
      <4>2. CASE age # NoFile
        <5>1. age \in Nat
          BY <4>2 DEF TypeOK
        <5>2. Min({age + 1, StaleAfter + 1}) \in Nat
          BY <5>1, MinOfTwo
        <5> QED
          BY <2>5, <4>2, <5>2 DEF Tick
      <4> QED
        BY <4>1, <4>2
    <3>2. phase' \in [Pids -> {"none", "start", "probe", "watch", "sleep"}]
      BY <2>5 DEF Tick, TypeOK
    <3>3. ASSUME NEW l \in Pids
          PROVE  [engine[l] EXCEPT !.silent = Min({@ + 1, StaleAfter + 1})]
                   \in [status : {"none", "warming", "running", "hung"}, silent : Nat]
      <4>1. engine[l].silent \in Nat
        BY DEF TypeOK
      <4>2. Min({engine[l].silent + 1, StaleAfter + 1}) \in Nat
        BY <4>1, MinOfTwo
      <4> QED
        BY <4>2, ZenonT(60) DEF TypeOK
    <3>4. engine' \in [Pids -> [status : {"none", "warming", "running", "hung"}, silent : Nat]]
      BY <2>5, <3>3 DEF Tick, TypeOK, Gone
    <3>5. orphans' \in Nat
      <4>1. PICK killed \in SUBSET Pids, left \in 0 .. orphans :
              orphans' = Min({left + Orphaned(killed), Cardinality(Pids)})
        BY <2>5 DEF Tick, Engines
      <4>2. Orphaned(killed) \in Nat /\ Cardinality(Pids) \in Nat
        BY FS_Subset, FS_CardinalityType DEF Orphaned
      <4>3. left \in Nat
        BY DEF TypeOK
      <4> QED
        BY <4>1, <4>2, <4>3, MinOfTwo
    <3> QED
      BY <2>5, <3>1, <3>2, <3>4, <3>5 DEF Tick, TypeOK, reportVars
  <2>6. CASE KillSwitch
    BY <2>6 DEF KillSwitch, TypeOK, reportVars
  <2>7. CASE StartStray
    BY <2>7 DEF StartStray, TypeOK, reportVars
  <2>8. CASE Boot
    <3>1. procs' \in [Pids -> {"none", "live", "stray", "foreign"}]
      BY <2>8 DEF Boot
    <3>2. /\ {pidfile', strayfile'} \subseteq Pids \cup {0}
          /\ books' \in Books /\ age' \in Nat \cup {NoFile}
      BY <2>8 DEF Boot, TypeOK
    <3> QED
      BY <2>8, <3>1, <3>2 DEF Boot, TypeOK, Gone, Idle
  <2> QED
    BY <2>1, <2>2, <2>3, <2>4, <2>5, <2>6, <2>7, <2>8 DEF Next
<1> QED
  BY <1>1, <1>2, PTL DEF Spec
\* One engine trades the book, for any number of pids, hangs, watchdog kills, kill
\* switches, sleeves started by hand and restarts of the host, whether or not a
\* pid comes back as something else: provided the watchdog kills the engine with
\* its `timeout` and check-ins do not overlap.
THEOREM OneEngineTrades ==
    ASSUME ReapsChild, \A c, d \in CheckIns : c = d
    PROVE  Spec => []OneEngine
<1> USE PidAssumption
<1>1. Init => SoleLoop
  BY DEF Init, SoleLoop, Live, Engines, Gone, Idle
<1>2. TypeOK /\ SoleLoop /\ [Next]_supervisorVars => SoleLoop'
  <2> SUFFICES ASSUME TypeOK, SoleLoop, [Next]_supervisorVars PROVE SoleLoop'
    OBVIOUS
  \* No loop comes, no phase but a start ends, and engines only where they were.
  <2>1. ASSUME UNCHANGED <<procs, orphans, pidfile>>,
               \A l \in Pids : phase[l] = "start" => phase'[l] = "start",
               \A l \in Pids : engine'[l].status # "none" => l \in Live,
               \A c \in CheckIns : pc'[c].at = "spawn" => Live = {}
        PROVE  SoleLoop'
    <3>1. Live' = Live
      BY <2>1 DEF Live
    <3>2. \A l \in Live : phase'[l] = "start" \/ pidfile' = l
      BY <2>1 DEF SoleLoop, Live
    <3>3. Engines' \subseteq Live
      BY <2>1 DEF Engines
    <3> QED
      BY <2>1, <3>1, <3>2, <3>3 DEF SoleLoop
  <2>2. \A l \in Pids : engine[l].status # "none" => l \in Live
    BY DEF SoleLoop, Engines
  <2>3. \A c \in CheckIns : pc[c].at = "spawn" => Live = {}
    BY DEF SoleLoop
  <2>4. CASE UNCHANGED supervisorVars
    BY <2>1, <2>2, <2>3, <2>4 DEF supervisorVars, processVars
  <2>5. ASSUME NEW l \in Pids, Loop(l) PROVE SoleLoop'
    <3>1. CASE StartLoop(l)
      <4>1. l \in Live /\ pidfile' = l /\ Live' = Live /\ Engines' = Engines
        BY <3>1 DEF StartLoop, Live, Engines
      <4>2. \A k \in Live : k = l
        BY <4>1 DEF SoleLoop
      <4> QED
        BY <3>1, <4>1, <4>2 DEF StartLoop, SoleLoop
    <3>2. CASE Probe(l)
      <4>1. l \in Live
        BY <3>2 DEF Probe, Live
      <4>2. \A k \in Pids : engine'[k].status # "none" => k = l \/ engine[k].status # "none"
        BY <3>2 DEF Probe, TypeOK
      <4>3. \A k \in Pids : phase[k] = "start" => phase'[k] = "start"
        BY <3>2 DEF Probe, TypeOK
      <4> QED
        BY <2>1, <2>2, <2>3, <3>2, <4>1, <4>2, <4>3 DEF Probe
    <3>3. CASE DecideLive(l) \/ Hang(l) \/ SessionEnds(l)
      <4>1. \A k \in Pids : engine'[k].status # "none" => engine[k].status # "none"
        <5>1. CASE DecideLive(l)
          BY <5>1 DEF DecideLive, TypeOK
        <5>2. CASE Hang(l)
          BY <5>2 DEF Hang, TypeOK
        <5>3. CASE SessionEnds(l)
          BY <5>3 DEF SessionEnds, TypeOK, Gone
        <5> QED
          BY <3>3, <5>1, <5>2, <5>3
      <4>2. UNCHANGED <<procs, orphans, pidfile, phase, pc>>
        BY <3>3 DEF DecideLive, Hang, SessionEnds
      <4> QED
        BY <2>1, <2>2, <2>3, <4>1, <4>2
    <3> QED
      BY <2>5, <3>1, <3>2, <3>3 DEF Loop
  <2>6. ASSUME NEW c \in CheckIns, CheckIn(c) PROVE SoleLoop'
    <3>1. \A d \in CheckIns : d = c
      OBVIOUS
    \* No loop in its start and none in the pid file: there is none.
    <3>2. CASE Look(c)
      <4>1. pc'[c].at = "spawn" => ~Alive /\ ~\E l \in Live : phase[l] = "start"
        BY <3>2 DEF Look, TypeOK
      <4>2. pc'[c].at = "spawn" => Live = {}
        <5>1. \A l \in Live : l # 0 /\ procs[l] = "live"
          BY DEF Live
        <5> QED
          BY <4>1, <5>1 DEF SoleLoop, Alive, Exists
      <4>3. UNCHANGED <<procs, orphans, pidfile, phase, engine>>
        BY <3>2 DEF Look, processVars
      <4> QED
        BY <2>1, <2>2, <3>1, <4>2, <4>3
    <3>3. CASE Spawn(c)
      <4>1. PICK p \in Pids : /\ procs[p] = "none" /\ engine[p] = Gone
                              /\ procs' = [procs EXCEPT ![p] = "live"]
                              /\ phase' = [phase EXCEPT ![p] = "start"]
        BY <3>3 DEF Spawn
      <4>2. Live = {}
        BY <3>3 DEF Spawn, SoleLoop
      <4>3. Live' = {p}
        BY <4>1, <4>2 DEF Live, TypeOK
      <4>4. phase'[p] = "start"
        BY <4>1 DEF TypeOK
      <4>5. Engines' = {}
        BY <3>3, <4>2 DEF Spawn, Engines, SoleLoop
      <4>6. \A d \in CheckIns : pc'[d].at # "spawn"
        BY <3>1, <3>3 DEF Spawn, TypeOK
      <4>7. orphans' = 0
        BY <3>3 DEF Spawn, SoleLoop
      <4> QED
        BY <4>3, <4>4, <4>5, <4>6, <4>7 DEF SoleLoop
    \* What is stopped is a sleeve, which has no engine of this book.
    <3>4. CASE StopSleeves(c)
      <4>1. \A p \in Pids : p \in StopTarget => procs[p] = "stray"
        BY DEF StopTarget
      <4>2. Live' = Live
        BY <3>4, <4>1 DEF StopSleeves, Live
      <4>3. \A l \in Live : phase'[l] = phase[l]
        BY <3>4, <4>1 DEF StopSleeves, Live
      <4>4. Engines' \subseteq Engines
        BY <3>4 DEF StopSleeves, Engines, Gone
      <4>5. \A d \in CheckIns : pc'[d].at # "spawn"
        BY <3>1, <3>4 DEF StopSleeves, TypeOK
      <4> QED
        BY <3>4, <4>2, <4>3, <4>4, <4>5 DEF StopSleeves, SoleLoop
    <3>5. CASE Report(c) \/ WriteMark(c) \/ Push(c)
      <4>1. UNCHANGED <<procs, orphans, pidfile, phase, engine>>
        BY <3>5 DEF Report, WriteMark, Push, processVars
      <4>2. pc'[c].at # "spawn"
        BY <3>5 DEF Report, WriteMark, Push, Idle, TypeOK
      <4> QED
        BY <2>1, <2>2, <3>1, <4>1, <4>2
    <3> QED
      BY <2>6, <3>2, <3>3, <3>4, <3>5 DEF CheckIn
  <2>7. CASE SettleRow
    BY <2>1, <2>2, <2>3, <2>7 DEF SettleRow, processVars
  <2>8. CASE Tick
    <3>1. \A l \in Pids : phase[l] = "start" => phase'[l] = "start"
      BY <2>8 DEF Tick
    <3>2. \A l \in Pids : engine'[l].status # "none" => engine[l].status # "none"
      BY <2>8 DEF Tick, TypeOK, Gone
    <3>3. orphans' = 0
      <4>1. PICK killed \in SUBSET Pids, left \in 0 .. orphans :
              orphans' = Min({left + Orphaned(killed), Cardinality(Pids)})
        BY <2>8 DEF Tick, Engines
      <4>2. left + Orphaned(killed) = 0
        BY DEF Orphaned, SoleLoop
      <4>3. Cardinality(Pids) \in Nat
        BY FS_CardinalityType
      <4> QED
        BY <4>1, <4>2, <4>3, MinOfTwo
    <3>4. UNCHANGED <<procs, pidfile, pc>> /\ orphans = 0
      BY <2>8 DEF Tick, SoleLoop
    <3> QED
      BY <2>1, <2>2, <2>3, <3>1, <3>2, <3>3, <3>4
  <2>9. CASE KillSwitch
    BY <2>1, <2>2, <2>3, <2>9 DEF KillSwitch
  <2>10. CASE StartStray
    <3>1. PICK p \in Pids : procs[p] = "none" /\ procs' = [procs EXCEPT ![p] = "stray"]
      BY <2>10 DEF StartStray
    <3>2. Live' = Live
      BY <3>1 DEF Live, TypeOK
    <3> QED
      BY <2>10, <3>2 DEF StartStray, SoleLoop, Engines
  <2>11. CASE Boot
    BY <2>11 DEF Boot, SoleLoop, Live, Engines, Gone, Idle
  <2> QED
    BY <2>4, <2>5, <2>6, <2>7, <2>8, <2>9, <2>10, <2>11 DEF Next
<1>3. SoleLoop => OneEngine
  <2> SUFFICES ASSUME SoleLoop PROVE OneEngine
    OBVIOUS
  <2>1. Engines = {} \/ \E l : Engines = {l}
    <3>1. \A l, k \in Engines : l = k
      BY DEF SoleLoop
    <3>2. ASSUME NEW l \in Engines PROVE Engines = {l}
      BY <3>1
    <3> QED
      BY <3>2
  <2>2. Cardinality(Engines) \in {0, 1}
    BY <2>1, FS_EmptySet, FS_Singleton
  <2> QED
    BY <2>2 DEF SoleLoop, OneEngine
<1> QED
  BY <1>1, <1>2, <1>3, TypeInvariant, PTL DEF Spec

\* No settled fill is skipped by the reports, on this host and on a clone of the
\* repository, even when check-ins overlap, pushes fail and the host restarts.
THEOREM FillsReported == Spec => []NoFillUnreported
<1>1. Init => ReportInv
  BY DEF Init, ReportInv, WrittenUp, Idle
<1>2. TypeOK /\ ReportInv /\ [Next]_supervisorVars => ReportInv'
  <2> SUFFICES ASSUME TypeOK, ReportInv, [Next]_supervisorVars PROVE ReportInv'
    OBVIOUS
  <2>1. ASSUME UNCHANGED <<books, pushed>>,
               \A c \in CheckIns : pc'[c].at = "mark" => pc'[c] = pc[c]
        PROVE  ReportInv'
    BY <2>1 DEF ReportInv, WrittenUp
  <2>2. CASE UNCHANGED supervisorVars
    BY <2>1, <2>2 DEF supervisorVars, reportVars
  <2>3. ASSUME NEW l \in Pids, Loop(l) PROVE ReportInv'
    BY <2>1, <2>3 DEF Loop, StartLoop, Probe, DecideLive, Hang, SessionEnds, reportVars
  <2>4. ASSUME NEW c \in CheckIns, CheckIn(c) PROVE ReportInv'
    <3>1. CASE Look(c) \/ Spawn(c) \/ StopSleeves(c)
      <4>1. UNCHANGED <<books, pushed>>
        BY <3>1 DEF Look, Spawn, StopSleeves, reportVars
      <4>2. \A d \in CheckIns : pc'[d].at = "mark" => pc'[d] = pc[d]
        BY <3>1 DEF Look, Spawn, StopSleeves, TypeOK
      <4> QED
        BY <2>1, <4>1, <4>2
    <3>2. CASE Report(c)
      <4>1. /\ books'.mark = books.mark
            /\ books'.reported = books.reported \cup (books.mark + 1 .. pc[c].rows)
        BY <3>2 DEF Report, TypeOK, Books
      <4>2. books.mark \in Nat /\ pc[c].rows \in Nat
        BY DEF TypeOK, Books
      <4>3. \A n : WrittenUp(books, n) => 1 .. n \subseteq books'.reported
        BY <4>1 DEF WrittenUp
      <4>4. 1 .. pc[c].rows \subseteq books'.reported
        <5>1. 1 .. books.mark \subseteq books.reported
          BY DEF ReportInv, WrittenUp
        <5> QED
          BY <4>1, <4>2, <5>1
      <4>5. /\ pc'[c].rows = pc[c].rows
            /\ \A d \in CheckIns : d # c => pc'[d] = pc[d]
        BY <3>2 DEF Report, TypeOK
      <4>6. pushed' = pushed
        BY <3>2 DEF Report
      <4>7. \A d \in CheckIns : pc'[d].at = "mark" => 1 .. pc'[d].rows \subseteq books'.reported
        BY <4>3, <4>4, <4>5 DEF ReportInv
      <4> QED
        BY <4>1, <4>3, <4>6, <4>7 DEF ReportInv, WrittenUp
    <3>3. CASE WriteMark(c)
      <4>1. books'.mark = pc[c].rows /\ books'.reported = books.reported
            /\ pushed' = pushed /\ pc[c].at = "mark"
        BY <3>3 DEF WriteMark, Marked, TypeOK, Books
      <4>2. \A d \in CheckIns : pc'[d].at = "mark" => pc'[d] = pc[d]
        BY <3>3 DEF WriteMark, TypeOK
      <4> QED
        BY <4>1, <4>2 DEF ReportInv, WrittenUp
    <3>4. CASE Push(c)
      <4>1. books' = books /\ (pushed' = pushed \/ pushed' = books)
        BY <3>4 DEF Push
      <4>2. \A d \in CheckIns : pc'[d].at = "mark" => pc'[d] = pc[d]
        BY <3>4 DEF Push, Idle, TypeOK
      <4> QED
        BY <4>1, <4>2 DEF ReportInv, WrittenUp
    <3> QED
      BY <2>4, <3>1, <3>2, <3>3, <3>4 DEF CheckIn
  <2>5. CASE SettleRow
    BY <2>5 DEF SettleRow, ReportInv, WrittenUp, TypeOK, Books
  <2>6. CASE Tick \/ KillSwitch \/ StartStray
    BY <2>1, <2>6 DEF Tick, KillSwitch, StartStray, reportVars
  <2>7. CASE Boot
    BY <2>7 DEF Boot, ReportInv, WrittenUp, Idle
  <2> QED
    BY <2>2, <2>3, <2>4, <2>5, <2>6, <2>7 DEF Next
<1>3. ReportInv => NoFillUnreported
  BY DEF ReportInv, WrittenUp, NoFillUnreported
<1> QED
  BY <1>1, <1>2, <1>3, TypeInvariant, PTL DEF Spec
=============================================================================
