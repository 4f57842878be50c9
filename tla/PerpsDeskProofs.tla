-------------------------- MODULE PerpsDeskProofs --------------------------
(***************************************************************************)
(* Theorems about PerpsDesk, for every universe, cap, number of weeks and  *)
(* number of killed engines; and, at the end, about what PerpsPortfolios   *)
(* asks the desk to hold and the signals of PerpsSignals it sizes.         *)
(***************************************************************************)
EXTENDS PerpsDesk, Sequences, SumTheorems

Stages == {"off", "observe", "tick", "orders", "post", "loop"}

\* An order that is none.
LEMMA NoOrderType == NoOrder \in [asset : Assets, delta : Int, reduces : BOOLEAN]
<1>1. (CHOOSE a \in Assets : TRUE) \in Assets
  BY PerpsAssumption
<1> QED
  BY <1>1 DEF NoOrder

\* An engine that starts a stage with nothing to do.
LEMMA OffType ==
    /\ Off \in Run /\ Off.pc = "off" /\ Off.todo = {}
    /\ \A pc \in Stages : /\ [Off EXCEPT !.pc = pc] \in Run
                          /\ [Off EXCEPT !.pc = pc].pc = pc
<1>1. Off.pc = "off" /\ Off.todo = {}
  BY DEF Off
<1>2. Off \in Run
  BY NoOrderType DEF Off, Run
<1>3. ASSUME NEW pc \in Stages
      PROVE  [Off EXCEPT !.pc = pc] \in Run /\ [Off EXCEPT !.pc = pc].pc = pc
  BY <1>2 DEF Run, Stages
<1> QED
  BY <1>1, <1>2, <1>3

\* What the venue may fill of an order.
LEMMA FillType ==
    ASSUME NEW o \in [asset : Assets, delta : Int, reduces : BOOLEAN], NEW n \in Fills(o)
    PROVE  n \in Nat /\ n <= Magnitude(o.delta) /\ Signed(o, n) \in Int
  BY DEF Fills, Magnitude, Signed

-----------------------------------------------------------------------------
(* Types.                                                                  *)

LEMMA InitType == Init => TypeOK
<1>1. Flat \in [Assets -> Int]
  BY DEF Flat
<1>2. NewBook \in Book
  BY <1>1, PerpsAssumption DEF NewBook, Book, Halts
<1>3. 1 \in 1..MaxWeek /\ 0 \in 0..MaxCrash /\ 0 \in Nat /\ Off \in Run
  BY OffType, PerpsAssumption
<1> QED
  BY <1>1, <1>2, <1>3, Zenon DEF Init, TypeOK

LEMMA TickType ==
    ASSUME TypeOK,
           \/ Start \/ Observe \/ Again \/ EndSession \/ TickKill \/ TickNothing \/ Mismatch
           \/ Crash \/ NewWeek \/ OwnerTrips \/ OwnerResumes \/ OwnerRepairs
    PROVE  TypeOK'
<1> USE OffType
<1>1. NewBook \in Book
  BY PerpsAssumption DEF NewBook, Book, Flat, Halts
<1>2. CASE Start
  BY <1>2 DEF Start, TypeOK, GoTo, Stages
<1>3. CASE Observe
  BY <1>1, <1>3 DEF Observe, TypeOK, GoTo, Exit, Stages
<1>4. CASE Again
  BY <1>4 DEF Again, TypeOK, GoTo, Stages
<1>5. CASE EndSession
  BY <1>1, <1>5 DEF EndSession, TypeOK, GoTo, Exit, Stages
<1>6. CASE TickKill
  BY <1>6 DEF TickKill, TypeOK, GoTo, Saved, Stages, Book, Halts
<1>7. CASE TickNothing
  BY <1>7 DEF TickNothing, TypeOK, GoTo, Saved, Stages
<1>8. CASE Mismatch
  BY <1>8 DEF Mismatch, TypeOK, GoTo, Saved, Stages, Book, Halts
<1>9. CASE Crash
  BY <1>1, <1>9, PerpsAssumption DEF Crash, TypeOK, GoTo, Exit, Stages
<1>10. CASE NewWeek
  BY <1>10, PerpsAssumption DEF NewWeek, TypeOK
<1>11. CASE OwnerTrips
  BY <1>11 DEF OwnerTrips, TypeOK
<1>12. CASE OwnerResumes
  BY <1>12 DEF OwnerResumes, TypeOK
<1>13. CASE OwnerRepairs
  BY <1>13 DEF OwnerRepairs, TypeOK, Book, Halts
<1> QED
  BY <1>2, <1>3, <1>4, <1>5, <1>6, <1>7, <1>8, <1>9, <1>10, <1>11, <1>12, <1>13

LEMMA OrderType ==
    ASSUME TypeOK,
           \/ DrawdownKill \/ Rebalance \/ (\E a \in Assets : Skip(a) \/ Gate(a))
           \/ Post \/ TripDrawdown \/ EndRebalance
           \/ \E a \in Assets : BracketFires(a)
    PROVE  TypeOK'
<1> USE OffType
<1>1. CASE DrawdownKill
  BY <1>1 DEF DrawdownKill, TypeOK, Held, Run
<1>2. CASE Rebalance
  <2>1. PICK stopped \in BOOLEAN :
            run' = [Off EXCEPT !.pc = "orders", !.todo = Assets,
                               !.adds = book.rebalanced < week /\ ~stopped]
    BY <1>2 DEF Rebalance
  <2>2. (book.rebalanced < week /\ ~stopped) \in BOOLEAN
    OBVIOUS
  <2>3. run' \in Run
    BY <2>1, <2>2 DEF Run
  <2> QED
    BY <1>2, <2>3 DEF Rebalance, TypeOK
<1>3. ASSUME NEW a \in Assets, Skip(a)
      PROVE  TypeOK'
  BY <1>3 DEF Skip, TypeOK, Run
<1>4. ASSUME NEW a \in Assets, Gate(a)
      PROVE  TypeOK'
  <2>1. PICK target \in IF run.flatten THEN {0} ELSE 0..Cap :
            run' = [run EXCEPT !.pc = "post", !.todo = @ \ {a},
                        !.order = [asset |-> a, delta |-> target - book.positions[a],
                                   reduces |-> target - book.positions[a] < 0]]
    BY <1>4 DEF Gate
  <2> DEFINE order == [asset |-> a, delta |-> target - book.positions[a],
                       reduces |-> target - book.positions[a] < 0]
  <2>2. target \in Int /\ book.positions[a] \in Int
    BY PerpsAssumption DEF TypeOK, Book
  <2>3. (target - book.positions[a] < 0) \in BOOLEAN
    OBVIOUS
  <2>4. order \in [asset : Assets, delta : Int, reduces : BOOLEAN]
    BY <2>2, <2>3
  <2>5. run' = [run EXCEPT !.pc = "post", !.todo = @ \ {a}, !.order = order]
    BY <2>1
  <2> HIDE DEF order
  <2>6. run' \in Run
    BY <2>4, <2>5 DEF TypeOK, Run
  <2> QED
    BY <1>4, <2>6 DEF Gate, TypeOK
<1>5. run.order \in [asset : Assets, delta : Int, reduces : BOOLEAN]
  BY DEF TypeOK, Run
<1>6. ASSUME NEW n \in Fills(run.order), Executed(run.order, n)
      PROVE  venue' \in [Assets -> Int] /\ late' \in Nat
  BY <1>5, <1>6, FillType DEF Executed, TypeOK
<1>7. NextAsset => run' \in Run
  <2>1. ASSUME NEW o \in [asset : Assets, delta : Int, reduces : BOOLEAN]
        PROVE  [run EXCEPT !.pc = "orders", !.order = o] \in Run
    BY DEF TypeOK, Run
  <2> QED
    BY <2>1, NoOrderType DEF NextAsset
<1>8. CASE PostAnswered
  <2>1. PICK n \in Fills(run.order) :
            /\ Executed(run.order, n)
            /\ book' = [book EXCEPT !.positions[run.order.asset] = @ + Signed(run.order, n)]
    BY <1>8 DEF PostAnswered
  <2>2. book' \in Book
    BY <1>5, <2>1, FillType DEF TypeOK, Book
  <2> QED
    BY <1>6, <1>7, <1>8, <2>1, <2>2 DEF PostAnswered, TypeOK
<1>9. CASE PostRefused
  BY <1>7, <1>9 DEF PostRefused, TypeOK, Book, Halts
<1>10. CASE PostLost
  <2>1. book' \in Book
    BY <1>10 DEF PostLost, TypeOK, Book, Halts
  <2> QED
    BY <1>6, <1>7, <1>10, <2>1 DEF PostLost, TypeOK
<1>11. CASE PostUnreadable
  BY <1>6, <1>11 DEF PostUnreadable, TypeOK, GoTo, Stages
<1>12. CASE TripDrawdown
  BY <1>12 DEF TripDrawdown, TypeOK, GoTo, Saved, Stages
<1>13. CASE EndRebalance
  BY <1>13 DEF EndRebalance, TypeOK, GoTo, Saved, Stages, Book, Held
<1>14. ASSUME NEW a \in Assets, BracketFires(a)
       PROVE  TypeOK'
  BY <1>14 DEF BracketFires, TypeOK
<1> QED
  BY <1>1, <1>2, <1>3, <1>4, <1>8, <1>9, <1>10, <1>11, <1>12, <1>13, <1>14 DEF Post

LEMMA StepType == TypeOK /\ [Next]_vars => TypeOK'
<1>1. TypeOK /\ UNCHANGED vars => TypeOK'
  BY DEF vars, TypeOK
<1> QED
  BY <1>1, TickType, OrderType DEF Next, Engine

\* Every variable keeps its type: positions are whole contracts, a halt has one
\* of the four reasons, and an order that waits for its answer is of an asset.
THEOREM TypeCorrect == Spec => []TypeOK
  BY InitType, StepType, PTL DEF Spec

-----------------------------------------------------------------------------
(* The switch.                                                             *)

\* No order reaches the venue late before the switch is there, and the one that
\* waits for its answer has not reached it: it passed the gate without a switch.
KillInv ==
    /\ late \in {0, 1}
    /\ ~file => late = 0
    /\ At("post") => late = 0

LEMMA KillStep == TypeOK /\ KillInv /\ [Next]_vars => KillInv'
<1> SUFFICES ASSUME TypeOK, KillInv, [Next]_vars
             PROVE  KillInv'
  OBVIOUS
<1> USE OffType DEF KillInv, At, Stages
<1>1. CASE Start
  BY <1>1 DEF Start, GoTo
<1>2. CASE Observe
  BY <1>2 DEF Observe, GoTo, Exit
<1>3. CASE Again \/ EndSession
  BY <1>3 DEF Again, EndSession, GoTo, Exit
<1>4. CASE TickKill \/ TickNothing \/ Mismatch
  BY <1>4 DEF TickKill, TickNothing, Mismatch, GoTo
<1>5. CASE DrawdownKill \/ Rebalance
  BY <1>5 DEF DrawdownKill, Rebalance, Run
<1>6. ASSUME NEW a \in Assets, Skip(a)
      PROVE  KillInv'
  BY <1>6 DEF Skip, TypeOK, Run
<1>7. ASSUME NEW a \in Assets, Gate(a)
      PROVE  KillInv'
  BY <1>7 DEF Gate
<1>8. CASE Post
  <2>1. file' = file /\ late = 0 /\ run'.pc # "post"
    BY <1>8 DEF Post, PostAnswered, PostRefused, PostLost, PostUnreadable, NextAsset, GoTo, TypeOK, Run
  <2>2. late' = late \/ late' = (IF file THEN late + 1 ELSE late)
    BY <1>8 DEF Post, PostAnswered, PostRefused, PostLost, PostUnreadable, Executed
  <2> QED
    BY <2>1, <2>2
<1>9. CASE TripDrawdown \/ EndRebalance
  BY <1>9 DEF TripDrawdown, EndRebalance, GoTo
<1>10. CASE Crash
  BY <1>10 DEF Crash, GoTo, Exit
<1>11. ASSUME NEW a \in Assets, BracketFires(a)
       PROVE  KillInv'
  BY <1>11 DEF BracketFires
<1>12. CASE NewWeek \/ OwnerTrips \/ OwnerResumes \/ OwnerRepairs
  BY <1>12 DEF NewWeek, OwnerTrips, OwnerResumes, OwnerRepairs
<1>13. CASE UNCHANGED vars
  BY <1>13 DEF vars
<1> QED
  BY <1>1, <1>2, <1>3, <1>4, <1>5, <1>6, <1>7, <1>8, <1>9, <1>10, <1>11, <1>12, <1>13 DEF Next, Engine

\* Once the switch is there at most one order reaches the venue, the one that
\* check_pre_trade had let through: the gate reads the file for every order.
THEOREM SwitchStopsOrders == Spec => []KillStopsOrders
<1>1. Init => KillInv
  BY OffType DEF Init, KillInv, At
<1>2. KillInv => KillStopsOrders
  BY DEF KillInv, KillStopsOrders
<1> QED
  BY <1>1, <1>2, KillStep, TypeCorrect, PTL DEF Spec

-----------------------------------------------------------------------------
(* The mismatch on record.                                                 *)

\* While a mismatch is in the state file, an engine that runs has it in memory
\* and is at one of the places that lead to the end of its session.
MismatchInv ==
    disk.halted = "reconcile_mismatch" /\ ~At("off") =>
        run.pc \in {"observe", "loop"} /\ book.halted = "reconcile_mismatch"

LEMMA MismatchStep == TypeOK /\ MismatchInv /\ [Next]_vars => MismatchInv'
<1> SUFFICES ASSUME TypeOK, MismatchInv, [Next]_vars
             PROVE  MismatchInv'
  OBVIOUS
<1> USE OffType DEF MismatchInv, At, Stages
<1>1. CASE Start
  BY <1>1 DEF Start, GoTo
<1>2. CASE Observe
  BY <1>2 DEF Observe, Halted, GoTo, Exit
<1>3. CASE Again \/ EndSession
  BY <1>3 DEF Again, EndSession, GoTo, Exit
<1>4. CASE TickKill \/ TickNothing \/ Mismatch
  BY <1>4 DEF TickKill, TickNothing, Mismatch, Goes, Saved, GoTo, TypeOK, Book
<1>5. CASE DrawdownKill \/ Rebalance
  BY <1>5 DEF DrawdownKill, Rebalance, Clear, Goes, Run
<1>6. ASSUME NEW a \in Assets, Skip(a) \/ Gate(a)
      PROVE  MismatchInv'
  BY <1>6 DEF Skip, Gate
<1>7. CASE Post
  BY <1>7 DEF Post, PostAnswered, PostRefused, PostLost, PostUnreadable
<1>8. CASE TripDrawdown \/ EndRebalance
  BY <1>8 DEF TripDrawdown, EndRebalance, Done, Saved, GoTo, TypeOK, Book
<1>9. CASE Crash
  BY <1>9 DEF Crash, GoTo, Exit
<1>10. CASE (\E a \in Assets : BracketFires(a)) \/ NewWeek \/ OwnerTrips \/ OwnerResumes
  BY <1>10 DEF BracketFires, NewWeek, OwnerTrips, OwnerResumes
<1>11. CASE OwnerRepairs
  BY <1>11 DEF OwnerRepairs
<1>12. CASE UNCHANGED vars
  BY <1>12 DEF vars
<1> QED
  BY <1>1, <1>2, <1>3, <1>4, <1>5, <1>6, <1>7, <1>8, <1>9, <1>10, <1>11, <1>12 DEF Next, Engine

LEMMA MismatchKept ==
    ASSUME TypeOK, MismatchInv, [Next]_vars,
           disk.halted = "reconcile_mismatch", disk'.halted # disk.halted
    PROVE  At("off")
<1> SUFFICES ASSUME ~At("off") PROVE FALSE
  OBVIOUS
<1>1. run.pc \in {"observe", "loop"} /\ book.halted = "reconcile_mismatch"
  BY DEF MismatchInv
<1>2. disk' # disk
  OBVIOUS
<1>3. Observe \/ EndSession
  BY <1>1, <1>2 DEF At, Next, Engine, Start, Again, TickKill, Goes, TickNothing, Mismatch, Clear,
                    DrawdownKill, Rebalance, Skip, Gate, Post, PostAnswered, PostRefused, PostLost,
                    PostUnreadable, Done, TripDrawdown, EndRebalance, Crash, BracketFires, NewWeek,
                    OwnerTrips, OwnerResumes, OwnerRepairs, vars
<1>4. disk' = book
  BY <1>1, <1>3 DEF Observe, EndSession, Halted
<1> QED
  BY <1>1, <1>4

\* A reconcile mismatch leaves the state file only in the hand of an owner with
\* no engine running, although a switch, a refused or a lost order overwrite
\* book.halted and any session may be killed.
THEOREM MismatchStays == Spec => MismatchSticks
<1>1. Init => MismatchInv
  BY OffType DEF Init, MismatchInv, At
<1>2. TypeOK /\ MismatchInv /\ [Next]_vars =>
          [disk.halted = "reconcile_mismatch" /\ disk'.halted # disk.halted => At("off")]_vars
  BY MismatchKept
<1> QED
  BY <1>1, <1>2, MismatchStep, TypeCorrect, PTL DEF Spec, MismatchSticks

-----------------------------------------------------------------------------
(* The exposure.                                                           *)

\* The assets whose orders a tick still has to send.
Pending == run.todo \cup IF At("post") THEN {run.order.asset} ELSE {}

\* Until its order is sent, the venue holds no more of an asset than the book
\* says: they agreed when the tick was decided, only a bracket may have fired
\* since.  The order in hand leads to a target within the cap, and one that
\* sells is reduce-only.
ExposureInv ==
    /\ ExposureBounded
    /\ At("orders") \/ At("post") => \A a \in Pending : venue[a] <= book.positions[a]
    /\ At("post") => /\ run.order.asset \notin run.todo
                     /\ run.order.reduces = (run.order.delta < 0)
                     /\ book.positions[run.order.asset] + run.order.delta <= Cap

LEMMA FillBounded ==
    ASSUME TypeOK, ExposureInv, At("post"), NEW n \in Fills(run.order), Executed(run.order, n)
    PROVE  /\ \A a \in Assets : venue'[a] \in 0..Cap
           /\ \A a \in Assets \ {run.order.asset} : venue'[a] = venue[a]
<1> DEFINE o == run.order
<1>1. o \in [asset : Assets, delta : Int, reduces : BOOLEAN]
  BY DEF TypeOK, Run
<1>2. n \in Nat /\ n <= Magnitude(o.delta) /\ (o.reduces => n <= venue[o.asset])
  BY <1>1, FillType DEF Fills
<1>3. venue' = [venue EXCEPT ![o.asset] = @ + Signed(o, n)]
  BY DEF Executed
<1>4. /\ venue[o.asset] \in 0..Cap /\ venue[o.asset] <= book.positions[o.asset]
      /\ o.reduces = (o.delta < 0) /\ book.positions[o.asset] + o.delta <= Cap
      /\ book.positions[o.asset] \in Int /\ Cap \in Nat
  BY <1>1, PerpsAssumption DEF ExposureInv, ExposureBounded, Pending, TypeOK, Book
<1>5. venue[o.asset] + Signed(o, n) \in 0..Cap
  <2>1. CASE o.delta < 0
    BY <1>1, <1>2, <1>4, <2>1 DEF Signed
  <2>2. CASE ~(o.delta < 0)
    BY <1>1, <1>2, <1>4, <2>2 DEF Signed, Magnitude
  <2> QED
    BY <2>1, <2>2
<1> QED
  BY <1>1, <1>3, <1>5 DEF TypeOK, ExposureInv, ExposureBounded

LEMMA ExposureStep == TypeOK /\ ExposureInv /\ [Next]_vars => ExposureInv'
<1> SUFFICES ASSUME TypeOK, ExposureInv, [Next]_vars
             PROVE  ExposureInv'
  OBVIOUS
\* A step that leaves the tick, or is not in one, with the venue as it was.
<1>1. ASSUME venue' = venue, run'.pc \notin {"orders", "post"}
      PROVE  ExposureInv'
  BY <1>1 DEF ExposureInv, ExposureBounded, At
\* A step that changes nothing that counts here.
<1>2. ASSUME venue' = venue, run' = run, book' = book
      PROVE  ExposureInv'
  BY <1>2 DEF ExposureInv, ExposureBounded, At, Pending
\* The next asset of the tick: no order in hand, and the venue of those to do as it was.
<1>3. ASSUME At("post"), run'.pc = "orders", run'.todo = run.todo,
             \A a \in Assets : venue'[a] \in 0..Cap,
             \A a \in Assets \ {run.order.asset} :
                 venue'[a] = venue[a] /\ book'.positions[a] = book.positions[a]
      PROVE  ExposureInv'
  <2>1. run.todo \subseteq Assets \ {run.order.asset}
    BY <1>3 DEF ExposureInv, TypeOK, Run
  <2> QED
    BY <1>3, <2>1 DEF ExposureInv, ExposureBounded, At, Pending
<1>4. NextAsset => run'.pc = "orders" /\ run'.todo = run.todo
  BY DEF NextAsset, TypeOK, Run
<1>5. CASE Start \/ Observe \/ Again \/ EndSession \/ TickKill \/ TickNothing \/ Mismatch \/ Crash
  BY <1>1, <1>5, OffType
     DEF Start, Observe, Again, EndSession, TickKill, TickNothing, Mismatch, Crash, GoTo, Exit, Stages
<1>6. CASE DrawdownKill \/ Rebalance
  <2>1. venue' = venue /\ book' = book /\ book.positions = venue
    BY <1>6 DEF DrawdownKill, Rebalance, Clear, Agree
  <2>2. run'.pc = "orders" /\ run'.todo \subseteq Assets
    <3>1. CASE DrawdownKill
      BY <3>1, OffType DEF DrawdownKill, Run, Held
    <3>2. CASE Rebalance
      <4>1. PICK adds \in BOOLEAN :
                run' = [Off EXCEPT !.pc = "orders", !.todo = Assets, !.adds = adds]
        BY <3>2 DEF Rebalance
      <4> QED
        BY <4>1, OffType DEF Run
    <3> QED
      BY <1>6, <3>1, <3>2
  <2>3. \A a \in Assets : venue[a] \in Int
    BY DEF TypeOK
  <2>4. \A a \in Assets : venue'[a] <= book'.positions[a]
    BY <2>1, <2>3
  <2> QED
    BY <2>1, <2>2, <2>4 DEF ExposureInv, ExposureBounded, At, Pending
<1>7. ASSUME NEW a \in Assets, Skip(a)
      PROVE  ExposureInv'
  <2>1. run'.pc = "orders" /\ run'.todo \subseteq run.todo /\ At("orders")
    BY <1>7 DEF Skip, TypeOK, Run, At
  <2> QED
    BY <1>7, <2>1 DEF Skip, ExposureInv, ExposureBounded, At, Pending
<1>8. ASSUME NEW a \in Assets, Gate(a)
      PROVE  ExposureInv'
  <2>1. PICK target \in IF run.flatten THEN {0} ELSE 0..Cap :
            run' = [run EXCEPT !.pc = "post", !.todo = @ \ {a},
                        !.order = [asset |-> a, delta |-> target - book.positions[a],
                                   reduces |-> target - book.positions[a] < 0]]
    BY <1>8 DEF Gate
  <2>2. target \in Int /\ target <= Cap /\ book.positions[a] \in Int
    BY PerpsAssumption DEF TypeOK, Book
  <2>3. /\ run'.pc = "post" /\ run'.todo = run.todo \ {a} /\ run'.order.asset = a
        /\ run'.order.delta = target - book.positions[a]
        /\ run'.order.reduces = (target - book.positions[a] < 0)
    BY <2>1 DEF TypeOK, Run
  <2>4. book.positions[a] + (target - book.positions[a]) <= Cap
    BY <2>2, PerpsAssumption
  <2>5. At("orders") /\ a \in run.todo /\ venue' = venue /\ book' = book
    BY <1>8 DEF Gate
  <2>6. \A b \in run.todo : venue[b] <= book.positions[b]
    BY <2>5 DEF ExposureInv, Pending
  <2> QED
    BY <2>3, <2>4, <2>5, <2>6 DEF ExposureInv, ExposureBounded, At, Pending
<1>9. CASE PostAnswered
  <2>1. PICK n \in Fills(run.order) :
            /\ Executed(run.order, n)
            /\ book' = [book EXCEPT !.positions[run.order.asset] = @ + Signed(run.order, n)]
    BY <1>9 DEF PostAnswered
  <2>2. \A a \in Assets \ {run.order.asset} : book'.positions[a] = book.positions[a]
    BY <2>1 DEF TypeOK, Book
  <2> QED
    BY <1>3, <1>4, <1>9, <2>1, <2>2, FillBounded DEF PostAnswered
<1>10. CASE PostRefused
  <2>1. book'.positions = book.positions /\ venue' = venue
    BY <1>10 DEF PostRefused, TypeOK, Book
  <2> QED
    BY <1>3, <1>4, <1>10, <2>1 DEF PostRefused, ExposureInv, ExposureBounded
<1>11. CASE PostLost
  <2>1. book'.positions = book.positions
    BY <1>11 DEF PostLost, TypeOK, Book
  <2> QED
    BY <1>3, <1>4, <1>11, <2>1, FillBounded DEF PostLost
<1>12. CASE PostUnreadable
  <2>1. \A a \in Assets : venue'[a] \in 0..Cap
    BY <1>12, FillBounded DEF PostUnreadable
  <2>2. run'.pc = "loop"
    BY <1>12, OffType DEF PostUnreadable, GoTo, Stages
  <2> QED
    BY <2>1, <2>2 DEF ExposureInv, ExposureBounded, At
<1>13. CASE TripDrawdown \/ EndRebalance
  BY <1>1, <1>13, OffType DEF TripDrawdown, EndRebalance, GoTo, Stages
<1>14. ASSUME NEW a \in Assets, BracketFires(a)
       PROVE  ExposureInv'
  <2>1. venue' = [venue EXCEPT ![a] = 0] /\ run' = run /\ book' = book
    BY <1>14 DEF BracketFires
  <2>2. \A b \in Assets : venue'[b] \in 0..Cap /\ venue'[b] <= venue[b]
    BY <2>1, PerpsAssumption DEF TypeOK, ExposureInv, ExposureBounded
  <2>3. Pending \subseteq Assets
    BY DEF Pending, TypeOK, Run
  <2>4. ASSUME NEW b \in Assets, venue[b] <= book.positions[b]
        PROVE  venue'[b] <= book.positions[b]
    BY <2>2, <2>4, PerpsAssumption DEF TypeOK, Book, ExposureInv, ExposureBounded
  <2> QED
    BY <2>1, <2>2, <2>3, <2>4 DEF ExposureInv, ExposureBounded, At, Pending
<1>15. CASE NewWeek \/ OwnerTrips \/ OwnerResumes
  BY <1>2, <1>15 DEF NewWeek, OwnerTrips, OwnerResumes
<1>16. CASE OwnerRepairs
  BY <1>2, <1>16 DEF OwnerRepairs
<1>17. CASE UNCHANGED vars
  BY <1>2, <1>17 DEF vars
<1> QED
  BY <1>5, <1>6, <1>7, <1>8, <1>9, <1>10, <1>11, <1>12, <1>13, <1>14, <1>15, <1>16, <1>17
     DEF Next, Engine, Post

\* No answer lost, bracket fired or engine killed makes the desk hold more of an
\* asset at the venue than a capped target asks for, or less than nothing: the
\* reconcile of every tick keeps a fill that was not booked from being bought
\* again, and reduce_only keeps a second exit from going short.
THEOREM ExposureStaysBounded == Spec => []ExposureBounded
<1>1. Init => ExposureInv
  <2>1. Init => ExposureBounded
    BY PerpsAssumption DEF Init, ExposureBounded, Flat
  <2> QED
    BY <2>1, OffType DEF Init, ExposureInv, At
<1>2. ExposureInv => ExposureBounded
  BY DEF ExposureInv
<1> QED
  BY <1>1, <1>2, ExposureStep, TypeCorrect, PTL DEF Spec

-----------------------------------------------------------------------------
(* The sizing of the perps strategies                                      *)

CONSTANTS Families, Crypto, Metals, MaxDay, Window, MaxGross, MaxAsset, MaxStale, Quoted, NewDays(_), MinObs, K, Tranches, One, Step, MaxScale, Hurdle
VARIABLES family, day, age, avail, books, share, weights

Portfolio == INSTANCE PerpsPortfolios

LEMMA PortfolioSums ==
    ASSUME NEW f, NEW S
    PROVE  Portfolio!Total(f, S) = SumFunctionOnSet(f, S)
<1>1. Portfolio!SumFunctionOnSet(f, S) = SumFunctionOnSet(f, S)
    BY Zenon DEF Portfolio!SumFunctionOnSet, SumFunctionOnSet, Portfolio!FoldFunctionOnSet, FoldFunctionOnSet,
                 Portfolio!MapThenFoldSet, MapThenFoldSet
<1> QED BY <1>1 DEF Portfolio!Total

LEMMA PortfolioSets ==
    ASSUME NEW S
    PROVE  (Portfolio!IsFiniteSet(S) <=> IsFiniteSet(S)) /\ Portfolio!Cardinality(S) = Cardinality(S)
<1>1. Portfolio!IsFiniteSet(S) <=> IsFiniteSet(S)
    BY Zenon DEF Portfolio!IsFiniteSet, IsFiniteSet
<1>2. Portfolio!Cardinality(S) = Cardinality(S)
    BY Zenon DEF Portfolio!Cardinality, Cardinality
<1> QED BY <1>1, <1>2

LEMMA PortfolioLimits ==
    ASSUME Portfolio!PortfolioAssumption
    PROVE  /\ IsFiniteSet(Portfolio!Assets) /\ Portfolio!N \in Nat \ {0}
           /\ MaxStale \in Nat /\ Window \in Nat /\ One \in Nat /\ MaxGross \in Nat /\ MaxAsset \in Nat
           /\ MaxScale \in Nat /\ K \in Nat \ {0} /\ Tranches \in Nat \ {0} /\ Step \in Nat \ {0}
           /\ \A S \in SUBSET Portfolio!Assets : Portfolio!Cardinality(S) \in Nat
<1>1. IsFiniteSet(Portfolio!Assets) /\ Portfolio!Assets # {}
    BY PortfolioSets DEF Portfolio!PortfolioAssumption
<1>2. Portfolio!N \in Nat \ {0}
    BY <1>1, PortfolioSets, FS_CardinalityType, FS_EmptySet DEF Portfolio!N
<1>3. \A S \in SUBSET Portfolio!Assets : Portfolio!Cardinality(S) \in Nat
    BY <1>1, PortfolioSets, FS_Subset, FS_CardinalityType
<1> QED
    BY <1>1, <1>2, <1>3 DEF Portfolio!PortfolioAssumption

\* A weight as the book may hold it: each asset and the gross within the caps.
InCaps(w) ==
    /\ w \in [Portfolio!Assets -> Int]
    /\ \A a \in Portfolio!Assets : Portfolio!Abs(w[a]) <= MaxAsset
    /\ Portfolio!Gross(w) <= MaxGross

LEMMA AbsIs ==
    ASSUME NEW x \in Int
    PROVE  Portfolio!Abs(x) \in Nat /\ (Portfolio!Abs(x) = x \/ Portfolio!Abs(x) = -x)
           /\ x <= Portfolio!Abs(x) /\ -x <= Portfolio!Abs(x) /\ (x = 0 <=> Portfolio!Abs(x) = 0)
BY DEF Portfolio!Abs

\* Scaling is toward zero.
LEMMA ScaledIs ==
    ASSUME NEW x \in Int, NEW n \in Nat, NEW d \in Nat \ {0}
    PROVE  /\ Portfolio!Scaled(x, n, d) \in Int
           /\ Portfolio!Abs(Portfolio!Scaled(x, n, d)) \in Nat
           /\ d * Portfolio!Abs(Portfolio!Scaled(x, n, d)) <= Portfolio!Abs(x) * n
           /\ x = 0 => Portfolio!Scaled(x, n, d) = 0
<1>1. CASE x < 0
    <2> DEFINE y == -x
               q == (y * n) \div d
    <2>1. y \in Nat /\ y * n \in Nat
        BY <1>1
    <2>2. q \in Nat /\ d * q <= y * n
        <3> DEFINE z == y * n
        <3>1. z \in Nat
            BY <2>1
        <3> HIDE DEF z
        <3>2. z \div d \in Nat /\ d * (z \div d) <= z
            BY <3>1, QuotientOfNat
        <3> QED BY <3>2 DEF z
    <2>3. Portfolio!Scaled(x, n, d) = -q
        BY <1>1 DEF Portfolio!Scaled
    <2> HIDE DEF q
    <2>4. Portfolio!Abs(x) = y /\ Portfolio!Abs(-q) = q
        BY <1>1, <2>2 DEF Portfolio!Abs
    <2> QED BY <1>1, <2>2, <2>3, <2>4
<1>2. CASE x >= 0
    <2> DEFINE q == (x * n) \div d
    <2>1. x \in Nat /\ x * n \in Nat /\ (x = 0 => x * n = 0)
        BY <1>2
    <2>2. q \in Nat /\ d * q <= x * n /\ (x = 0 => q = 0)
        <3> DEFINE z == x * n
        <3>1. z \in Nat /\ (x = 0 => z = 0)
            BY <2>1
        <3> HIDE DEF z
        <3>2. z \div d \in Nat /\ d * (z \div d) <= z /\ (z = 0 => z \div d = 0)
            BY <3>1, QuotientOfNat
        <3> QED BY <3>1, <3>2 DEF z
    <2>3. Portfolio!Scaled(x, n, d) = q
        BY <1>2 DEF Portfolio!Scaled
    <2> HIDE DEF q
    <2>4. Portfolio!Abs(x) = x /\ Portfolio!Abs(q) = q
        BY <1>2, <2>2 DEF Portfolio!Abs
    <2> QED BY <2>2, <2>3, <2>4
<1> QED BY <1>1, <1>2

LEMMA GrossIs ==
    ASSUME Portfolio!PortfolioAssumption, NEW w \in [Portfolio!Assets -> Int]
    PROVE  LET f == [a \in Portfolio!Assets |-> Portfolio!Abs(w[a])]
           IN  /\ Portfolio!Gross(w) = SumFunctionOnSet(f, Portfolio!Assets)
               /\ Portfolio!Gross(w) \in Nat
               /\ \A a \in Portfolio!Assets : f[a] \in Nat
<1> DEFINE f == [a \in Portfolio!Assets |-> Portfolio!Abs(w[a])]
<1>1. \A a \in Portfolio!Assets : f[a] \in Nat
    BY AbsIs
<1>2. Portfolio!Gross(w) = SumFunctionOnSet(f, Portfolio!Assets)
    BY PortfolioSums DEF Portfolio!Gross
<1> HIDE DEF f
<1>3. SumFunctionOnSet(f, Portfolio!Assets) \in Nat
    BY <1>1, PortfolioLimits, SumNat
<1> QED BY <1>1, <1>2, <1>3 DEF f

\* cap_weights keeps a book within the caps, and adds to none that is empty.
LEMMA CapsHold ==
    ASSUME Portfolio!PortfolioAssumption, NEW w \in [Portfolio!Assets -> Int]
    PROVE  /\ InCaps(Portfolio!CapWeights(w))
           /\ \A a \in Portfolio!Assets : w[a] = 0 => Portfolio!CapWeights(w)[a] = 0
<1> DEFINE c == Portfolio!PerAsset(w)
           g == Portfolio!Gross(c)
           r == [a \in Portfolio!Assets |-> Portfolio!Scaled(c[a], MaxGross, g)]
<1>0. MaxGross \in Nat /\ MaxAsset \in Nat /\ IsFiniteSet(Portfolio!Assets)
    BY PortfolioLimits
<1>1. /\ c \in [Portfolio!Assets -> Int]
      /\ \A a \in Portfolio!Assets : Portfolio!Abs(c[a]) <= MaxAsset /\ (w[a] = 0 => c[a] = 0)
    <2> SUFFICES ASSUME NEW a \in Portfolio!Assets
                 PROVE  c[a] \in Int /\ Portfolio!Abs(c[a]) <= MaxAsset /\ (w[a] = 0 => c[a] = 0)
        BY DEF Portfolio!PerAsset
    <2>1. c[a] = IF a \in Quoted THEN Portfolio!Clip(w[a], -MaxAsset, MaxAsset) ELSE 0
        BY DEF Portfolio!PerAsset
    <2>2. w[a] \in Int
        OBVIOUS
    <2> QED BY <1>0, <2>1, <2>2 DEF Portfolio!Clip, Portfolio!Abs
<1> HIDE DEF c
<1>2. g \in Nat
    BY <1>1, GrossIs
<1>3. CASE g > MaxGross
    <2> DEFINE f == [a \in Portfolio!Assets |-> Portfolio!Abs(c[a])]
               q == [a \in Portfolio!Assets |-> Portfolio!Abs(r[a])]
    <2>1. \A a \in Portfolio!Assets :
              /\ r[a] \in Int /\ q[a] \in Nat /\ f[a] \in Nat /\ q[a] = Portfolio!Abs(r[a])
              /\ g * q[a] <= f[a] * MaxGross /\ f[a] <= MaxAsset /\ (c[a] = 0 => r[a] = 0)
        <3> SUFFICES ASSUME NEW a \in Portfolio!Assets
                     PROVE  /\ r[a] \in Int /\ q[a] \in Nat /\ f[a] \in Nat /\ q[a] = Portfolio!Abs(r[a])
                            /\ g * q[a] <= f[a] * MaxGross /\ f[a] <= MaxAsset /\ (c[a] = 0 => r[a] = 0)
            OBVIOUS
        <3>1. g \in Nat \ {0} /\ c[a] \in Int
            BY <1>0, <1>1, <1>2, <1>3
        <3>2. r[a] = Portfolio!Scaled(c[a], MaxGross, g) /\ q[a] = Portfolio!Abs(r[a])
              /\ f[a] = Portfolio!Abs(c[a])
            OBVIOUS
        <3> HIDE DEF r, q, f, g
        <3>3. f[a] \in Nat /\ f[a] <= MaxAsset
            BY <1>1, <3>1, <3>2, AbsIs
        <3> QED BY <1>0, <3>1, <3>2, <3>3, ScaledIs
    <2>2. g = SumFunctionOnSet(f, Portfolio!Assets)
        BY <1>1, GrossIs
    <2>3. Portfolio!CapWeights(w) = r
        BY <1>3 DEF Portfolio!CapWeights, c
    <2>4. r \in [Portfolio!Assets -> Int]
        BY <2>1
    <2>5. Portfolio!Gross(r) = SumFunctionOnSet(q, Portfolio!Assets) /\ Portfolio!Gross(r) \in Nat
        BY <2>4, GrossIs
    <2> HIDE DEF r, f, q, g
    <2>6. \A a \in Portfolio!Assets : q[a] <= MaxAsset
        <3> SUFFICES ASSUME NEW a \in Portfolio!Assets, q[a] > MaxAsset PROVE FALSE
            BY <1>0, <2>1
        <3>1. q[a] >= f[a] + 1 /\ q[a] \in Nat /\ f[a] \in Nat
            BY <1>0, <2>1
        <3>2. g * (f[a] + 1) <= g * q[a]
            BY <1>2, <3>1, ProductLess
        <3>3. f[a] * MaxGross <= f[a] * g
            BY <1>0, <1>2, <1>3, <3>1, ProductLess
        <3>4. g * (f[a] + 1) = f[a] * g + g
            BY <1>2, <3>1
        <3>5. g * q[a] <= f[a] * MaxGross
            BY <2>1
        <3>6. f[a] * g \in Nat /\ g * q[a] \in Nat /\ f[a] * MaxGross \in Nat
            BY <1>0, <1>2, <3>1
        <3>7. g > 0
            BY <1>0, <1>2, <1>3
        <3> HIDE DEF g
        <3> QED BY <1>2, <3>2, <3>3, <3>4, <3>5, <3>6, <3>7
    <2>7. Portfolio!Gross(r) <= MaxGross
        <3> DEFINE x == [a \in Portfolio!Assets |-> g * q[a]]
                   y == [a \in Portfolio!Assets |-> MaxGross * f[a]]
        <3>1. \A a \in Portfolio!Assets : /\ q[a] \in Int /\ f[a] \in Int /\ x[a] = g * q[a] /\ y[a] = MaxGross * f[a]
                                          /\ x[a] \in Int /\ y[a] \in Int /\ x[a] <= y[a]
            <4> SUFFICES ASSUME NEW a \in Portfolio!Assets
                         PROVE  /\ q[a] \in Int /\ f[a] \in Int /\ x[a] = g * q[a] /\ y[a] = MaxGross * f[a]
                                /\ x[a] \in Int /\ y[a] \in Int /\ x[a] <= y[a]
                OBVIOUS
            <4>1. q[a] \in Nat /\ f[a] \in Nat /\ g * q[a] <= f[a] * MaxGross
                BY <2>1
            <4>2. f[a] * MaxGross = MaxGross * f[a] /\ g * q[a] \in Int /\ MaxGross * f[a] \in Int
                BY <1>0, <1>2, <4>1
            <4> QED BY <4>1, <4>2
        <3> HIDE DEF x, y
        <3>2. SumFunctionOnSet(x, Portfolio!Assets) = g * SumFunctionOnSet(q, Portfolio!Assets)
            BY <1>0, <1>2, <3>1, SumScale
        <3>3. SumFunctionOnSet(y, Portfolio!Assets) = MaxGross * SumFunctionOnSet(f, Portfolio!Assets)
            BY <1>0, <3>1, SumScale
        <3>4. SumFunctionOnSet(x, Portfolio!Assets) <= SumFunctionOnSet(y, Portfolio!Assets)
            BY <1>0, <3>1, SumLess
        <3> DEFINE s == Portfolio!Gross(r)
        <3>5. s \in Nat /\ g * s <= MaxGross * g
            BY <2>2, <2>5, <3>2, <3>3, <3>4
        <3> HIDE DEF s
        <3>6. SUFFICES ASSUME s > MaxGross PROVE FALSE
            BY <1>0, <3>5 DEF s
        <3>7. g * (MaxGross + 1) <= g * s
            BY <1>0, <1>2, <3>5, <3>6, ProductLess
        <3>8. g * (MaxGross + 1) = MaxGross * g + g /\ MaxGross * g \in Nat /\ g * s \in Nat /\ g > 0
            BY <1>0, <1>2, <1>3, <3>5
        <3> QED BY <1>2, <3>5, <3>7, <3>8
    <2> QED
        BY <1>1, <2>1, <2>3, <2>4, <2>6, <2>7 DEF InCaps
<1>4. CASE ~(g > MaxGross)
    <2>1. Portfolio!CapWeights(w) = c
        BY <1>4 DEF Portfolio!CapWeights, c
    <2>2. g <= MaxGross
        BY <1>0, <1>2, <1>4
    <2> QED
        BY <1>1, <2>1, <2>2 DEF InCaps
<1> QED BY <1>3, <1>4


\* Sizing a signal, whatever it is: within the caps, and nothing of nothing.
LEMMA SizedWithin ==
    ASSUME Portfolio!PortfolioAssumption, NEW sig \in [Portfolio!Assets -> Int], NEW k \in Nat
    PROVE  /\ InCaps(Portfolio!Size(sig, k))
           /\ \A a \in Portfolio!Assets : sig[a] = 0 => Portfolio!Size(sig, k)[a] = 0
<1> DEFINE w == [a \in Portfolio!Assets |-> Portfolio!Round(Portfolio!Scaled(sig[a], k, Portfolio!N))]
<1>1. ASSUME NEW a \in Portfolio!Assets
      PROVE  w[a] \in Int /\ (sig[a] = 0 => w[a] = 0)
    <2> DEFINE x == Portfolio!Scaled(sig[a], k, Portfolio!N)
    <2>1. x \in Int /\ (sig[a] = 0 => x = 0)
        BY PortfolioLimits, ScaledIs
    <2>2. w[a] = Portfolio!Round(x)
        OBVIOUS
    <2> HIDE DEF w, x
    <2>3. Step \in Nat \ {0}
        BY PortfolioLimits
    <2>4. Step \div 2 \in Nat /\ (Step \div 2) \div Step = 0
        BY <2>3
    <2>5. \A y \in Nat : ((y + Step \div 2) \div Step) * Step \in Int
        <3> SUFFICES ASSUME NEW y \in Nat PROVE ((y + Step \div 2) \div Step) * Step \in Int
            OBVIOUS
        <3>1. y + Step \div 2 \in Nat
            BY <2>4
        <3>2. (y + Step \div 2) \div Step \in Nat
            BY <2>3, <3>1, QuotientOfNat
        <3> QED BY <2>3, <3>2
    <2>6. Portfolio!Round(x) \in Int
        <3>1. CASE x < 0
            <4>1. -x \in Nat
                BY <2>1, <3>1
            <4>2. ((-x + Step \div 2) \div Step) * Step \in Int
                BY <2>5, <4>1
            <4> QED BY <3>1, <4>2 DEF Portfolio!Round
        <3>2. CASE ~(x < 0)
            <4>1. x \in Nat
                BY <2>1, <3>2
            <4>2. ((x + Step \div 2) \div Step) * Step \in Int
                BY <2>5, <4>1
            <4> QED BY <3>2, <4>2 DEF Portfolio!Round
        <3> QED BY <3>1, <3>2
    <2>7. Portfolio!Round(0) = 0
        BY <2>3, <2>4 DEF Portfolio!Round
    <2> QED BY <2>1, <2>2, <2>6, <2>7
<1>2. w \in [Portfolio!Assets -> Int]
    BY <1>1
<1>3. Portfolio!Size(sig, k) = Portfolio!CapWeights(w)
    BY DEF Portfolio!Size
<1> HIDE DEF w
<1> QED
    BY <1>1, <1>2, <1>3, CapsHold

LEMMA VolTargetWithin ==
    ASSUME Portfolio!PortfolioAssumption, NEW sig \in [Portfolio!Assets -> Int], NEW k \in Nat
    PROVE  /\ InCaps(Portfolio!VolTarget(sig, k))
           /\ \A a \in Portfolio!Assets : sig[a] = 0 => Portfolio!VolTarget(sig, k)[a] = 0
<1>1. Portfolio!Lesser(k, MaxScale) \in Nat
    BY PortfolioLimits DEF Portfolio!Lesser
<1> QED
    BY <1>1, SizedWithin DEF Portfolio!VolTarget

\* What allocator_blend makes of two books within the caps is within them.
LEMMA MixWithin ==
    ASSUME Portfolio!PortfolioAssumption, NEW h, NEW t, InCaps(h), InCaps(t), NEW s \in 0 .. 100
    PROVE  InCaps([a \in Portfolio!Assets |-> Portfolio!Scaled(h[a], 100 - s, 100) + Portfolio!Scaled(t[a], s, 100)])
<1> DEFINE p(a) == Portfolio!Scaled(h[a], 100 - s, 100)
           q(a) == Portfolio!Scaled(t[a], s, 100)
           r == [a \in Portfolio!Assets |-> p(a) + q(a)]
           fh == [a \in Portfolio!Assets |-> Portfolio!Abs(h[a])]
           ft == [a \in Portfolio!Assets |-> Portfolio!Abs(t[a])]
           fr == [a \in Portfolio!Assets |-> Portfolio!Abs(r[a])]
<1>0. /\ MaxGross \in Nat /\ MaxAsset \in Nat /\ IsFiniteSet(Portfolio!Assets)
      /\ h \in [Portfolio!Assets -> Int] /\ t \in [Portfolio!Assets -> Int]
      /\ s \in Nat /\ 100 - s \in Nat
    BY PortfolioLimits DEF InCaps
<1>1. ASSUME NEW a \in Portfolio!Assets
      PROVE  /\ r[a] \in Int /\ fr[a] \in Nat /\ fh[a] \in Nat /\ ft[a] \in Nat
             /\ 100 * fr[a] <= (100 - s) * fh[a] + s * ft[a]
             /\ fh[a] <= MaxAsset /\ ft[a] <= MaxAsset
    <2>1. /\ h[a] \in Int /\ t[a] \in Int
          /\ fh[a] = Portfolio!Abs(h[a]) /\ ft[a] = Portfolio!Abs(t[a]) /\ fr[a] = Portfolio!Abs(p(a) + q(a))
          /\ r[a] = p(a) + q(a)
        BY <1>0
    <2>2. fh[a] <= MaxAsset /\ ft[a] <= MaxAsset
        BY <2>1 DEF InCaps
    <2>3. fh[a] \in Nat /\ ft[a] \in Nat
        BY <2>1, AbsIs
    <2>4. p(a) \in Int /\ Portfolio!Abs(p(a)) \in Nat /\ 100 * Portfolio!Abs(p(a)) <= Portfolio!Abs(h[a]) * (100 - s)
        BY <1>0, <2>1, ScaledIs
    <2>5. q(a) \in Int /\ Portfolio!Abs(q(a)) \in Nat /\ 100 * Portfolio!Abs(q(a)) <= Portfolio!Abs(t[a]) * s
        BY <1>0, <2>1, ScaledIs
    <2> HIDE DEF p, q, r, fh, ft, fr
    <2>6. fr[a] \in Nat /\ fr[a] <= Portfolio!Abs(p(a)) + Portfolio!Abs(q(a))
        BY <2>1, <2>4, <2>5 DEF Portfolio!Abs
    <2>7. fh[a] * (100 - s) = (100 - s) * fh[a] /\ ft[a] * s = s * ft[a]
          /\ (100 - s) * fh[a] \in Nat /\ s * ft[a] \in Nat
        BY <1>0, <2>3
    <2> QED BY <2>1, <2>2, <2>3, <2>4, <2>5, <2>6, <2>7
<1>2. r \in [Portfolio!Assets -> Int]
    BY <1>1
<1>3. /\ Portfolio!Gross(h) = SumFunctionOnSet(fh, Portfolio!Assets) /\ Portfolio!Gross(h) \in Nat
      /\ Portfolio!Gross(t) = SumFunctionOnSet(ft, Portfolio!Assets) /\ Portfolio!Gross(t) \in Nat
      /\ Portfolio!Gross(r) = SumFunctionOnSet(fr, Portfolio!Assets) /\ Portfolio!Gross(r) \in Nat
    BY <1>0, <1>2, GrossIs
<1>4. Portfolio!Gross(h) <= MaxGross /\ Portfolio!Gross(t) <= MaxGross
    BY DEF InCaps
<1>5. \A a \in Portfolio!Assets : fr[a] = Portfolio!Abs(r[a])
    OBVIOUS
<1> HIDE DEF r, fh, ft, fr
<1>6. \A a \in Portfolio!Assets : fr[a] <= MaxAsset
    <2> SUFFICES ASSUME NEW a \in Portfolio!Assets PROVE fr[a] <= MaxAsset
        OBVIOUS
    <2>1. fh[a] \in Nat /\ ft[a] \in Nat /\ fh[a] <= MaxAsset /\ ft[a] <= MaxAsset /\ fr[a] \in Nat
        BY <1>1
    <2>2. (100 - s) * fh[a] <= (100 - s) * MaxAsset /\ s * ft[a] <= s * MaxAsset
        <3> DEFINE u == 100 - s
        <3>1. u \in Nat /\ s \in Nat /\ fh[a] \in Int /\ ft[a] \in Int /\ MaxAsset \in Int
            BY <1>0, <2>1
        <3> HIDE DEF u
        <3>2. u * fh[a] <= u * MaxAsset
            BY <2>1, <3>1, ProductLess
        <3>3. s * ft[a] <= s * MaxAsset
            BY <2>1, <3>1, ProductLess
        <3> QED BY <3>2, <3>3 DEF u
    <2>3. (100 - s) * MaxAsset + s * MaxAsset = 100 * MaxAsset
          /\ (100 - s) * MaxAsset \in Nat /\ s * MaxAsset \in Nat
          /\ (100 - s) * fh[a] \in Nat /\ s * ft[a] \in Nat
        BY <1>0, <2>1
    <2>4. 100 * fr[a] <= (100 - s) * fh[a] + s * ft[a]
        BY <1>1
    <2>5. 100 * fr[a] <= 100 * MaxAsset
        BY <2>2, <2>3, <2>4, <2>1
    <2> QED BY <1>0, <2>1, <2>5
<1>7. Portfolio!Gross(r) <= MaxGross
    <2> DEFINE x == [a \in Portfolio!Assets |-> (100 - s) * fh[a]]
               y == [a \in Portfolio!Assets |-> s * ft[a]]
               z == [a \in Portfolio!Assets |-> x[a] + y[a]]
               v == [a \in Portfolio!Assets |-> 100 * fr[a]]
    <2>1. ASSUME NEW a \in Portfolio!Assets
          PROVE  /\ fh[a] \in Int /\ ft[a] \in Int /\ fr[a] \in Int
                 /\ x[a] \in Int /\ y[a] \in Int /\ z[a] \in Int /\ v[a] \in Int
                 /\ x[a] = (100 - s) * fh[a] /\ y[a] = s * ft[a] /\ z[a] = x[a] + y[a] /\ v[a] = 100 * fr[a]
                 /\ v[a] <= z[a]
        <3>1. fh[a] \in Nat /\ ft[a] \in Nat /\ fr[a] \in Nat /\ 100 * fr[a] <= (100 - s) * fh[a] + s * ft[a]
            BY <1>1
        <3>2. (100 - s) * fh[a] \in Nat /\ s * ft[a] \in Nat
            BY <1>0, <3>1
        <3> QED BY <3>1, <3>2
    <2> HIDE DEF x, y, z, v
    <2>2. SumFunctionOnSet(x, Portfolio!Assets) = (100 - s) * Portfolio!Gross(h)
        <3>1. 100 - s \in Int /\ IsFiniteSet(Portfolio!Assets)
            BY <1>0
        <3>2. \A a \in Portfolio!Assets : fh[a] \in Int /\ x[a] = (100 - s) * fh[a]
            BY <2>1
        <3>3. SumFunctionOnSet(x, Portfolio!Assets) = (100 - s) * SumFunctionOnSet(fh, Portfolio!Assets)
            BY <3>1, <3>2, SumScale
        <3> QED BY <1>3, <3>3
    <2>3. SumFunctionOnSet(y, Portfolio!Assets) = s * Portfolio!Gross(t)
        <3>1. s \in Int /\ IsFiniteSet(Portfolio!Assets)
            BY <1>0
        <3>2. \A a \in Portfolio!Assets : ft[a] \in Int /\ y[a] = s * ft[a]
            BY <2>1
        <3>3. SumFunctionOnSet(y, Portfolio!Assets) = s * SumFunctionOnSet(ft, Portfolio!Assets)
            BY <3>1, <3>2, SumScale
        <3> QED BY <1>3, <3>3
    <2>4. SumFunctionOnSet(v, Portfolio!Assets) = 100 * Portfolio!Gross(r)
        BY <1>0, <1>3, <2>1, SumScale
    <2>5. SumFunctionOnSet(z, Portfolio!Assets) = SumFunctionOnSet(x, Portfolio!Assets) + SumFunctionOnSet(y, Portfolio!Assets)
        BY <1>0, <2>1, SumPlus
    <2>6. SumFunctionOnSet(v, Portfolio!Assets) <= SumFunctionOnSet(z, Portfolio!Assets)
        BY <1>0, <2>1, SumLess
    <2>7. (100 - s) * Portfolio!Gross(h) <= (100 - s) * MaxGross /\ s * Portfolio!Gross(t) <= s * MaxGross
        <3> DEFINE u == 100 - s
                   gh == Portfolio!Gross(h)
                   gt == Portfolio!Gross(t)
        <3>1. u \in Nat /\ s \in Nat /\ gh \in Int /\ gt \in Int /\ MaxGross \in Int
              /\ gh <= MaxGross /\ gt <= MaxGross
            BY <1>0, <1>3, <1>4
        <3> HIDE DEF u, gh, gt
        <3>2. u * gh <= u * MaxGross
            BY <3>1, ProductLess
        <3>3. s * gt <= s * MaxGross
            BY <3>1, ProductLess
        <3> QED BY <3>2, <3>3 DEF u, gh, gt
    <2>8. (100 - s) * MaxGross + s * MaxGross = 100 * MaxGross
          /\ (100 - s) * MaxGross \in Nat /\ s * MaxGross \in Nat
          /\ (100 - s) * Portfolio!Gross(h) \in Nat /\ s * Portfolio!Gross(t) \in Nat
        BY <1>0, <1>3
    <2>9. 100 * Portfolio!Gross(r) <= 100 * MaxGross
        BY <1>3, <2>2, <2>3, <2>4, <2>5, <2>6, <2>7, <2>8
    <2> QED BY <1>0, <1>3, <2>9
<1>8. InCaps(r)
    BY <1>2, <1>5, <1>6, <1>7 DEF InCaps
<1> QED BY <1>8 DEF r

\* Taking positions out of a book within the caps leaves it within them.
LEMMA TiltedWithin ==
    ASSUME Portfolio!PortfolioAssumption, NEW w, InCaps(w), NEW dear
    PROVE  InCaps(Portfolio!Tilted(w, dear))
<1> DEFINE r == Portfolio!Tilted(w, dear)
           f == [a \in Portfolio!Assets |-> Portfolio!Abs(w[a])]
           q == [a \in Portfolio!Assets |-> Portfolio!Abs(r[a])]
<1>0. w \in [Portfolio!Assets -> Int] /\ MaxAsset \in Nat /\ MaxGross \in Nat /\ IsFiniteSet(Portfolio!Assets)
    BY PortfolioLimits DEF InCaps
<1>1. r = [a \in Portfolio!Assets |-> IF a \in dear /\ w[a] > 0 THEN 0 ELSE w[a]]
    BY DEF Portfolio!Tilted
<1> HIDE DEF r
<1>2. ASSUME NEW a \in Portfolio!Assets
      PROVE  /\ r[a] \in Int /\ q[a] \in Int /\ f[a] \in Int /\ q[a] <= f[a] /\ q[a] = Portfolio!Abs(r[a])
             /\ f[a] <= MaxAsset
    <2>1. w[a] \in Int /\ f[a] = Portfolio!Abs(w[a]) /\ q[a] = Portfolio!Abs(r[a])
        BY <1>0
    <2>2. r[a] = 0 \/ r[a] = w[a]
        BY <1>1
    <2>3. f[a] <= MaxAsset
        BY <2>1 DEF InCaps
    <2> HIDE DEF f, q
    <2> QED BY <2>1, <2>2, <2>3 DEF Portfolio!Abs
<1>3. r \in [Portfolio!Assets -> Int]
    BY <1>1, <1>2
<1>4. /\ Portfolio!Gross(w) = SumFunctionOnSet(f, Portfolio!Assets) /\ Portfolio!Gross(w) \in Nat
      /\ Portfolio!Gross(r) = SumFunctionOnSet(q, Portfolio!Assets) /\ Portfolio!Gross(r) \in Nat
    BY <1>0, <1>3, GrossIs
<1> HIDE DEF f, q
<1>5. SumFunctionOnSet(q, Portfolio!Assets) <= SumFunctionOnSet(f, Portfolio!Assets)
    BY <1>0, <1>2, SumLess
<1>6. Portfolio!Gross(w) <= MaxGross
    BY DEF InCaps
<1>7. \A a \in Portfolio!Assets : Portfolio!Abs(r[a]) <= MaxAsset
    <2> SUFFICES ASSUME NEW a \in Portfolio!Assets PROVE Portfolio!Abs(r[a]) <= MaxAsset
        OBVIOUS
    <2>1. q[a] = Portfolio!Abs(r[a]) /\ q[a] <= f[a] /\ f[a] <= MaxAsset /\ q[a] \in Int /\ f[a] \in Int
        BY <1>2
    <2> QED BY <1>0, <2>1
<1>8. Portfolio!Gross(r) <= MaxGross
    BY <1>0, <1>4, <1>5, <1>6
<1>9. InCaps(r)
    BY <1>3, <1>7, <1>8 DEF InCaps
<1> QED BY <1>9 DEF r

LEMMA NothingWithin ==
    ASSUME Portfolio!PortfolioAssumption
    PROVE  InCaps(Portfolio!Nothing)
<1> DEFINE f == [a \in Portfolio!Assets |-> Portfolio!Abs(Portfolio!Nothing[a])]
<1>0. MaxAsset \in Nat /\ MaxGross \in Nat /\ IsFiniteSet(Portfolio!Assets)
    BY PortfolioLimits
<1>1. /\ Portfolio!Nothing \in [Portfolio!Assets -> Int]
      /\ \A a \in Portfolio!Assets : Portfolio!Abs(Portfolio!Nothing[a]) = 0 /\ f[a] = 0
    BY DEF Portfolio!Nothing, Portfolio!Abs
<1>2. Portfolio!Gross(Portfolio!Nothing) = SumFunctionOnSet(f, Portfolio!Assets)
    BY <1>1, GrossIs
<1> HIDE DEF f
<1>3. SumFunctionOnSet(f, Portfolio!Assets) = 0 * Cardinality(Portfolio!Assets)
    BY <1>0, <1>1, SumConstant
<1>4. Cardinality(Portfolio!Assets) \in Nat
    BY <1>0, FS_CardinalityType
<1> QED
    BY <1>0, <1>1, <1>2, <1>3, <1>4 DEF InCaps


-----------------------------------------------------------------------------
\* Signals are numbers.
LEMMA FlatSignals ==
    ASSUME Portfolio!PortfolioAssumption, NEW score \in [Portfolio!Assets -> Int]
    PROVE  /\ Portfolio!Hold \in [Portfolio!Assets -> Int]
           /\ Portfolio!Trend(score) \in [Portfolio!Assets -> Int]
BY PortfolioLimits DEF Portfolio!Hold, Portfolio!Trend

\* The mask of today is the last row of the history a ranking asks for.
LEMMA RankedQuote ==
    ASSUME Portfolio!PortfolioAssumption, Portfolio!MaskIsCurrent', NEW a \in Portfolio!Ranked'
    PROVE  a \in Portfolio!Assets /\ Portfolio!Fresh(a)'
<1>1. a \in Portfolio!Assets /\ Portfolio!Continuous(a)'
    BY DEF Portfolio!Ranked
<1>2. Window + 1 \in 1 .. Window + 1
    BY PortfolioLimits
<1>3. avail'[a][Window + 1]
    BY <1>1, <1>2 DEF Portfolio!Continuous
<1> QED BY <1>1, <1>3 DEF Portfolio!MaskIsCurrent, Portfolio!Fresh

\* The families that rank: numbers, and nothing of what does not quote.
LEMMA RankedSignals ==
    ASSUME Portfolio!PortfolioAssumption, Portfolio!MaskIsCurrent', NEW score \in [Portfolio!Assets -> Int],
           NEW sig \in {Portfolio!DualSignal(score)', Portfolio!TopSignal(score)', Portfolio!LsSignal(score)',
                        Portfolio!RankSignal(score)'}
    PROVE  /\ sig \in [Portfolio!Assets -> Int]
           /\ \A a \in Portfolio!Assets : ~Portfolio!Fresh(a)' => sig[a] = 0
<1>0. One \in Nat /\ K \in Nat
    BY PortfolioLimits
<1>1. CASE sig = Portfolio!DualSignal(score)'
    <2>1. (3 * One) \div 7 \in Int
        BY <1>0
    <2>2. ASSUME NEW a \in Portfolio!Assets
          PROVE  sig[a] \in {0, One, (3 * One) \div 7} /\ (~Portfolio!Fresh(a)' => sig[a] = 0)
        BY <1>1, Zenon DEF Portfolio!DualSignal, Portfolio!Fresh
    <2>3. sig = [a \in Portfolio!Assets |-> sig[a]]
        BY <1>1 DEF Portfolio!DualSignal
    <2> QED BY <1>0, <2>1, <2>2, <2>3
<1>2. CASE sig = Portfolio!TopSignal(score)'
    <2>1. sig = [a \in Portfolio!Assets |-> sig[a]]
        BY <1>2 DEF Portfolio!TopSignal
    <2>2. ASSUME NEW a \in Portfolio!Assets
          PROVE  sig[a] \in {0, One} /\ (sig[a] # 0 => a \in Portfolio!Ranked')
        BY <1>2 DEF Portfolio!TopSignal, Portfolio!Best
    <2> QED BY <1>0, <2>1, <2>2, RankedQuote
<1>3. CASE sig = Portfolio!LsSignal(score)'
    <2>1. sig = [a \in Portfolio!Assets |-> sig[a]]
        BY <1>3 DEF Portfolio!LsSignal
    <2>2. ASSUME NEW a \in Portfolio!Assets
          PROVE  sig[a] \in Int /\ (sig[a] # 0 => a \in Portfolio!Ranked')
        <3> DEFINE x == IF a \in Portfolio!Best(score, Portfolio!Ranked', K) THEN One ELSE 0
                   y == IF a \in Portfolio!Worst(score, Portfolio!Ranked', K) THEN One ELSE 0
        <3>1. sig[a] = 0 \/ sig[a] = x - y
            BY <1>3 DEF Portfolio!LsSignal
        <3>2. x \in Int /\ y \in Int /\ (a \notin Portfolio!Ranked' => x = 0 /\ y = 0)
            BY <1>0 DEF Portfolio!Best, Portfolio!Worst
        <3> HIDE DEF x, y
        <3> QED BY <3>1, <3>2
    <2> QED BY <1>0, <2>1, <2>2, RankedQuote
<1>4. CASE sig = Portfolio!RankSignal(score)'
    <2> DEFINE R == Portfolio!Ranked'
               n == Portfolio!Cardinality(R)
    <2>1. R \in SUBSET Portfolio!Assets
        BY DEF Portfolio!Ranked
    <2>2. n \in Nat
        BY <2>1, PortfolioLimits
    <2>3. sig = [a \in Portfolio!Assets |->
                    IF n >= 2 /\ a \in R THEN (One * (n - Portfolio!Above(score, a, R))) \div n ELSE 0]
        BY <1>4 DEF Portfolio!RankSignal
    <2>4. ASSUME NEW a \in Portfolio!Assets
          PROVE  sig[a] \in Int /\ (sig[a] # 0 => a \in R)
        <3> DEFINE above == Portfolio!Above(score, a, R)
                   x == One * (n - above)
        <3>1. above \in Nat
            <4>1. {b \in R : score[b] > score[a]} \in SUBSET Portfolio!Assets
                BY <2>1
            <4> QED BY <4>1, PortfolioLimits DEF Portfolio!Above
        <3>2. x \in Int
            <4> HIDE DEF above, n
            <4> QED BY <1>0, <2>2, <3>1
        <3>3. sig[a] = IF n >= 2 /\ a \in R THEN x \div n ELSE 0
            BY <2>3
        <3> HIDE DEF above, n, R, x
        <3>4. n >= 2 => x \div n \in Int
            BY <2>2, <3>2, Quotient
        <3> QED BY <3>3, <3>4
    <2>5. sig = [a \in Portfolio!Assets |-> sig[a]]
        BY <2>3
    <2> QED BY <2>4, <2>5, RankedQuote DEF R
<1> QED BY <1>1, <1>2, <1>3, <1>4

\* The tranches' average: a book, and nothing of what does not quote.
LEMMA SleeveWithin ==
    ASSUME Portfolio!PortfolioAssumption, books' \in [1 .. Tranches -> [Portfolio!Assets -> Int]], NEW k \in Nat
    PROVE  /\ InCaps(Portfolio!Sleeve(books, k)')
           /\ \A a \in Portfolio!Assets : ~Portfolio!Fresh(a)' => Portfolio!Sleeve(books, k)'[a] = 0
<1> DEFINE raw(a) == Portfolio!Total([j \in 1 .. Tranches |-> books'[j][a]], 1 .. Tranches) \div Tranches
           w == [a \in Portfolio!Assets |->
                    (IF Portfolio!Fresh(a)' THEN raw(a) ELSE 0) * Portfolio!Lesser(k, MaxScale)]
<1>1. ASSUME NEW a \in Portfolio!Assets
      PROVE  raw(a) \in Int
    <2> DEFINE f == [j \in 1 .. Tranches |-> books'[j][a]]
    <2>1. \A j \in 1 .. Tranches : f[j] \in Int
        OBVIOUS
    <2>2. IsFiniteSet(1 .. Tranches) /\ Tranches \in Nat \ {0}
        BY PortfolioLimits, FS_Interval
    <2> HIDE DEF f
    <2>3. Portfolio!Total(f, 1 .. Tranches) \in Int
        BY <2>1, <2>2, PortfolioSums, SumInt
    <2>4. Portfolio!Total(f, 1 .. Tranches) \div Tranches \in Int
        BY <2>2, <2>3, Quotient
    <2> QED BY <2>4 DEF f
<1>2. Portfolio!Lesser(k, MaxScale) \in Nat
    BY PortfolioLimits DEF Portfolio!Lesser
<1>3. Portfolio!Sleeve(books, k)' = IF Portfolio!Enlisted THEN Portfolio!CapWeights(w) ELSE Portfolio!Nothing
    BY DEF Portfolio!Sleeve, Portfolio!Masked, Portfolio!Fresh
<1> HIDE DEF raw
<1>4. ASSUME NEW a \in Portfolio!Assets
      PROVE  w[a] \in Int /\ (~Portfolio!Fresh(a)' => w[a] = 0)
    <2> DEFINE z == Portfolio!Lesser(k, MaxScale)
               y == IF Portfolio!Fresh(a)' THEN raw(a) ELSE 0
    <2>1. w[a] = y * z
        OBVIOUS
    <2>2. y \in Int /\ z \in Nat /\ (~Portfolio!Fresh(a)' => y = 0)
        BY <1>1, <1>2
    <2> HIDE DEF w, y, z
    <2> QED BY <2>1, <2>2
<1>5. w \in [Portfolio!Assets -> Int]
    BY <1>4
<1> HIDE DEF w
<1>6. \A a \in Portfolio!Assets : Portfolio!Nothing[a] = 0
    BY DEF Portfolio!Nothing
<1> QED
    BY <1>3, <1>4, <1>5, <1>6, CapsHold, NothingWithin

\* allocator_blend, carry_tilt and the core with its sleeve.
LEMMA MixesWithin ==
    ASSUME Portfolio!PortfolioAssumption, NEW score \in [Portfolio!Assets -> Int], NEW k \in Nat, NEW wt \in Int
    PROVE  InCaps(Portfolio!Allocated(score, k, wt))
<1>1. Portfolio!Share(wt) \in 0 .. 100
    BY DEF Portfolio!Share, Portfolio!Clip
<1>2. InCaps(Portfolio!VolTarget(Portfolio!Hold, k)) /\ InCaps(Portfolio!VolTarget(Portfolio!Trend(score), k))
    BY FlatSignals, VolTargetWithin
<1> DEFINE s == Portfolio!Share(wt)
           h == Portfolio!VolTarget(Portfolio!Hold, k)
           t == Portfolio!VolTarget(Portfolio!Trend(score), k)
<1>3. Portfolio!Allocated(score, k, wt) =
          [a \in Portfolio!Assets |-> Portfolio!Scaled(h[a], 100 - s, 100) + Portfolio!Scaled(t[a], s, 100)]
    BY DEF Portfolio!Allocated
<1> HIDE DEF s, h, t
<1>4. s \in 0 .. 100 /\ InCaps(h) /\ InCaps(t)
    BY <1>1, <1>2 DEF s, h, t
<1>5. InCaps([a \in Portfolio!Assets |-> Portfolio!Scaled(h[a], 100 - s, 100) + Portfolio!Scaled(t[a], s, 100)])
    BY <1>4, MixWithin, Zenon
<1> QED
    BY <1>3, <1>5, Zenon

LEMMA BlendWithin ==
    ASSUME Portfolio!PortfolioAssumption, NEW c, NEW s, InCaps(c), InCaps(s)
    PROVE  InCaps(Portfolio!Blend(c, s))
<1> DEFINE w == [a \in Portfolio!Assets |-> Portfolio!Scaled(c[a], 7, 10) + Portfolio!Scaled(s[a], 3, 10)]
<1>1. c \in [Portfolio!Assets -> Int] /\ s \in [Portfolio!Assets -> Int]
    BY DEF InCaps
<1>2. \A a \in Portfolio!Assets : Portfolio!Scaled(c[a], 7, 10) \in Int /\ Portfolio!Scaled(s[a], 3, 10) \in Int
    BY <1>1, ScaledIs
<1>3. w \in [Portfolio!Assets -> Int]
    BY <1>2
<1>4. Portfolio!Blend(c, s) = Portfolio!CapWeights(w)
    BY DEF Portfolio!Blend
<1> HIDE DEF w
<1> QED
    BY <1>3, <1>4, CapsHold


\* Whatever the family decides is within the caps, and the families that carry
\* a mask decide nothing for what has stopped quoting.
LEMMA DecidedWithin ==
    ASSUME Portfolio!PortfolioAssumption, Portfolio!TypeOK, Portfolio!MaskIsCurrent',
           books' \in [1 .. Tranches -> [Portfolio!Assets -> Int]],
           NEW score \in [Portfolio!Assets -> Int], NEW k \in Nat, NEW own \in Nat,
           Portfolio!Decide(score, k, own), family' = family, share' = share
    PROVE  /\ InCaps(weights')
           /\ family \in {"breadth", "dual", "top", "ls", "rank", "residual"} =>
                  \A a \in Portfolio!Assets : weights'[a] # 0 => Portfolio!Fresh(a)'
<1> DEFINE Quiet == \A a \in Portfolio!Assets : ~Portfolio!Fresh(a)' => weights'[a] = 0
<1> SUFFICES InCaps(weights') /\ (family \in {"breadth", "dual", "top", "ls", "rank", "residual"} => Quiet)
    OBVIOUS
<1>0. /\ Portfolio!N \in Nat \ {0} /\ K \in Nat \ {0} /\ MaxScale \in Nat
      /\ books' \in [1 .. Tranches -> [Portfolio!Assets -> Int]] /\ share \in Nat
    BY PortfolioLimits DEF Portfolio!TypeOK
<1>1. /\ Portfolio!Hold \in [Portfolio!Assets -> Int]
      /\ Portfolio!Trend(score) \in [Portfolio!Assets -> Int]
    BY FlatSignals
<1>2. CASE family = "hold"
    <2>1. weights' = Portfolio!VolTarget(Portfolio!Hold, k)
        BY <1>2 DEF Portfolio!Decide
    <2> QED BY <1>1, <1>2, <2>1, VolTargetWithin
<1>3. CASE family = "breadth"
    <2> DEFINE sig == [a \in Portfolio!Assets |->
                          IF Portfolio!Usable(a)' THEN IF Portfolio!Fresh(a)' THEN Portfolio!Hold[a] ELSE 0 ELSE 0]
    <2>1. weights' = Portfolio!BreadthVolTarget(Portfolio!Hold, k)'
        BY <1>3 DEF Portfolio!Decide
    <2>2. Portfolio!BreadthVolTarget(Portfolio!Hold, k)' =
              Portfolio!VolTarget([a \in Portfolio!Assets |->
                  IF Portfolio!Usable(a)' THEN Portfolio!Gate(Portfolio!Hold)'[a] ELSE 0], k)
        BY DEF Portfolio!BreadthVolTarget
    <2>3. \A a \in Portfolio!Assets : Portfolio!Gate(Portfolio!Hold)'[a] =
              IF Portfolio!Fresh(a)' THEN Portfolio!Hold[a] ELSE 0
        BY DEF Portfolio!Gate
    <2>4. [a \in Portfolio!Assets |->
                  IF Portfolio!Usable(a)' THEN Portfolio!Gate(Portfolio!Hold)'[a] ELSE 0] = sig
        BY <2>3
    <2>5. weights' = Portfolio!VolTarget(sig, k)
        BY <2>1, <2>2, <2>4
    <2>6. sig \in [Portfolio!Assets -> Int] /\ \A a \in Portfolio!Assets : ~Portfolio!Fresh(a)' => sig[a] = 0
        BY <1>1
    <2> HIDE DEF sig
    <2> QED BY <2>5, <2>6, VolTargetWithin
<1>4. CASE family = "live"
    <2> DEFINE n == Portfolio!Lesser(k, MaxScale)
               z == IF own = 0 THEN 2 * n ELSE Portfolio!Lesser(own, 2 * n)
    <2>1. weights' = Portfolio!LiveSize(Portfolio!Trend(score), n, own)
        BY <1>4 DEF Portfolio!Decide
    <2>2. n \in Nat
        BY <1>0 DEF Portfolio!Lesser
    <2>3. weights' = Portfolio!Size(Portfolio!Trend(score), z)
        BY <2>1 DEF Portfolio!LiveSize
    <2> HIDE DEF n
    <2>4. z \in Nat
        BY <2>2 DEF Portfolio!Lesser
    <2> HIDE DEF z
    <2> QED BY <1>1, <1>4, <2>3, <2>4, SizedWithin
<1>5. CASE family \in {"dual", "top", "ls", "rank"}
    <2>1. \E sig \in {Portfolio!DualSignal(score)', Portfolio!TopSignal(score)', Portfolio!LsSignal(score)',
                      Portfolio!RankSignal(score)'}, n \in Nat : weights' = Portfolio!VolTarget(sig, n)
        <3>1. CASE family = "dual"
            <4>1. weights' = Portfolio!VolTarget(Portfolio!DualSignal(score)', k)
                BY <3>1 DEF Portfolio!Decide
            <4> QED BY <4>1
        <3>2. CASE family = "top"
            <4> DEFINE n == k * Portfolio!N
            <4>1. weights' = Portfolio!VolTarget(Portfolio!TopSignal(score)', n \div K)
                BY <3>2 DEF Portfolio!Decide
            <4>2. n \in Nat
                BY <1>0
            <4> HIDE DEF n
            <4>3. n \div K \in Nat
                BY <1>0, <4>2, QuotientOfNat
            <4> QED BY <4>1, <4>3
        <3>3. CASE family = "ls"
            <4> DEFINE n == k * Portfolio!N
                       m2 == 2 * K
            <4>1. weights' = Portfolio!VolTarget(Portfolio!LsSignal(score)', n \div m2)
                BY <3>3 DEF Portfolio!Decide
            <4>2. n \in Nat /\ m2 \in Nat \ {0}
                BY <1>0
            <4> HIDE DEF n, m2
            <4>3. n \div m2 \in Nat
                BY <4>2, QuotientOfNat
            <4> QED BY <4>1, <4>3
        <3>4. CASE family = "rank"
            <4> DEFINE n == 2 * k * Portfolio!N
                       m2 == Portfolio!N + 1
            <4>1. weights' = Portfolio!VolTarget(Portfolio!RankSignal(score)', n \div m2)
                BY <3>4 DEF Portfolio!Decide
            <4>2. n \in Nat /\ m2 \in Nat \ {0}
                BY <1>0
            <4> HIDE DEF n, m2
            <4>3. n \div m2 \in Nat
                BY <4>2, QuotientOfNat
            <4> QED BY <4>1, <4>3
        <3> QED BY <1>5, <3>1, <3>2, <3>3, <3>4
    <2>2. PICK sig \in {Portfolio!DualSignal(score)', Portfolio!TopSignal(score)', Portfolio!LsSignal(score)',
                        Portfolio!RankSignal(score)'}, n \in Nat : weights' = Portfolio!VolTarget(sig, n)
        BY <2>1, Zenon
    <2>3. sig \in [Portfolio!Assets -> Int] /\ \A a \in Portfolio!Assets : ~Portfolio!Fresh(a)' => sig[a] = 0
        BY <2>2, RankedSignals
    <2> QED BY <2>2, <2>3, VolTargetWithin
<1>6. CASE family = "residual"
    <2>1. weights' = Portfolio!Sleeve(books, own)'
        BY <1>6 DEF Portfolio!Decide
    <2> QED BY <1>0, <2>1, SleeveWithin
<1>7. CASE family = "core_sleeve"
    <2> DEFINE h == Portfolio!VolTarget(Portfolio!Hold, k)
               s == Portfolio!Sleeve(books, own)'
    <2>1. weights' = Portfolio!Blend(h, s)
        BY <1>7 DEF Portfolio!Decide
    <2>2. InCaps(h)
        BY <1>1, VolTargetWithin
    <2>3. InCaps(s)
        BY <1>0, SleeveWithin
    <2> HIDE DEF h, s
    <2> QED BY <1>7, <2>1, <2>2, <2>3, BlendWithin
<1>8. CASE family \in {"fixed", "gate", "gate_inv", "riskparity"}
    <2>1. \E wt \in Int : weights' = Portfolio!Allocated(score, k, wt)
        <3>1. CASE family = "fixed"
            <4>1. weights' = Portfolio!Allocated(score, k, share)
                BY <3>1 DEF Portfolio!Decide
            <4> QED BY <1>0, <4>1
        <3>2. Portfolio!Breadth(score) \in Int
            <4> DEFINE c == Portfolio!Cardinality({a \in Portfolio!Assets : score[a] > 0})
                       x == 100 * c
            <4>1. c \in Nat
                <5>1. {a \in Portfolio!Assets : score[a] > 0} \in SUBSET Portfolio!Assets
                    OBVIOUS
                <5> QED BY <5>1, PortfolioLimits
            <4>2. Portfolio!Breadth(score) = x \div Portfolio!N
                BY DEF Portfolio!Breadth
            <4> HIDE DEF c
            <4>3. x \in Int
                BY <4>1
            <4> HIDE DEF x
            <4> QED BY <1>0, <4>2, <4>3, Quotient
        <3>3. CASE family = "gate"
            <4>1. weights' = Portfolio!Allocated(score, k, Portfolio!Breadth(score))
                BY <3>3 DEF Portfolio!Decide
            <4> QED BY <3>2, <4>1
        <3>4. CASE family = "gate_inv"
            <4>1. weights' = Portfolio!Allocated(score, k, 100 - Portfolio!Breadth(score))
                BY <3>4 DEF Portfolio!Decide
            <4> QED BY <3>2, <4>1
        <3>5. CASE family = "riskparity"
            <4> DEFINE x == 100 * (own + 1)
                       y == own + k + 2
            <4>1. weights' = Portfolio!Allocated(score, k, x \div y)
                BY <3>5 DEF Portfolio!Decide
            <4>2. x \in Int /\ y \in Nat \ {0}
                OBVIOUS
            <4> HIDE DEF x, y
            <4>3. x \div y \in Int
                BY <4>2, Quotient
            <4> QED BY <4>1, <4>3
        <3> QED BY <1>8, <3>1, <3>3, <3>4, <3>5
    <2> QED BY <1>8, <2>1, MixesWithin
<1>9. CASE family \notin {"hold", "breadth", "live", "dual", "top", "ls", "rank", "residual", "core_sleeve",
                          "fixed", "gate", "gate_inv", "riskparity"}
    <2> DEFINE h == Portfolio!VolTarget(Portfolio!Trend(score), k)
               dear == IF own = 0 THEN {} ELSE Crypto
    <2>1. weights' = Portfolio!Tilted(h, dear)
        BY <1>9 DEF Portfolio!Decide
    <2>2. InCaps(h)
        BY <1>1, VolTargetWithin
    <2> HIDE DEF h, dear
    <2> QED BY <1>9, <2>1, <2>2, TiltedWithin
<1> QED
    BY <1>2, <1>3, <1>4, <1>5, <1>6, <1>7, <1>8, <1>9

LEMMA PortfolioInitial ==
    ASSUME Portfolio!PortfolioAssumption, Portfolio!Init
    PROVE  Portfolio!TypeOK /\ Portfolio!PortfolioInv
<1>0. MaxStale \in Nat /\ Window \in Nat
    BY PortfolioLimits
<1>1. Portfolio!Nothing \in [Portfolio!Assets -> Int] /\ \A a \in Portfolio!Assets : Portfolio!Nothing[a] = 0
    BY DEF Portfolio!Nothing
<1>2. Portfolio!TypeOK
    <2> DEFINE row == [i \in 1 .. Window + 1 |-> FALSE]
    <2>1. row \in Seq(BOOLEAN) /\ Len(row) = Window + 1
        BY <1>0
    <2>2. avail = [a \in Portfolio!Assets |-> row]
        BY DEF Portfolio!Init
    <2> HIDE DEF row
    <2>3. avail \in [Portfolio!Assets -> Seq(BOOLEAN)] /\ \A a \in Portfolio!Assets : Len(avail[a]) = Window + 1
        BY <2>1, <2>2
    <2>4. share \in Nat
        BY DEF Portfolio!Init
    <2> QED BY <1>0, <1>1, <2>3, <2>4 DEF Portfolio!Init, Portfolio!TypeOK
<1>3. Portfolio!MaskIsCurrent
    <2> SUFFICES ASSUME NEW a \in Portfolio!Assets PROVE ~avail[a][Window + 1] /\ ~Portfolio!Fresh(a)
        BY DEF Portfolio!MaskIsCurrent
    <2>1. age[a] = MaxStale + 1 /\ ~avail[a][Window + 1]
        BY <1>0 DEF Portfolio!Init
    <2> QED BY <1>0, <2>1 DEF Portfolio!Fresh
<1>4. weights = Portfolio!Nothing
    BY DEF Portfolio!Init
<1>5. Portfolio!WithinTheCaps
    BY <1>4, NothingWithin DEF InCaps, Portfolio!WithinTheCaps
<1>6. Portfolio!DelistedNotHeld
    BY <1>1, <1>4 DEF Portfolio!DelistedNotHeld
<1> QED
    BY <1>2, <1>3, <1>5, <1>6 DEF Portfolio!PortfolioInv, Portfolio!BooksDeliverable

\* The day's bars: the mask moves by one day, and its last day is today.
LEMMA MaskMoves ==
    ASSUME Portfolio!PortfolioAssumption, Portfolio!TypeOK, NEW quotedNow, Portfolio!NextPrices(quotedNow)
    PROVE  /\ age' \in [Portfolio!Assets -> Nat]
           /\ avail' \in [Portfolio!Assets -> Seq(BOOLEAN)]
           /\ \A a \in Portfolio!Assets : Len(avail'[a]) = Window + 1
           /\ Portfolio!MaskIsCurrent'
<1>0. MaxStale \in Nat /\ Window \in Nat
    BY PortfolioLimits
<1>1. ASSUME NEW a \in Portfolio!Assets
      PROVE  age'[a] \in Nat
    <2>1. age[a] \in Nat
        BY DEF Portfolio!TypeOK
    <2> QED BY <1>0, <2>1 DEF Portfolio!NextPrices, Portfolio!Lesser
<1>2. age' = [a \in Portfolio!Assets |-> age'[a]]
    BY DEF Portfolio!NextPrices
<1>3. ASSUME NEW a \in Portfolio!Assets
      PROVE  /\ avail'[a] \in Seq(BOOLEAN) /\ Len(avail'[a]) = Window + 1
             /\ avail'[a][Window + 1] <=> age'[a] <= MaxStale
    <2> DEFINE s == avail[a]
               x == age'[a] <= MaxStale
    <2>1. s \in Seq(BOOLEAN) /\ Len(s) = Window + 1 /\ x \in BOOLEAN
        BY DEF Portfolio!TypeOK
    <2>2. avail'[a] = Append(Tail(s), x)
        BY DEF Portfolio!NextPrices
    <2> HIDE DEF s, x
    <2>3. s # <<>>
        BY <1>0, <2>1
    <2>4. Tail(s) \in Seq(BOOLEAN) /\ Len(Tail(s)) = Window
        BY <1>0, <2>1, <2>3
    <2> DEFINE t == Tail(s)
    <2> HIDE DEF t
    <2>5. t \in Seq(BOOLEAN) /\ Len(t) = Window /\ avail'[a] = Append(t, x)
        BY <2>2, <2>4 DEF t
    <2>6. Append(t, x) \in Seq(BOOLEAN) /\ Len(Append(t, x)) = Window + 1 /\ Append(t, x)[Window + 1] = x
        BY <1>0, <2>1, <2>5
    <2> QED BY <2>5, <2>6 DEF x
<1>4. avail' = [a \in Portfolio!Assets |-> avail'[a]]
    BY DEF Portfolio!NextPrices
<1>5. age' \in [Portfolio!Assets -> Nat] /\ avail' \in [Portfolio!Assets -> Seq(BOOLEAN)]
    BY <1>1, <1>2, <1>3, <1>4
<1> QED
    BY <1>3, <1>5 DEF Portfolio!MaskIsCurrent, Portfolio!Fresh

LEMMA PortfolioStep ==
    ASSUME Portfolio!PortfolioAssumption, Portfolio!TypeOK, Portfolio!PortfolioInv,
           [Portfolio!Next]_(Portfolio!vars)
    PROVE  Portfolio!TypeOK' /\ Portfolio!PortfolioInv'
<1>1. ASSUME NEW d \in NewDays(family), Portfolio!Day(d)
      PROVE  Portfolio!TypeOK' /\ Portfolio!PortfolioInv'
    <2>1. /\ d.score \in [Portfolio!Assets -> Int] /\ d.k \in Nat /\ d.own \in Nat
          /\ family \in Families /\ family' = family /\ share' = share
          /\ Portfolio!NextPrices(d.bar) /\ Portfolio!Rebalance(d.score)
          /\ Portfolio!Decide(d.score, d.k, d.own)
        BY <1>1 DEF Portfolio!Day, Portfolio!TypeOK, Portfolio!PortfolioAssumption
    <2>2. /\ age' \in [Portfolio!Assets -> Nat]
          /\ avail' \in [Portfolio!Assets -> Seq(BOOLEAN)]
          /\ \A a \in Portfolio!Assets : Len(avail'[a]) = Window + 1
          /\ Portfolio!MaskIsCurrent'
        BY <2>1, MaskMoves
    <2>3. books' \in [1 .. Tranches -> [Portfolio!Assets -> Int]]
        <3> DEFINE legs == Portfolio!Legs(d.score)'
        <3>1. legs \in [Portfolio!Assets -> Int]
            <4>1. One \div K \in Int
                BY PortfolioLimits, Quotient
            <4>2. -(One \div K) \in Int
                BY <4>1
            <4> DEFINE v == One \div K
            <4> HIDE DEF v
            <4>3. v \in Int /\ -v \in Int
                BY <4>1, <4>2 DEF v
            <4>4. \A a \in Portfolio!Assets : legs[a] \in {0, v, -v}
                BY DEF Portfolio!Legs, v
            <4>5. legs = [a \in Portfolio!Assets |-> legs[a]]
                BY DEF Portfolio!Legs
            <4> HIDE DEF legs
            <4> QED BY <4>3, <4>4, <4>5
        <3> HIDE DEF legs
        <3>2. books \in [1 .. Tranches -> [Portfolio!Assets -> Int]]
            BY DEF Portfolio!TypeOK
        <3>3. \A b \in [Portfolio!Assets -> Int] : Portfolio!Refilled(b, legs) \in [Portfolio!Assets -> Int]
            BY <3>1 DEF Portfolio!Refilled
        <3> DEFINE j == (day % Tranches) + 1
        <3>4. books' = books \/ books' = [books EXCEPT ![j] = Portfolio!Refilled(books[j], legs)]
            BY <2>1 DEF Portfolio!Rebalance, legs
        <3> HIDE DEF j
        <3>5. [books EXCEPT ![j] = Portfolio!Refilled(books[j], legs)] \in [1 .. Tranches -> [Portfolio!Assets -> Int]]
            BY <3>2, <3>3
        <3> QED BY <3>2, <3>4, <3>5
    <2>4. family' \in Families /\ share' \in Nat
        BY <2>1 DEF Portfolio!TypeOK
    <2>5. /\ InCaps(weights')
          /\ family \in {"breadth", "dual", "top", "ls", "rank", "residual"} =>
                 \A a \in Portfolio!Assets : weights'[a] # 0 => Portfolio!Fresh(a)'
        BY <2>1, <2>2, <2>3, DecidedWithin
    <2>6. Portfolio!TypeOK'
        BY <2>2, <2>3, <2>4, <2>5 DEF InCaps, Portfolio!TypeOK
    <2>7. Portfolio!WithinTheCaps' /\ Portfolio!DelistedNotHeld'
        BY <2>1, <2>5 DEF InCaps, Portfolio!WithinTheCaps, Portfolio!DelistedNotHeld
    <2> QED BY <2>2, <2>6, <2>7 DEF Portfolio!PortfolioInv, Portfolio!BooksDeliverable
<1>2. CASE UNCHANGED Portfolio!vars
    <2>1. Portfolio!TypeOK'
        BY <1>2 DEF Portfolio!vars, Portfolio!TypeOK
    <2>2. Portfolio!PortfolioInv'
        BY <1>2 DEF Portfolio!vars, Portfolio!PortfolioInv, Portfolio!MaskIsCurrent, Portfolio!Fresh,
                    Portfolio!BooksDeliverable, Portfolio!WithinTheCaps, Portfolio!DelistedNotHeld
    <2> QED BY <2>1, <2>2
<1> QED
    BY <1>1, <1>2 DEF Portfolio!Next

\* What the perps strategies decide is what the desk may hold: for any assets,
\* bars, trailing scores and volatility estimates, no family asks for a position
\* above its cap or a book above the gross cap, those that mix two books that were
\* capped included; and those that carry a tradability mask ask for nothing that
\* has stopped quoting (BooksDeliverable).
THEOREM TargetsAreDeliverable ==
    ASSUME Portfolio!PortfolioAssumption
    PROVE  Portfolio!Spec => []Portfolio!BooksDeliverable
<1>1. Portfolio!Init => Portfolio!TypeOK /\ Portfolio!PortfolioInv
    BY PortfolioInitial
<1>2. Portfolio!TypeOK /\ Portfolio!PortfolioInv /\ [Portfolio!Next]_(Portfolio!vars) =>
          Portfolio!TypeOK' /\ Portfolio!PortfolioInv'
    BY PortfolioStep
<1>3. Portfolio!PortfolioInv => Portfolio!BooksDeliverable
    BY DEF Portfolio!PortfolioInv
<1> QED
    BY <1>1, <1>2, <1>3, PTL DEF Portfolio!Spec

-----------------------------------------------------------------------------
(* The signals                                                             *)

CONSTANTS Short, Long, MinFlat, MonthDays
VARIABLES hist, decided

Signals == INSTANCE PerpsSignals

\* What a rule with a memory holds is the last of a sequence of holdings.
LEMMA HoldingIs ==
    ASSUME NEW t \in Nat, NEW V, NEW start \in V, NEW after \in [1 .. t -> [V -> V]]
    PROVE  \E f \in [0 .. t -> V] : Unrolls(f, start, after, t) /\ Signals!Holding(start, after, t) = f[t]
<1> DEFINE Good(p) == p = [i \in 0 .. t |-> IF i = 0 THEN start ELSE after[i][p[i - 1]]]
           r == CHOOSE p : Good(p)
<1>1. PICK f \in [0 .. t -> V] : Unrolls(f, start, after, t)
    BY FiniteRecursion
<1>2. Good(f)
    <2>1. ASSUME NEW i \in 0 .. t, i # 0 PROVE f[i] = after[i][f[i - 1]]
        <3>1. i \in 1 .. t
            BY <2>1
        <3> QED BY <1>1, <3>1 DEF Unrolls
    <2>2. f[0] = start
        BY <1>1 DEF Unrolls
    <2> QED BY <1>1, <2>1, <2>2
<1>3. Signals!Holding(start, after, t) = r[t]
    BY Zenon DEF Signals!Holding
<1>4. Good(r)
    <2> HIDE DEF Good
    <2> QED BY <1>2, Zenon
<1> HIDE DEF r
<1>5. r[0] = start /\ \A i \in 1 .. t : r[i] = after[i][r[i - 1]]
    BY <1>4
<1>6. \A i \in 1 .. t : r[i - 1] \in V => r[i] \in V
    BY <1>5
<1>7. \A i \in 0 .. t : r[i] \in V
    BY <1>5, <1>6, StaysAmong
<1>8. r \in [0 .. t -> V]
    BY <1>4, <1>7
<1>9. Unrolls(r, start, after, t)
    BY <1>5 DEF Unrolls
<1> QED BY <1>3, <1>8, <1>9

-----------------------------------------------------------------------------
(* A signal knows nothing of what comes later                              *)

\* Two histories with the same bars up to day t, whose series may differ on the
\* last label.
SamePast(h, g, t) ==
    /\ \A i \in 1 .. t : h[i].c = g[i].c /\ h[i].n = g[i].n
    /\ \A i \in 1 .. t - 1 : h[i].x = g[i].x

LEMMA PastShrinks ==
    ASSUME NEW h, NEW g, NEW t \in Nat, SamePast(h, g, t), NEW i \in 0 .. t
    PROVE  SamePast(h, g, i)
BY DEF SamePast

LEMMA MeansSame ==
    ASSUME NEW h, NEW g, NEW t \in Nat, SamePast(h, g, t), NEW w \in Nat, w <= t, NEW a
    PROVE  Signals!MeanTimes(h, t, w, a) = Signals!MeanTimes(g, t, w, a)
<1> DEFINE fh == [i \in t - w + 1 .. t |-> Signals!C(h, i, a)]
           fg == [i \in t - w + 1 .. t |-> Signals!C(g, i, a)]
<1>1. fh = fg
    BY DEF SamePast, Signals!C
<1> HIDE DEF fh, fg
<1>2. Signals!MeanTimes(h, t, w, a) = Signals!Sum(fh) /\ Signals!MeanTimes(g, t, w, a) = Signals!Sum(fg)
    BY DEF Signals!MeanTimes, fh, fg
<1> QED BY <1>1, <1>2

LEMMA ClosesSame ==
    ASSUME NEW h, NEW g, NEW t \in Nat, SamePast(h, g, t), NEW lo \in Nat \ {0}, NEW hi \in 0 .. t, NEW a
    PROVE  Signals!Closes(h, lo, hi, a) = Signals!Closes(g, lo, hi, a)
<1>1. \A i \in lo .. hi : Signals!C(h, i, a) = Signals!C(g, i, a)
    BY DEF SamePast, Signals!C
<1> QED BY <1>1 DEF Signals!Closes

LEMMA TrendsSame ==
    ASSUME Signals!SignalAssumption, NEW h, NEW g, NEW t \in Nat, SamePast(h, g, t), NEW a
    PROVE  /\ Signals!Tsmom(h, t, a) = Signals!Tsmom(g, t, a)
           /\ Signals!Ma(h, t, a) = Signals!Ma(g, t, a)
<1>1. Short \in Nat \ {0} /\ Long \in Nat \ {0} /\ Short <= Long
    BY DEF Signals!SignalAssumption
<1>2. Signals!Tsmom(h, t, a) = Signals!Tsmom(g, t, a)
    <2>1. CASE t <= Long
        BY <1>1, <2>1 DEF Signals!Tsmom
    <2>2. CASE ~(t <= Long)
        <3>1. \A i \in {t, t - Short, t - Long} : Signals!C(h, i, a) = Signals!C(g, i, a)
            BY <1>1, <2>2 DEF SamePast, Signals!C
        <3> QED BY <3>1 DEF Signals!Tsmom
    <2> QED BY <2>1, <2>2
<1>3. Signals!Ma(h, t, a) = Signals!Ma(g, t, a)
    <2>1. CASE t >= Long
        <3>1. \A w \in {Short, Long} : Signals!MeanTimes(h, t, w, a) = Signals!MeanTimes(g, t, w, a)
            BY <1>1, <2>1, MeansSame
        <3> QED BY <3>1 DEF Signals!Ma
    <2>2. CASE ~(t >= Long)
        BY <2>2 DEF Signals!Ma, Signals!Full
    <2> QED BY <2>1, <2>2
<1> QED BY <1>2, <1>3

\* The channels of native bars, and what a bar makes of a break-out position.
LEMMA BreaksSame ==
    ASSUME NEW h, NEW g, NEW t \in Nat, SamePast(h, g, t), NEW i \in 1 .. t, NEW a, NEW p
    PROVE  Signals!BreaksOut(h, i, a, p) = Signals!BreaksOut(g, i, a, p)
<1>1. \A j \in 0 .. t : Signals!Native(h, j, a) = Signals!Native(g, j, a)
    BY DEF Signals!Native, SamePast
<1>2. i - 1 \in 0 .. t /\ i \in 0 .. t
    OBVIOUS
<1>3. ASSUME NEW w
      PROVE  /\ Signals!LastBars(h, i, w, a) = Signals!LastBars(g, i, w, a)
             /\ Signals!Channel(h, i, w, a) = Signals!Channel(g, i, w, a)
             /\ Signals!HasChannel(h, i, w, a) <=> Signals!HasChannel(g, i, w, a)
    <2>1. Signals!LastBars(h, i, w, a) = Signals!LastBars(g, i, w, a)
        BY <1>1, <1>2, Zenon DEF Signals!LastBars
    <2>2. \A j \in Signals!LastBars(g, i, w, a) : j \in 1 .. t
        BY DEF Signals!LastBars, Signals!Native
    <2>3. \A j \in Signals!LastBars(g, i, w, a) : Signals!C(h, j, a) = Signals!C(g, j, a)
        BY <2>2 DEF SamePast, Signals!C
    <2>4. Signals!Channel(h, i, w, a) = Signals!Channel(g, i, w, a)
        BY <2>1, <2>3 DEF Signals!Channel
    <2> QED BY <2>1, <2>4 DEF Signals!HasChannel
<1>4. Signals!C(h, i, a) = Signals!C(g, i, a)
    BY DEF SamePast, Signals!C
<1>5. Signals!Native(h, i, a) = Signals!Native(g, i, a)
    BY <1>1, <1>2
<1>6. /\ Signals!Channel(h, i, Long, a) = Signals!Channel(g, i, Long, a)
      /\ Signals!Channel(h, i, Short, a) = Signals!Channel(g, i, Short, a)
      /\ Signals!HasChannel(h, i, Long, a) <=> Signals!HasChannel(g, i, Long, a)
      /\ Signals!HasChannel(h, i, Short, a) <=> Signals!HasChannel(g, i, Short, a)
    BY <1>3
<1> QED BY <1>4, <1>5, <1>6 DEF Signals!BreaksOut

LEMMA BreakoutSame ==
    ASSUME NEW h, NEW g, NEW t \in Nat, SamePast(h, g, t), NEW a
    PROVE  Signals!Breakout(h, t, a) = Signals!Breakout(g, t, a)
<1> DEFINE sh == [i \in 1 .. t |-> [p \in Signals!Sides |-> Signals!BreaksOut(h, i, a, p)]]
           sg == [i \in 1 .. t |-> [p \in Signals!Sides |-> Signals!BreaksOut(g, i, a, p)]]
<1>1. \A i \in 1 .. t : \A p : Signals!BreaksOut(h, i, a, p) = Signals!BreaksOut(g, i, a, p)
    BY BreaksSame
<1>2. sh = sg
    BY <1>1
<1> HIDE DEF sh, sg
<1>3. Signals!Breakout(h, t, a) = Signals!Holding(0, sh, t) /\ Signals!Breakout(g, t, a) = Signals!Holding(0, sg, t)
    BY DEF Signals!Breakout, sh, sg
<1> QED BY <1>2, <1>3

\* The spread of two metals against its mean, and a dip under a band.
LEMMA RevertsSame ==
    ASSUME Signals!SignalAssumption, NEW h, NEW g, NEW t \in Nat, SamePast(h, g, t), NEW i \in 1 .. t,
           NEW a, NEW b, NEW p
    PROVE  Signals!Reverts(h, i, a, b, p) = Signals!Reverts(g, i, a, b, p)
<1>1. Long \in Nat \ {0}
    BY DEF Signals!SignalAssumption
<1>2. CASE i < Long
    BY <1>2 DEF Signals!Reverts
<1>3. CASE ~(i < Long)
    <2> DEFINE fh == [j \in i - Long + 1 .. i |-> Signals!Spread(h, j, a, b)]
               fg == [j \in i - Long + 1 .. i |-> Signals!Spread(g, j, a, b)]
    <2>1. \A j \in i - Long + 1 .. i : Signals!Spread(h, j, a, b) = Signals!Spread(g, j, a, b)
        <3>1. \A j \in i - Long + 1 .. i : j \in 1 .. t
            BY <1>1, <1>3
        <3>2. \A j \in 1 .. t : Signals!Spread(h, j, a, b) = Signals!Spread(g, j, a, b)
            BY DEF SamePast, Signals!Spread, Signals!C
        <3> QED BY <3>1, <3>2
    <2>2. fh = fg
        BY <2>1
    <2>3. Signals!Spread(h, i, a, b) = Signals!Spread(g, i, a, b)
        BY <1>1, <1>3, <2>1
    <2> HIDE DEF fh, fg
    <2>4. /\ Signals!Score(h, i, a, b) = Long * Signals!Spread(h, i, a, b) - Signals!Sum(fh)
          /\ Signals!Score(g, i, a, b) = Long * Signals!Spread(g, i, a, b) - Signals!Sum(fg)
        BY DEF Signals!Score, fh, fg
    <2>5. Signals!Score(h, i, a, b) = Signals!Score(g, i, a, b)
        BY <2>2, <2>3, <2>4
    <2> QED BY <2>5 DEF Signals!Reverts
<1> QED BY <1>2, <1>3

LEMMA DipsSame ==
    ASSUME Signals!SignalAssumption, NEW h, NEW g, NEW t \in Nat, SamePast(h, g, t), NEW i \in 1 .. t,
           NEW a, NEW p
    PROVE  Signals!BuysDip(h, i, a, p) = Signals!BuysDip(g, i, a, p)
<1>1. Short \in Nat \ {0} /\ Long \in Nat \ {0} /\ Short <= Long
    BY DEF Signals!SignalAssumption
<1>2. CASE i < Long
    BY <1>2 DEF Signals!BuysDip
<1>3. CASE ~(i < Long)
    <2>1. SamePast(h, g, i) /\ i \in Nat
        BY PastShrinks
    <2>2. \A w \in {Short, Long} : Signals!MeanTimes(h, i, w, a) = Signals!MeanTimes(g, i, w, a)
        BY <1>1, <1>3, <2>1, MeansSame
    <2>3. Signals!C(h, i, a) = Signals!C(g, i, a)
        BY DEF SamePast, Signals!C
    <2> QED BY <2>2, <2>3 DEF Signals!BuysDip
<1> QED BY <1>2, <1>3

LEMMA ReversionsSame ==
    ASSUME Signals!SignalAssumption, NEW h, NEW g, NEW t \in Nat, SamePast(h, g, t), NEW a, NEW b
    PROVE  /\ Signals!Ratio(h, t, a, b) = Signals!Ratio(g, t, a, b)
           /\ Signals!Bollinger(h, t, a) = Signals!Bollinger(g, t, a)
<1> DEFINE rh == [i \in 1 .. t |-> [p \in Signals!Sides |-> Signals!Reverts(h, i, a, b, p)]]
           rg == [i \in 1 .. t |-> [p \in Signals!Sides |-> Signals!Reverts(g, i, a, b, p)]]
           bh == [i \in 1 .. t |-> [p \in Signals!Sides |-> Signals!BuysDip(h, i, a, p)]]
           bg == [i \in 1 .. t |-> [p \in Signals!Sides |-> Signals!BuysDip(g, i, a, p)]]
<1>1. \A i \in 1 .. t : \A p : Signals!Reverts(h, i, a, b, p) = Signals!Reverts(g, i, a, b, p)
    BY RevertsSame
<1>2. \A i \in 1 .. t : \A p : Signals!BuysDip(h, i, a, p) = Signals!BuysDip(g, i, a, p)
    BY DipsSame
<1>3. rh = rg
    BY <1>1
<1>4. bh = bg
    BY <1>2
<1> HIDE DEF rh, rg, bh, bg
<1>5. Signals!Ratio(h, t, a, b) = Signals!Holding(0, rh, t) /\ Signals!Ratio(g, t, a, b) = Signals!Holding(0, rg, t)
    BY DEF Signals!Ratio, rh, rg
<1>6. Signals!Bollinger(h, t, a) = Signals!Holding(0, bh, t) /\ Signals!Bollinger(g, t, a) = Signals!Holding(0, bg, t)
    BY DEF Signals!Bollinger, bh, bg
<1> QED BY <1>3, <1>4, <1>5, <1>6

\* The crash filter.
LEMMA WatchesSame ==
    ASSUME Signals!SignalAssumption, NEW h, NEW g, NEW t \in Nat, SamePast(h, g, t), NEW i \in 1 .. t,
           NEW a, NEW s
    PROVE  Signals!Watches(h, i, a, s) = Signals!Watches(g, i, a, s)
<1>1. Short \in Nat \ {0} /\ Long \in Nat \ {0}
    BY DEF Signals!SignalAssumption
<1>2. Signals!C(h, i, a) = Signals!C(g, i, a)
    BY DEF SamePast, Signals!C
<1>3. Signals!Peak(h, i, a) = Signals!Peak(g, i, a)
    <2>1. Signals!Clip(i - Long + 1, 1, i) \in Nat \ {0} /\ i \in 0 .. t
        BY <1>1 DEF Signals!Clip
    <2>2. Signals!Closes(h, Signals!Clip(i - Long + 1, 1, i), i, a) = Signals!Closes(g, Signals!Clip(i - Long + 1, 1, i), i, a)
        BY <2>1, ClosesSame
    <2> QED BY <2>2 DEF Signals!Peak
<1>4. Signals!Crashed(h, i, a) <=> Signals!Crashed(g, i, a)
    BY <1>2, <1>3 DEF Signals!Crashed
<1>5. Signals!Healed(h, i, a) <=> Signals!Healed(g, i, a)
    <2>1. i > Short => Signals!C(h, i - Short, a) = Signals!C(g, i - Short, a)
        BY <1>1 DEF SamePast, Signals!C
    <2> QED BY <1>2, <1>3, <2>1 DEF Signals!Healed
<1> QED BY <1>4, <1>5 DEF Signals!Watches

LEMMA CrashSame ==
    ASSUME Signals!SignalAssumption, NEW h, NEW g, NEW t \in Nat, SamePast(h, g, t), NEW a
    PROVE  Signals!CrashState(h, t, a) = Signals!CrashState(g, t, a)
<1> DEFINE sh == [i \in 1 .. t |-> [s \in Signals!Watched |-> Signals!Watches(h, i, a, s)]]
           sg == [i \in 1 .. t |-> [s \in Signals!Watched |-> Signals!Watches(g, i, a, s)]]
           start == [in |-> TRUE, flat |-> 0]
<1>1. \A i \in 1 .. t : \A s : Signals!Watches(h, i, a, s) = Signals!Watches(g, i, a, s)
    BY WatchesSame
<1>2. sh = sg
    BY <1>1
<1>3. /\ Signals!CrashState(h, t, a) = IF Signals!Holding(start, sh, t).in THEN 2 ELSE 0
      /\ Signals!CrashState(g, t, a) = IF Signals!Holding(start, sg, t).in THEN 2 ELSE 0
    BY DEF Signals!CrashState
<1> HIDE DEF sh, sg
<1> QED BY <1>2, <1>3

\* The families on external series: the labels they read are a day old.
LEMMA SeriesSame ==
    ASSUME Signals!SignalAssumption, NEW h, NEW g, NEW t \in Nat, SamePast(h, g, t), NEW a
    PROVE  /\ Signals!Basis(h, t, a) = Signals!Basis(g, t, a)
           /\ Signals!Macro(h, t, a) = Signals!Macro(g, t, a)
           /\ Signals!Vrp(h, t, a) = Signals!Vrp(g, t, a)
<1>1. Short \in Nat \ {0} /\ Long \in Nat \ {0}
    BY DEF Signals!SignalAssumption
<1>2. \A i \in Int : i <= t => Signals!Label(h, i) = Signals!Label(g, i)
    BY DEF SamePast, Signals!Label, Signals!X
<1>3. Signals!Label(h, t) = Signals!Label(g, t)
    BY <1>2
<1>4. Signals!Crowded(h, t) <=> Signals!Crowded(g, t)
    <2> DEFINE D == Signals!Clip(t - Long + 1, 1, t) .. t
               ph == {i \in D : Signals!Label(h, i) # Signals!Missing}
               pg == {i \in D : Signals!Label(g, i) # Signals!Missing}
               lh == {i \in ph : Signals!Label(h, i) < Signals!Label(h, t)}
               lg == {i \in pg : Signals!Label(g, i) < Signals!Label(g, t)}
    <2>1. \A i \in D : i \in Int /\ i <= t
        <3>1. Signals!Clip(t - Long + 1, 1, t) \in Int
            BY <1>1 DEF Signals!Clip
        <3> QED BY <3>1
    <2>2. \A i \in D : Signals!Label(h, i) = Signals!Label(g, i)
        BY <1>2, <2>1
    <2> HIDE DEF D
    <2>3. ph = pg
        BY <2>2
    <2>4. lh = lg
        BY <1>3, <2>2
    <2>5. /\ Signals!Crowded(h, t) <=> /\ Signals!Cardinality(ph) >= Short
                                       /\ Signals!Label(h, t) # Signals!Missing
                                       /\ Signals!Cardinality(lh) * 2 > Signals!Cardinality(ph)
          /\ Signals!Crowded(g, t) <=> /\ Signals!Cardinality(pg) >= Short
                                       /\ Signals!Label(g, t) # Signals!Missing
                                       /\ Signals!Cardinality(lg) * 2 > Signals!Cardinality(pg)
        BY Zenon DEF Signals!Crowded, D
    <2> HIDE DEF ph, pg, lh, lg
    <2> QED BY <1>3, <2>3, <2>4, <2>5
<1>5. Signals!Basis(h, t, a) = Signals!Basis(g, t, a)
    BY <1>4 DEF Signals!Basis
<1>6. Signals!Macro(h, t, a) = Signals!Macro(g, t, a)
    <2>1. Signals!Label(h, t - Short) = Signals!Label(g, t - Short)
        BY <1>1, <1>2
    <2> QED BY <1>3, <2>1 DEF Signals!Macro
<1>7. Signals!Vrp(h, t, a) = Signals!Vrp(g, t, a)
    <2>1. Signals!Realised(h, t - 1, a) = Signals!Realised(g, t - 1, a)
        <3>1. CASE t - 1 <= Short
            BY <3>1 DEF Signals!Realised
        <3>2. CASE ~(t - 1 <= Short)
            <4>1. t - 1 - Short \in Nat \ {0} /\ t - 1 \in 0 .. t
                BY <1>1, <3>2
            <4>2. Signals!Closes(h, t - 1 - Short, t - 1, a) = Signals!Closes(g, t - 1 - Short, t - 1, a)
                BY <4>1, ClosesSame
            <4> QED BY <4>2 DEF Signals!Realised
        <3> QED BY <3>1, <3>2
    <2> QED BY <1>3, <2>1 DEF Signals!Vrp
<1> QED BY <1>5, <1>6, <1>7

\* So does every family's signal.
LEMMA TargetsSame ==
    ASSUME Signals!SignalAssumption, NEW h, NEW g, NEW t \in Nat, SamePast(h, g, t), NEW f
    PROVE  Signals!Targets(f, h, t) = Signals!Targets(f, g, t)
<1>1. ASSUME NEW a \in Assets PROVE Signals!Signal(f, h, t, a) = Signals!Signal(f, g, t, a)
    <2> DEFINE b == CHOOSE x \in Assets : x # a
    <2>1. /\ Signals!Tsmom(h, t, a) = Signals!Tsmom(g, t, a)
          /\ Signals!Ma(h, t, a) = Signals!Ma(g, t, a)
          /\ Signals!Breakout(h, t, a) = Signals!Breakout(g, t, a)
        BY TrendsSame, BreakoutSame
    <2>2. Signals!Ensemble(h, t, a) = Signals!Ensemble(g, t, a)
        BY <2>1 DEF Signals!Ensemble
    <2>3. /\ Signals!Ratio(h, t, a, b) = Signals!Ratio(g, t, a, b)
          /\ Signals!Ratio(h, t, b, a) = Signals!Ratio(g, t, b, a)
          /\ Signals!Bollinger(h, t, a) = Signals!Bollinger(g, t, a)
        BY ReversionsSame
    <2>4. Signals!CrashState(h, t, a) = Signals!CrashState(g, t, a)
        BY CrashSame
    <2>5. Signals!WeeklyReversal(h, t, a) = Signals!WeeklyReversal(g, t, a)
        <3>1. Short \in Nat \ {0}
            BY DEF Signals!SignalAssumption
        <3>2. t > Short => /\ Signals!C(h, t, a) = Signals!C(g, t, a)
                           /\ Signals!C(h, t - Short, a) = Signals!C(g, t - Short, a)
            BY <3>1 DEF SamePast, Signals!C
        <3> QED BY <3>1, <3>2 DEF Signals!WeeklyReversal
    <2>6. /\ Signals!Basis(h, t, a) = Signals!Basis(g, t, a)
          /\ Signals!Macro(h, t, a) = Signals!Macro(g, t, a)
          /\ Signals!Vrp(h, t, a) = Signals!Vrp(g, t, a)
        BY SeriesSame
    <2> QED BY <2>1, <2>2, <2>3, <2>4, <2>5, <2>6 DEF Signals!Signal
<1> QED BY <1>1 DEF Signals!Targets

-----------------------------------------------------------------------------
(* What a signal can be, in halves                                         *)

LEMMA RulesIn ==
    ASSUME NEW h, NEW t \in Nat, NEW a, NEW b
    PROVE  /\ Signals!Breakout(h, t, a) \in Signals!Sides
           /\ Signals!Ratio(h, t, a, b) \in Signals!Sides
           /\ Signals!Bollinger(h, t, a) \in Signals!Sides
<1> DEFINE V == Signals!Sides
           s1 == [i \in 1 .. t |-> [p \in V |-> Signals!BreaksOut(h, i, a, p)]]
           s2 == [i \in 1 .. t |-> [p \in V |-> Signals!Reverts(h, i, a, b, p)]]
           s3 == [i \in 1 .. t |-> [p \in V |-> Signals!BuysDip(h, i, a, p)]]
<1>1. 0 \in V /\ 2 \in V /\ -2 \in V
    BY DEF Signals!Sides
<1>2. \A i \in 1 .. t, p \in V : /\ Signals!BreaksOut(h, i, a, p) \in V
                                 /\ Signals!Reverts(h, i, a, b, p) \in V
                                 /\ Signals!BuysDip(h, i, a, p) \in V
    <2> HIDE DEF V
    <2> QED BY <1>1 DEF Signals!BreaksOut, Signals!Reverts, Signals!BuysDip
<1>3. \A s \in {s1, s2, s3} : s \in [1 .. t -> [V -> V]]
    <2> HIDE DEF V
    <2> QED BY <1>2
<1>4. /\ Signals!Breakout(h, t, a) = Signals!Holding(0, s1, t)
      /\ Signals!Ratio(h, t, a, b) = Signals!Holding(0, s2, t)
      /\ Signals!Bollinger(h, t, a) = Signals!Holding(0, s3, t)
    BY DEF Signals!Breakout, Signals!Ratio, Signals!Bollinger
<1> HIDE DEF V, s1, s2, s3
<1>5. ASSUME NEW s \in {s1, s2, s3} PROVE Signals!Holding(0, s, t) \in V
    <2>1. s \in [1 .. t -> [V -> V]]
        BY <1>3
    <2>2. PICK f \in [0 .. t -> V] : Signals!Holding(0, s, t) = f[t]
        BY <1>1, <2>1, HoldingIs
    <2> QED BY <2>2
<1> QED BY <1>4, <1>5 DEF V

LEMMA SignalIn ==
    ASSUME Signals!SignalAssumption, NEW h, NEW t \in Nat, NEW f, NEW a
    PROVE  Signals!Signal(f, h, t, a) \in -2 .. 3
<1> DEFINE b == CHOOSE x \in Assets : x # a
<1>1. \A x : Signals!Sgn(x) \in {-1, 0, 1}
    BY DEF Signals!Sgn
<1>2. Signals!Tsmom(h, t, a) \in -2 .. 2 /\ Signals!Ma(h, t, a) \in -2 .. 2
    BY <1>1 DEF Signals!Tsmom, Signals!Ma
<1>3. /\ Signals!Breakout(h, t, a) \in {-2, 0, 2} /\ Signals!Bollinger(h, t, a) \in {-2, 0, 2}
      /\ Signals!Ratio(h, t, a, b) \in {-2, 0, 2} /\ Signals!Ratio(h, t, b, a) \in {-2, 0, 2}
    BY RulesIn DEF Signals!Sides
<1>4. Signals!LongOnly(Signals!Ensemble(h, t, a)) \in 0 .. 2
    <2>1. Signals!Ensemble(h, t, a) \in Int
        BY <1>2, <1>3 DEF Signals!Ensemble
    <2> QED BY <2>1 DEF Signals!LongOnly, Signals!Clip
<1>5. Signals!CrashState(h, t, a) \in {0, 2}
    BY DEF Signals!CrashState
<1>6. Signals!WeeklyReversal(h, t, a) \in 0 .. 3
    <2> DEFINE x == IF t <= Short THEN 0 ELSE Signals!Sgn(Signals!C(h, t, a) - Signals!C(h, t - Short, a))
    <2>1. x \in {-1, 0, 1}
        BY <1>1
    <2>2. Signals!WeeklyReversal(h, t, a) = Signals!Clip(2 - x, 0, 3)
        BY DEF Signals!WeeklyReversal
    <2> HIDE DEF x
    <2> QED BY <2>1, <2>2 DEF Signals!Clip
<1>7. Signals!WeekendHalf(t, a) \in 1 .. 2 /\ Signals!TurnOfMonth(t, a) \in 1 .. 2
    BY DEF Signals!WeekendHalf, Signals!TurnOfMonth
<1>8. Signals!Basis(h, t, a) \in 1 .. 2 /\ Signals!Macro(h, t, a) \in 0 .. 2 /\ Signals!Vrp(h, t, a) \in 0 .. 2
    BY DEF Signals!Basis, Signals!Macro, Signals!Vrp
<1> HIDE DEF b
<1> QED BY <1>2, <1>3, <1>4, <1>5, <1>6, <1>7, <1>8 DEF Signals!Signal, b

-----------------------------------------------------------------------------
(* The crash filter                                                        *)

\* In or out on every day of a history, and since when.
LEMMA CrashDays ==
    ASSUME Signals!SignalAssumption, NEW h, NEW n \in Nat, NEW a
    PROVE  \E s \in [0 .. n -> Signals!Watched] :
              /\ s[0].in
              /\ \A i \in 1 .. n : s[i] = Signals!Watches(h, i, a, s[i - 1])
              /\ \A t \in 1 .. n : Signals!CrashState(h, t, a) = IF s[t].in THEN 2 ELSE 0
<1> DEFINE V == Signals!Watched
           after(t) == [i \in 1 .. t |-> [s \in V |-> Signals!Watches(h, i, a, s)]]
           start == [in |-> TRUE, flat |-> 0]
<1>1. start \in V /\ start.in
    BY DEF Signals!Watched
<1>2. \A i \in Int, s \in V : Signals!Watches(h, i, a, s) \in V
    <2> SUFFICES ASSUME NEW i \in Int, NEW s \in V PROVE Signals!Watches(h, i, a, s) \in V
        OBVIOUS
    <2>1. s.flat + 1 \in Nat /\ s.in \in BOOLEAN
        BY DEF Signals!Watched
    <2>2. /\ (~Signals!Crashed(h, i, a)) \in BOOLEAN
          /\ (Signals!Rested(s.flat + 1) /\ Signals!Healed(h, i, a) /\ ~Signals!Crashed(h, i, a)) \in BOOLEAN
        BY Zenon
    <2>3. CASE s.in
        <3>1. Signals!Watches(h, i, a, s) = [in |-> ~Signals!Crashed(h, i, a), flat |-> 0]
            BY <2>3 DEF Signals!Watches
        <3> QED BY <2>2, <3>1 DEF Signals!Watched
    <2>4. CASE ~s.in
        <3>1. Signals!Watches(h, i, a, s) =
                 [in |-> Signals!Rested(s.flat + 1) /\ Signals!Healed(h, i, a) /\ ~Signals!Crashed(h, i, a),
                  flat |-> s.flat + 1]
            BY <2>4 DEF Signals!Watches
        <3> QED BY <2>1, <2>2, <3>1 DEF Signals!Watched
    <2> QED BY <2>3, <2>4
<1>3. \A t \in Nat : after(t) \in [1 .. t -> [V -> V]]
    <2> HIDE DEF V
    <2> QED BY <1>2
<1>4. \A t \in Nat : Signals!CrashState(h, t, a) = IF Signals!Holding(start, after(t), t).in THEN 2 ELSE 0
    BY DEF Signals!CrashState
<1>5. \A t \in Nat : \A i \in 1 .. t, s \in V : after(t)[i][s] = Signals!Watches(h, i, a, s)
    OBVIOUS
<1> HIDE DEF V, after, start
<1>6. PICK s \in [0 .. n -> V] : Unrolls(s, start, after(n), n)
    BY <1>1, <1>3, HoldingIs
<1>7. s[0] = start /\ \A i \in 1 .. n : s[i] = Signals!Watches(h, i, a, s[i - 1])
    <2>1. s[0] = start /\ \A i \in 1 .. n : s[i] = after(n)[i][s[i - 1]] /\ s[i - 1] \in V
        BY <1>6 DEF Unrolls
    <2> QED BY <1>5, <2>1
<1>8. ASSUME NEW t \in 1 .. n PROVE Signals!CrashState(h, t, a) = IF s[t].in THEN 2 ELSE 0
    <2> DEFINE upto == after(t)
    <2>0. t \in Nat /\ upto \in [1 .. t -> [V -> V]] /\ start \in V
        BY <1>1, <1>3
    <2> HIDE DEF upto
    <2>a. PICK f \in [0 .. t -> V] : Unrolls(f, start, upto, t) /\ Signals!Holding(start, upto, t) = f[t]
        BY <2>0, HoldingIs
    <2>1. Unrolls(f, start, after(t), t) /\ Signals!Holding(start, after(t), t) = f[t]
        BY <2>a DEF upto
    <2>2. f[0] = start /\ \A i \in 1 .. t : f[i] = Signals!Watches(h, i, a, f[i - 1])
        <3>1. f[0] = start /\ \A i \in 1 .. t : f[i] = after(t)[i][f[i - 1]] /\ f[i - 1] \in V
            BY <2>1 DEF Unrolls
        <3> QED BY <1>5, <3>1
    <2> DEFINE G == {i \in Nat : i <= t => f[i] = s[i]}
    <2>3. 0 \in G
        BY <1>7, <2>2
    <2>4. \A i \in Nat : i \in G => i + 1 \in G
        <3> SUFFICES ASSUME NEW i \in Nat, i \in G, i + 1 <= t PROVE f[i + 1] = s[i + 1]
            OBVIOUS
        <3>1. i + 1 \in 1 .. t /\ i + 1 \in 1 .. n /\ (i + 1) - 1 = i /\ f[i] = s[i]
            OBVIOUS
        <3> QED BY <1>7, <2>2, <3>1
    <2>5. t \in G
        <3> HIDE DEF G
        <3> QED BY <2>3, <2>4, NatSetInduction
    <2> QED BY <1>4, <2>1, <2>5
<1> QED BY <1>1, <1>6, <1>7, <1>8 DEF V

\* It is out for as long as it has been flat.
LEMMA FlatIsOut ==
    ASSUME NEW n \in Nat, NEW s \in [0 .. n -> Signals!Watched], s[0].in,
           \A i \in 1 .. n : ~s[i].in => s[i].flat = IF s[i - 1].in THEN 0 ELSE s[i - 1].flat + 1
    PROVE  \A t \in 0 .. n : ~s[t].in => /\ t - s[t].flat >= 1
                                         /\ \A i \in t - s[t].flat .. t : ~s[i].in
<1> DEFINE Out(t) == ~s[t].in => /\ t - s[t].flat >= 1
                                 /\ \A i \in t - s[t].flat .. t : ~s[i].in
           G == {t \in Nat : t <= n => Out(t)}
<1>1. 0 \in G
    OBVIOUS
<1>2. \A t \in Nat : t \in G => t + 1 \in G
    <2> SUFFICES ASSUME NEW t \in Nat, t + 1 <= n, Out(t), ~s[t + 1].in PROVE Out(t + 1)
        OBVIOUS
    <2>1. s[t + 1].flat = (IF s[t].in THEN 0 ELSE s[t].flat + 1) /\ s[t].flat \in Nat
        <3>1. t + 1 \in 1 .. n /\ (t + 1) - 1 = t /\ t \in 0 .. n
            OBVIOUS
        <3> QED BY <3>1 DEF Signals!Watched
    <2>2. CASE s[t].in
        <3>1. s[t + 1].flat = 0
            BY <2>1, <2>2
        <3> QED BY <3>1
    <2>3. CASE ~s[t].in
        <3>1. s[t + 1].flat = s[t].flat + 1
            BY <2>1, <2>3
        <3>2. t - s[t].flat >= 1 /\ \A i \in t - s[t].flat .. t : ~s[i].in
            BY <2>3
        <3>3. (t + 1) - s[t + 1].flat = t - s[t].flat
            BY <2>1, <3>1
        <3>4. \A i \in t - s[t].flat .. t + 1 : i \in t - s[t].flat .. t \/ i = t + 1
            BY <2>1
        <3> QED BY <3>2, <3>3, <3>4
    <2> QED BY <2>2, <2>3
<1>3. \A t \in Nat : t \in G
    <2> HIDE DEF G
    <2> QED BY <1>1, <1>2, NatSetInduction
<1> QED BY <1>3

LEMMA RestsHold ==
    ASSUME Signals!SignalAssumption, Signals!TypeOK, Signals!BacktestIsLive
    PROVE  Signals!CrashFilterRests
<1> SUFFICES ASSUME family = "crash_filter_beta", NEW t \in DOMAIN decided, NEW a \in Assets, t > 1,
                    decided[t][a] = 2, decided[t - 1][a] = 0
             PROVE  \A i \in Signals!Clip(t - MinFlat, 1, t) .. t - 1 : decided[i][a] = 0
    BY DEF Signals!CrashFilterRests
<1>1. MinFlat \in Nat /\ Len(decided) \in Nat /\ DOMAIN decided = 1 .. Len(decided)
    BY DEF Signals!SignalAssumption, Signals!TypeOK
<1> DEFINE n == Len(decided)
<1>2. t \in 2 .. n /\ t - 1 \in 1 .. n
    BY <1>1
<1>3. \A j \in 1 .. n : decided[j][a] = Signals!CrashState(hist, j, a)
    <2>1. \A j \in 1 .. n : decided[j] = Signals!Targets(family, hist, j)
        BY <1>1 DEF Signals!BacktestIsLive
    <2> QED BY <2>1 DEF Signals!Targets, Signals!Signal
<1>4. PICK s \in [0 .. n -> Signals!Watched] :
          /\ s[0].in
          /\ \A j \in 1 .. n : s[j] = Signals!Watches(hist, j, a, s[j - 1])
          /\ \A j \in 1 .. n : Signals!CrashState(hist, j, a) = IF s[j].in THEN 2 ELSE 0
    BY <1>1, CrashDays
<1> HIDE DEF n
<1>5. s[t].in /\ ~s[t - 1].in
    BY <1>2, <1>3, <1>4
<1>6. s[t - 1].flat \in Nat /\ s[t - 1].flat + 1 >= MinFlat
    <2>1. s[t - 1] \in Signals!Watched /\ s[t] = Signals!Watches(hist, t, a, s[t - 1])
        BY <1>2, <1>4
    <2> QED BY <1>5, <2>1 DEF Signals!Watches, Signals!Watched, Signals!Rested
<1>7. t - 1 - s[t - 1].flat >= 1 /\ \A j \in t - 1 - s[t - 1].flat .. t - 1 : ~s[j].in
    <2>1. n \in Nat /\ t - 1 \in 0 .. n
        BY <1>1, <1>2 DEF n
    <2>2. \A j \in 0 .. n : ~s[j].in => /\ j - s[j].flat >= 1
                                        /\ \A i \in j - s[j].flat .. j : ~s[i].in
        <3>1. \A j \in 1 .. n : ~s[j].in => s[j].flat = IF s[j - 1].in THEN 0 ELSE s[j - 1].flat + 1
            <4> SUFFICES ASSUME NEW j \in 1 .. n
                         PROVE  s[j].flat = IF s[j - 1].in THEN 0 ELSE s[j - 1].flat + 1
                OBVIOUS
            <4>1. s[j] = Signals!Watches(hist, j, a, s[j - 1])
                BY <1>4
            <4>2. \A x : Signals!Watches(hist, j, a, x).flat = IF x.in THEN 0 ELSE x.flat + 1
                BY DEF Signals!Watches
            <4> QED BY <4>1, <4>2
        <3> QED BY <1>4, <2>1, <3>1, FlatIsOut
    <2> QED BY <1>5, <2>1, <2>2
<1>8. ASSUME NEW i \in Signals!Clip(t - MinFlat, 1, t) .. t - 1
      PROVE  i \in t - 1 - s[t - 1].flat .. t - 1 /\ i \in 1 .. n
    <2> DEFINE lo == Signals!Clip(t - MinFlat, 1, t)
    <2>1. n \in Nat /\ t \in Nat /\ t <= n
        BY <1>1, <1>2 DEF n
    <2>2. lo >= t - MinFlat /\ lo >= 1 /\ lo \in Int /\ i \in lo .. t - 1
        BY <1>1, <2>1, <1>2 DEF Signals!Clip
    <2> HIDE DEF lo
    <2> QED BY <1>1, <1>6, <2>1, <2>2
<1> QED BY <1>3, <1>4, <1>7, <1>8

-----------------------------------------------------------------------------

\* What the desk has at the close, and what it knows of it later, have the same
\* past.
LEMMA CloseSame ==
    ASSUME NEW h \in Seq(Signals!Bar), h # <<>>
    PROVE  SamePast(h, Signals!AtTheClose(h), Len(h))
<1> DEFINE g == Signals!AtTheClose(h)
           n == Len(h)
<1>1. n \in Nat \ {0} /\ \A i \in 1 .. n : h[i] \in Signals!Bar
    OBVIOUS
<1>2. g = [h EXCEPT ![n].x = Signals!X(h, n - 1)]
    BY DEF Signals!AtTheClose
<1>3. \A i \in 1 .. n - 1 : g[i] = h[i]
    BY <1>1, <1>2
<1>4. g[n] = [h[n] EXCEPT !.x = Signals!X(h, n - 1)]
    BY <1>1, <1>2
<1>5. g[n].c = h[n].c /\ g[n].n = h[n].n
    <2>1. h[n] \in Signals!Bar
        BY <1>1
    <2> HIDE DEF g, n
    <2> QED BY <1>4, <2>1 DEF Signals!Bar
<1> HIDE DEF g, n
<1>6. \A i \in 1 .. n : i \in 1 .. n - 1 \/ i = n
    BY <1>1
<1> QED BY <1>3, <1>5, <1>6 DEF SamePast, g, n

LEMMA FilledIs ==
    ASSUME hist \in Seq(Signals!Bar), NEW d \in Signals!Bar
    PROVE  Signals!Filled(d) \in Signals!Bar
<1>1. CASE hist = <<>>
    BY <1>1 DEF Signals!Filled, Signals!Bar
<1>2. CASE hist # <<>>
    <2>1. Len(hist) \in 1 .. Len(hist) /\ hist[Len(hist)] \in Signals!Bar
        BY <1>2
    <2>2. \A a \in Assets : Signals!C(hist, Len(hist), a) \in Int
        BY <2>1 DEF Signals!C, Signals!Bar
    <2>3. [a \in Assets |-> IF a \in d.n THEN d.c[a] ELSE Signals!C(hist, Len(hist), a)] \in [Assets -> Int]
        BY <2>2 DEF Signals!Bar
    <2> QED BY <1>2, <2>3 DEF Signals!Filled, Signals!Bar
<1> QED BY <1>1, <1>2

\* A day: what was decided stays what the longer history says, and what is
\* decided today is what it will say.
LEMMA DayIsLive ==
    ASSUME Signals!SignalAssumption, Signals!TypeOK, Signals!BacktestIsLive,
           NEW d \in NewDays(family), Signals!Day(d)
    PROVE  Signals!TypeOK' /\ Signals!BacktestIsLive'
<1> DEFINE n == Len(hist)
           bar == Signals!Filled(d)
           today == Signals!Targets(family, Signals!AtTheClose(hist'), Len(hist'))
<1>1. /\ hist' = Append(hist, bar) /\ decided' = Append(decided, today) /\ family' = family
      /\ bar \in Signals!Bar
    BY FilledIs DEF Signals!Day, Signals!SignalAssumption, Signals!TypeOK
<1>2. /\ hist \in Seq(Signals!Bar) /\ n \in Nat /\ Len(decided) = n /\ decided \in Seq([Assets -> -2 .. 3])
      /\ family \in Families
    BY DEF Signals!TypeOK
<1> HIDE DEF bar, n
<1>3. /\ hist' \in Seq(Signals!Bar) /\ Len(hist') = n + 1 /\ hist' # <<>>
      /\ \A i \in 1 .. n : hist'[i] = hist[i]
    BY <1>1, <1>2 DEF n
<1>4. today = Signals!Targets(family, hist', n + 1)
    <2>1. SamePast(hist', Signals!AtTheClose(hist'), n + 1)
        BY <1>3, CloseSame
    <2> QED BY <1>2, <1>3, <2>1, TargetsSame
<1>5. today \in [Assets -> -2 .. 3]
    <2>1. \A a \in Assets : Signals!Signal(family, hist', n + 1, a) \in -2 .. 3
        BY <1>2, SignalIn
    <2> QED BY <1>4, <2>1 DEF Signals!Targets
<1> HIDE DEF today
<1>6. Signals!TypeOK'
    BY <1>1, <1>2, <1>3, <1>5 DEF Signals!TypeOK
<1>7. Signals!BacktestIsLive'
    <2> SUFFICES ASSUME NEW t \in 1 .. n + 1
                 PROVE  Signals!Targets(family, hist', t) = decided'[t]
        BY <1>1, <1>2, <1>5 DEF Signals!BacktestIsLive
    <2>1. CASE t = n + 1
        BY <1>1, <1>2, <1>4, <2>1
    <2>2. CASE t # n + 1
        <3>1. t \in 1 .. n /\ t \in Nat
            BY <1>2, <2>2
        <3>2. SamePast(hist', hist, t)
            BY <1>2, <1>3, <3>1 DEF SamePast
        <3>3. Signals!Targets(family, hist', t) = Signals!Targets(family, hist, t)
            BY <3>1, <3>2, TargetsSame
        <3>4. Signals!Targets(family, hist, t) = decided[t]
            BY <1>2, <3>1 DEF Signals!BacktestIsLive
        <3>5. decided'[t] = decided[t]
            BY <1>1, <1>2, <3>1
        <3> QED BY <3>3, <3>4, <3>5
    <2> QED BY <2>1, <2>2
<1> QED BY <1>6, <1>7

\* The signals of the perps strategies: for any assets, closes, series and
\* windows, what the backtest would have held on a past day is what the desk
\* decided on that day, although more bars came since and labels that were late;
\* and the crash filter stays out for as long as it must (SignalsSound).
THEOREM SignalsAreCausal ==
    ASSUME Signals!SignalAssumption
    PROVE  Signals!Spec => []Signals!SignalsSound
<1>1. Signals!Init => Signals!TypeOK /\ Signals!BacktestIsLive
    BY DEF Signals!Init, Signals!TypeOK, Signals!BacktestIsLive
<1>2. Signals!TypeOK /\ Signals!BacktestIsLive /\ [Signals!Next]_(Signals!vars)
         => Signals!TypeOK' /\ Signals!BacktestIsLive'
    <2> SUFFICES ASSUME Signals!TypeOK, Signals!BacktestIsLive, [Signals!Next]_(Signals!vars)
                 PROVE  Signals!TypeOK' /\ Signals!BacktestIsLive'
        OBVIOUS
    <2>1. ASSUME NEW d \in NewDays(family), Signals!Day(d) PROVE Signals!TypeOK' /\ Signals!BacktestIsLive'
        BY <2>1, DayIsLive
    <2>2. CASE UNCHANGED Signals!vars
        BY <2>2 DEF Signals!vars, Signals!TypeOK, Signals!BacktestIsLive
    <2> QED BY <2>1, <2>2 DEF Signals!Next
<1>3. Signals!TypeOK /\ Signals!BacktestIsLive => Signals!SignalsSound
    BY RestsHold DEF Signals!SignalsSound
<1> QED
    BY <1>1, <1>2, <1>3, PTL DEF Signals!Spec
=============================================================================
