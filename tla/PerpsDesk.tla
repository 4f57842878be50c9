----------------------------- MODULE PerpsDesk -----------------------------
(***************************************************************************)
(* The perps desk on a venue (perps/paper.py with adapter demo or live,    *)
(* perps/agent.py, scripts/perps_loop.sh): sessions of ticks, each tick    *)
(* reconciles the book with the venue and then sends orders, one per asset *)
(* at most.                                                                *)
(*                                                                         *)
(* Positions are in contracts and long only, as the incumbent strategy     *)
(* holds them.  Prices are left out: equity, the panel's age and every     *)
(* limit they decide are free choices of each tick.                        *)
(***************************************************************************)
EXTENDS Integers, FiniteSets

CONSTANTS
    Assets,     \* the universe
    Cap,        \* contracts the capped target weights ask for at most
    MaxWeek,    \* weeks, the rebalance period
    MaxCrash    \* engines killed

ASSUME PerpsAssumption ==
    /\ IsFiniteSet(Assets) /\ Assets # {}
    /\ Cap \in Nat \ {0} /\ MaxWeek \in Nat \ {0} /\ MaxCrash \in Nat

VARIABLES
    week,     \* now
    file,     \* state/KILL_SWITCH_PERPS exists
    disk,     \* perps_paper_state.json
    book,     \* PaperEngine.book of the running engine; an empty one between sessions
    run,      \* where the engine is
    venue,    \* contracts held at the venue
    stops,    \* assets with a bracket at the venue
    crashes,  \* engines killed
    late      \* observer: orders that reached the venue under the switch

vars == <<week, file, disk, book, run, venue, stops, crashes, late>>

-----------------------------------------------------------------------------
Halts == {"", "kill_switch", "reconcile_mismatch", "order_error_in_doubt"}

\* rebalanced is last_rebalance_day, in weeks.
Book == [positions : [Assets -> Int], halted : Halts, rebalanced : 0..MaxWeek]

Flat == [a \in Assets |-> 0]
NoOrder == [asset |-> CHOOSE a \in Assets : TRUE, delta |-> 0, reduces |-> FALSE]

\* The orders of a tick: assets still to do, whether risk may be added, and the
\* order that passed the gate and is not sent yet.
Off == [pc |-> "off", flatten |-> FALSE, todo |-> {}, adds |-> FALSE, order |-> NoOrder]

Run == [pc : {"off", "observe", "tick", "orders", "post", "loop"},
        flatten : BOOLEAN, todo : SUBSET Assets, adds : BOOLEAN,
        order : [asset : Assets, delta : Int, reduces : BOOLEAN]]

TypeOK ==
    /\ week \in 1..MaxWeek /\ file \in BOOLEAN
    /\ disk \in Book /\ book \in Book /\ run \in Run
    /\ venue \in [Assets -> Int] /\ stops \subseteq Assets
    /\ crashes \in 0..MaxCrash /\ late \in Nat

NewBook == [positions |-> Flat, halted |-> "", rebalanced |-> 0]

Init ==
    /\ week = 1 /\ file = FALSE
    /\ disk = NewBook /\ book = NewBook /\ run = Off
    /\ venue = Flat /\ stops = {}
    /\ crashes = 0 /\ late = 0

Magnitude(n) == IF n < 0 THEN -n ELSE n
Held(b) == {a \in Assets : b.positions[a] # 0}
Agree == book.positions = venue

At(pc) == run.pc = pc
GoTo(pc) == run' = [Off EXCEPT !.pc = pc]
Saved(b) == book' = b /\ disk' = b
Exit == GoTo("off") /\ book' = NewBook

-----------------------------------------------------------------------------
\* The supervisor starts a session unless the switch is there; the engine loads
\* its book.
Start ==
    /\ At("off") /\ ~file
    /\ book' = disk /\ GoTo("observe")
    /\ UNCHANGED <<week, file, disk, venue, stops, crashes, late>>

\* Halted without the risk node.
HaltedBySwitch == file

\* The observe and risk nodes of the agent's graph.
Halted == file \/ book.halted \notin {"", "kill_switch"}

Observe ==
    /\ At("observe")
    /\ IF Halted THEN Exit /\ disk' = book
       ELSE GoTo("tick") /\ UNCHANGED <<disk, book>>
    /\ UNCHANGED <<week, file, venue, stops, crashes, late>>

\* Between ticks: another one, or the session's minutes are up.
Again ==
    /\ At("loop") /\ GoTo("observe")
    /\ UNCHANGED <<week, file, disk, book, venue, stops, crashes, late>>

EndSession ==
    /\ At("loop") /\ Exit /\ disk' = book
    /\ UNCHANGED <<week, file, venue, stops, crashes, late>>

\* tick starts with the switch, which replaces what the book says of a halt.
TickKill ==
    /\ At("tick") /\ file
    /\ GoTo("loop") /\ Saved([book EXCEPT !.halted = "kill_switch"])
    /\ UNCHANGED <<week, file, venue, stops, crashes, late>>

\* The switch is not there.  What the tick reads next is read in the same step:
\* a change between the reads is as good as one before or after both.
Goes == At("tick") /\ ~file

\* The venue is paused or not to be read, or there is no panel: nothing is
\* decided, and the graph's persist node saves unless the tick raised.
TickNothing ==
    /\ Goes /\ GoTo("loop")
    /\ Saved(book) \/ UNCHANGED <<disk, book>>
    /\ UNCHANGED <<week, file, venue, stops, crashes, late>>

\* Mismatch that notes the difference and does not halt.
MismatchNoted ==
    /\ Goes /\ ~Agree
    /\ GoTo("loop") /\ Saved(book)
    /\ UNCHANGED <<week, file, venue, stops, crashes, late>>

\* reconcile finds a difference.
Mismatch ==
    /\ Goes /\ ~Agree
    /\ GoTo("loop") /\ Saved([book EXCEPT !.halted = "reconcile_mismatch"])
    /\ UNCHANGED <<week, file, venue, stops, crashes, late>>

\* reconcile agrees.  What tick asks of book.halted next is what the risk node
\* has asked: nothing in between sets it.
Clear == Goes /\ Agree

\* Past the kill line of the drawdown ladder: close every position.
DrawdownKill ==
    /\ Clear /\ Held(book) # {}
    /\ run' = [Off EXCEPT !.pc = "orders", !.flatten = TRUE, !.todo = Held(book)]
    /\ UNCHANGED <<week, file, disk, book, venue, stops, crashes, late>>

\* Otherwise trade to the targets, whatever the strategy wants; risk may
\* be added in the weekly rebalance when no loss stop is hit.
Rebalance ==
    /\ Clear
    /\ \E stopped \in BOOLEAN :
          run' = [Off EXCEPT !.pc = "orders", !.todo = Assets,
                             !.adds = book.rebalanced < week /\ ~stopped]
    /\ UNCHANGED <<week, file, disk, book, venue, stops, crashes, late>>

-----------------------------------------------------------------------------
\* An asset is passed over: inside the band, no mark or quote, or blocked by a
\* limit on data age, size, price or leverage.
Skip(a) ==
    /\ At("orders") /\ a \in run.todo
    /\ run' = [run EXCEPT !.todo = @ \ {a}]
    /\ UNCHANGED <<week, file, disk, book, venue, stops, crashes, late>>

\* Gate without its look at the switch.
GateBlind(a) ==
    /\ At("orders") /\ a \in run.todo
    /\ \E target \in IF run.flatten THEN {0} ELSE 0..Cap :
          LET delta == target - book.positions[a] IN
          /\ delta < 0 \/ (delta > 0 /\ run.adds)
          /\ run' = [run EXCEPT !.pc = "post", !.todo = @ \ {a},
                        !.order = [asset |-> a, delta |-> delta, reduces |-> delta < 0]]
    /\ UNCHANGED <<week, file, disk, book, venue, stops, crashes, late>>

\* Gate that sends an exit without the reduce-only mark.
GateUnmarked(a) ==
    /\ At("orders") /\ a \in run.todo
    /\ \E target \in IF run.flatten THEN {0} ELSE 0..Cap :
          LET delta == target - book.positions[a] IN
          /\ delta < 0 \/ (delta > 0 /\ run.adds)
          /\ ~file
          /\ run' = [run EXCEPT !.pc = "post", !.todo = @ \ {a},
                        !.order = [asset |-> a, delta |-> delta, reduces |-> FALSE]]
    /\ UNCHANGED <<week, file, disk, book, venue, stops, crashes, late>>

\* _trade: the order to the asset's target passes check_pre_trade.
Gate(a) ==
    /\ At("orders") /\ a \in run.todo
    /\ \E target \in IF run.flatten THEN {0} ELSE 0..Cap :
          LET delta == target - book.positions[a] IN
          /\ delta < 0 \/ (delta > 0 /\ run.adds)
          /\ ~file
          /\ run' = [run EXCEPT !.pc = "post", !.todo = @ \ {a},
                        !.order = [asset |-> a, delta |-> delta, reduces |-> delta < 0]]
    /\ UNCHANGED <<week, file, disk, book, venue, stops, crashes, late>>

\* What the venue may do with the order: fill any part of it, but a reduce-only
\* one never past flat.
Fills(o) ==
    {n \in 0..Magnitude(o.delta) : o.reduces => n <= venue[o.asset]}
Signed(o, n) == IF o.delta < 0 THEN -n ELSE n

Executed(o, n) ==
    /\ venue' = [venue EXCEPT ![o.asset] = @ + Signed(o, n)]
    /\ late' = IF file THEN late + 1 ELSE late

NextAsset == run' = [run EXCEPT !.pc = "orders", !.order = NoOrder]

\* The venue answers and the fill, if any, is booked.
PostAnswered ==
    LET o == run.order IN
    /\ At("post")
    /\ \E n \in Fills(o) :
          /\ Executed(o, n)
          /\ book' = [book EXCEPT !.positions[o.asset] = @ + Signed(o, n)]
    /\ NextAsset
    /\ UNCHANGED <<week, file, disk, stops, crashes>>

\* The venue refuses it: the halt reason is emptied, whatever it was.
PostRefused ==
    /\ At("post") /\ NextAsset
    /\ book' = [book EXCEPT !.halted = ""]
    /\ UNCHANGED <<week, file, disk, venue, stops, crashes, late>>

\* No answer: the order may have filled.  The tick goes on with the next asset.
PostLost ==
    /\ At("post") /\ NextAsset
    /\ \E n \in Fills(run.order) : Executed(run.order, n)
    /\ book' = [book EXCEPT !.halted = "order_error_in_doubt"]
    /\ UNCHANGED <<week, file, disk, stops, crashes>>

\* An answer that cannot be decoded: the tick raises and is not saved.
PostUnreadable ==
    /\ At("post") /\ GoTo("loop")
    /\ \E n \in Fills(run.order) : Executed(run.order, n)
    /\ UNCHANGED <<week, file, disk, book, stops, crashes>>

Done == At("orders") /\ run.todo = {}

\* The drawdown's orders are out, filled or not: trip the switch.
TripDrawdown ==
    /\ Done /\ run.flatten
    /\ file' = TRUE
    /\ GoTo("loop") /\ Saved(book)
    /\ UNCHANGED <<week, venue, stops, crashes, late>>

\* The rebalance is over: stamped if it was due, a bracket asked for under
\* every position, and saved.  (An answer to a bracket that cannot be decoded
\* puts the save off to the next tick; a kill before that is one before the
\* stamp, but for the brackets.)
EndRebalance ==
    /\ Done /\ ~run.flatten
    /\ GoTo("loop") /\ Saved([book EXCEPT !.rebalanced = week])
    /\ \E placed \in SUBSET Held(book) : stops' = stops \cup placed
    /\ UNCHANGED <<week, file, venue, crashes, late>>

-----------------------------------------------------------------------------
\* The watchdog's kill -9, a reboot.
Crash ==
    /\ ~At("off") /\ crashes < MaxCrash
    /\ crashes' = crashes + 1 /\ Exit
    /\ UNCHANGED <<week, file, disk, venue, stops, late>>

\* The venue: a bracket fires and closes the position.
BracketFires(a) ==
    /\ a \in stops /\ stops' = stops \ {a}
    /\ venue' = [venue EXCEPT ![a] = 0]
    /\ UNCHANGED <<week, file, disk, book, run, crashes, late>>

\* A tick reads the day once, so its orders are all of one week.
NewWeek ==
    /\ week < MaxWeek /\ ~At("orders") /\ ~At("post")
    /\ week' = week + 1
    /\ UNCHANGED <<file, disk, book, run, venue, stops, crashes, late>>

\* The owner or the risk desk trips the switch; the owner removes it.
OwnerTrips ==
    /\ ~file /\ file' = TRUE
    /\ UNCHANGED <<week, disk, book, run, venue, stops, crashes, late>>

OwnerResumes ==
    /\ file /\ file' = FALSE /\ late' = 0
    /\ UNCHANGED <<week, disk, book, run, venue, stops, crashes>>

\* The owner settles a halt by hand, no engine running: the state file is set
\* to what the venue holds.
OwnerRepairs ==
    /\ At("off") /\ disk.halted \notin {"", "kill_switch"}
    /\ disk' = [disk EXCEPT !.positions = venue, !.halted = ""]
    /\ UNCHANGED <<week, file, book, run, venue, stops, crashes, late>>

Post == PostAnswered \/ PostRefused \/ PostLost \/ PostUnreadable
Engine ==
    \/ Observe \/ Again \/ EndSession
    \/ TickKill \/ TickNothing \/ Mismatch \/ DrawdownKill \/ Rebalance
    \/ \E a \in Assets : Skip(a) \/ Gate(a)
    \/ Post \/ TripDrawdown \/ EndRebalance

Next ==
    \/ Start \/ Engine \/ Crash
    \/ \E a \in Assets : BracketFires(a)
    \/ NewWeek \/ OwnerTrips \/ OwnerResumes \/ OwnerRepairs

Spec == Init /\ [][Next]_vars

\* The supervisor keeps starting sessions, a running engine keeps going, and
\* the venue answers some tick.
Fairness ==
    /\ WF_vars(Start) /\ WF_vars(Engine) /\ SF_vars(Mismatch)

LiveSpec == Spec /\ Fairness

-----------------------------------------------------------------------------
\* Whatever answers are lost, whatever stops fire under it and wherever an
\* engine dies, the desk never holds more at the venue than a target allows and
\* never flips a long position: no order is sent again because its fill was
\* not booked (reconcile before any decision, reduce_only on every exit).
ExposureBounded == \A a \in Assets : venue[a] \in 0..Cap

\* Once the switch is there, the one order that had passed the gate is the last
\* to reach the venue.
KillStopsOrders == late <= 1

\* A mismatch on record stays there until someone settles it with no engine
\* running: no restart, later error or kill switch clears it.
MismatchSticks ==
    [][disk.halted = "reconcile_mismatch" /\ disk'.halted # disk.halted => At("off")]_vars

\* A fill nobody booked, or a stop that fired, is noticed: again and again the
\* book agrees with the venue or the desk is halted.
DivergenceNoticed ==
    []<> \/ venue = IF At("off") THEN disk.positions ELSE book.positions
         \/ file \/ disk.halted \notin {"", "kill_switch"}

\* The drawdown kill flattens and trips the switch: when it trips it, the desk
\* holds nothing at the venue.
DrawdownFlattens == [][TripDrawdown => venue = Flat]_vars
=============================================================================
