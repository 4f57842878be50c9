----------------------------- MODULE CryptoDesk -----------------------------
(***************************************************************************)
(* The 24/7 crypto execution desk (quantfirm/live/engine.py), one run per  *)
(* invocation, against the venue it trades on and the disk its books live  *)
(* on.  A run is a sequence of steps separated by the network calls and    *)
(* the file writes of the code, because that is where it can die and where *)
(* the venue moves.                                                        *)
(*                                                                         *)
(* Quantities are whole units and prices whole dollars; bid, ask and mid   *)
(* are one quote, but the price of a fill is chosen when the venue fills.  *)
(***************************************************************************)
EXTENDS Integers

CONSTANTS
    MaxBar,          \* bars 1..MaxBar arrive after the bar of the seeding (0)
    Prices,          \* quotes and fill prices
    SeedQty,         \* asset units the books are seeded with
    Targets,         \* what target_frac * bankroll_usd can be, in dollars
    MinTrade,        \* policy.min_trade_usd
    MaxTrade,        \* policy.max_trade_usd
    MaxPosition,     \* policy.max_position_usd
    KillPercent,     \* policy.kill_drawdown, in percent
    MaxCrash,        \* how many runs may die half way
    EphemeralDisk,   \* TRUE: a CI runner, whose disk survives only a commit
    Reruns,          \* may a second run see the same last bar: "never", "any"
                     \* time, or only to "retry" a pending intent and after a
                     \* bar is handled, the kill switch being off
    VisibilityLag    \* TRUE: an accepted order may be missing from orders()

ASSUME BarAssumption   == MaxBar \in Nat
ASSUME PriceAssumption == Prices \subseteq Nat \ {0} /\ Prices # {}
ASSUME FlagAssumption  == /\ {EphemeralDisk, VisibilityLag} \subseteq BOOLEAN
                          /\ Reruns \in {"never", "retry", "any"}
ASSUME MoneyAssumption == /\ SeedQty \in Nat
                          /\ Targets \subseteq Nat
                          /\ {MinTrade, MaxTrade, MaxPosition, KillPercent, MaxCrash}
                                \subseteq Nat

VARIABLES
    bar,       \* the newest bar of the candle feed
    price,     \* the venue's quote
    orders,    \* the venue's order book of this account, by client_order_id
    held,      \* the coins in the account that are the bot's: those of the
               \* seeding, and what its orders really bought and sold since
    disk,      \* the state/ directory the run reads and writes
    repo,      \* the same directory as last pushed
    mem,       \* the run's in-memory copy of live_state.json
    run,       \* the run's program counter and locals
    lastWake,  \* bar of the latest run
    crashes    \* runs that died so far

vars == <<bar, price, orders, held, disk, repo, mem, run, lastWake, crashes>>

-----------------------------------------------------------------------------
Bars  == 1..MaxBar
Sides == {"buy", "sell"}

\* RobinhoodCrypto.deterministic_order_id: strategy and symbol are fixed, so
\* the id is the side and the bar, nothing else.
OrderIds == Sides \X Bars
Side(id) == id[1]

NoIntent == <<"none", 0>>

Order == [state : {"absent", "open", "terminal"}, seen : BOOLEAN,
          qty : Int, filled : Int, price : Int]

\* live_state.json.  booked is an observer: how often each order went into
\* position_qty and cash_usd.
Books == [pending : OrderIds \cup {NoIntent}, lastBar : 0..MaxBar, pos : Int,
          cash : Int, peak : Int, booked : [OrderIds -> Nat]]

Dir == [books : Books, kill : BOOLEAN, log : [OrderIds -> Nat]]

Pcs == {"idle", "reconcile", "reconcileSave", "decide", "post", "poll",
        "persist", "exit"}

\* mode says which caller submitted: the strategy, the kill switch or the
\* drawdown trip; they treat the result of submit_and_book differently.
Modes == {"trade", "flatten", "trip"}

Runs == [pc : Pcs, bar : 0..MaxBar, quote : Int, id : OrderIds \cup {NoIntent},
         qty : Int, mode : Modes, handled : BOOLEAN, ok : BOOLEAN]

Idle == [pc |-> "idle", bar |-> 0, quote |-> 0, id |-> NoIntent, qty |-> 0,
         mode |-> "trade", handled |-> FALSE, ok |-> TRUE]

TypeOK ==
    /\ bar \in 0..MaxBar
    /\ price \in Prices
    /\ orders \in [OrderIds -> Order]
    /\ held \in Int
    /\ disk \in Dir
    /\ repo \in Dir
    /\ mem \in Books
    /\ run \in Runs
    /\ run.pc # "idle" => run.bar \in Bars /\ run.quote \in Prices
    /\ run.pc \in {"post", "poll"} => run.id \in OrderIds
    /\ lastWake \in 0..MaxBar
    /\ crashes \in 0..MaxCrash

-----------------------------------------------------------------------------
\* find_order: the record orders() lists under this client_order_id.
Visible(id) == orders[id].state # "absent" /\ orders[id].seen
\* Mutant: the quantity asked for is booked, not the quantity filled.
BookFromIntent(b, id) ==
    LET o == orders[id]
    IN  [b EXCEPT !.pos = IF Side(id) = "buy" THEN @ + o.qty
                          ELSE IF @ >= o.qty THEN @ - o.qty ELSE 0,
                  !.cash = IF Side(id) = "buy" THEN @ - o.qty * o.price
                           ELSE @ + o.qty * o.price,
                  !.booked[id] = @ + 1]

\* book_order: the venue's filled quantity and average price go to the books;
\* a sell never takes the position below zero.
BookOrder(b, id) ==
    LET o     == orders[id]
        units == IF Side(id) = "buy" THEN b.pos + o.filled
                 ELSE IF b.pos >= o.filled THEN b.pos - o.filled ELSE 0
        usd   == o.filled * o.price
    IN  [b EXCEPT !.pos = units,
                  !.cash = IF Side(id) = "buy" THEN @ - usd ELSE @ + usd,
                  !.booked[id] = @ + 1]

Equity(b, p) == b.pos * p + b.cash

PeakWith(b, p) == IF Equity(b, p) > b.peak THEN Equity(b, p) ELSE b.peak

InDrawdown(b, p) ==
    LET peak == PeakWith(b, p)
    IN  peak > 0 /\ 100 * (Equity(b, p) - peak) < 0 - KillPercent * peak

\* What a run that ends without a commit leaves for the next one.
LeftBehind == IF EphemeralDisk THEN repo ELSE disk

-----------------------------------------------------------------------------
\* The state scripts/seed_books.py leaves: the whole carve-out is a position.
Init ==
    /\ bar = 0
    /\ price \in Prices
    /\ orders = [id \in OrderIds |-> [state |-> "absent", seen |-> FALSE, qty |-> 0,
                                      filled |-> 0, price |-> 0]]
    /\ held = SeedQty
    /\ mem = [pending |-> NoIntent, lastBar |-> 0, pos |-> SeedQty, cash |-> 0,
              peak |-> SeedQty * price, booked |-> [id \in OrderIds |-> 0]]
    /\ disk = [books |-> mem, kill |-> FALSE, log |-> [id \in OrderIds |-> 0]]
    /\ repo = disk
    /\ run = Idle
    /\ lastWake = 0
    /\ crashes = 0

\* A run starts: st.load, the last bar of the feed, the quote.
Wake ==
    /\ run.pc = "idle"
    /\ bar > 0
    /\ \/ bar > lastWake
       \/ Reruns = "any"
       \/ /\ Reruns = "retry"
          /\ disk.books.pending # NoIntent \/ (disk.books.lastBar = bar /\ ~disk.kill)
    /\ mem' = disk.books
    /\ run' = [Idle EXCEPT !.pc = "reconcile", !.bar = bar, !.quote = price]
    /\ lastWake' = bar
    /\ UNCHANGED <<bar, price, orders, held, disk, repo, crashes>>

-----------------------------------------------------------------------------
\* reconcile_pending, one action per outcome.
ReconcileNothing ==
    /\ run.pc = "reconcile" /\ mem.pending = NoIntent
    /\ run' = [run EXCEPT !.pc = "decide"]
    /\ UNCHANGED <<bar, price, orders, held, disk, repo, mem, lastWake, crashes>>

\* Not listed by the venue: taken for never accepted and dropped.
ReconcileDiscard ==
    /\ run.pc = "reconcile" /\ mem.pending # NoIntent
    /\ ~Visible(mem.pending)
    /\ mem' = [mem EXCEPT !.pending = NoIntent]
    /\ disk' = [disk EXCEPT !.books = mem']
    /\ run' = [run EXCEPT !.pc = "decide"]
    /\ UNCHANGED <<bar, price, orders, held, repo, lastWake, crashes>>

\* Mutant: an order that is still open no longer holds the run back.
ReconcileOpenProceeds ==
    /\ run.pc = "reconcile" /\ mem.pending # NoIntent
    /\ Visible(mem.pending) /\ orders[mem.pending].state = "open"
    /\ run' = [run EXCEPT !.pc = "decide"]
    /\ UNCHANGED <<bar, price, orders, held, disk, repo, mem, lastWake, crashes>>

\* Still open: the run ends here without touching the books.
ReconcileOpen ==
    /\ run.pc = "reconcile" /\ mem.pending # NoIntent
    /\ Visible(mem.pending) /\ orders[mem.pending].state = "open"
    /\ run' = [run EXCEPT !.pc = "exit"]
    /\ UNCHANGED <<bar, price, orders, held, disk, repo, mem, lastWake, crashes>>

\* Mutant: the intent survives its booking.
ReconcileBookKeepsIntent ==
    /\ run.pc = "reconcile" /\ mem.pending # NoIntent
    /\ Visible(mem.pending) /\ orders[mem.pending].state = "terminal"
    /\ mem' = BookOrder(mem, mem.pending)
    /\ disk' = [disk EXCEPT !.log[mem.pending] = @ + 1]
    /\ run' = [run EXCEPT !.pc = "reconcileSave"]
    /\ UNCHANGED <<bar, price, orders, held, repo, lastWake, crashes>>

\* Mutant: an order canceled without a fill is not taken for terminal.
ReconcileBookFilled ==
    /\ run.pc = "reconcile" /\ mem.pending # NoIntent
    /\ Visible(mem.pending) /\ orders[mem.pending].state = "terminal"
    /\ orders[mem.pending].filled > 0
    /\ mem' = [BookOrder(mem, mem.pending) EXCEPT !.pending = NoIntent]
    /\ disk' = [disk EXCEPT !.log[mem.pending] = @ + 1]
    /\ run' = [run EXCEPT !.pc = "reconcileSave"]
    /\ UNCHANGED <<bar, price, orders, held, repo, lastWake, crashes>>

\* Mutant: the reconciled order gets no trade-log row.
ReconcileBookSilently ==
    /\ run.pc = "reconcile" /\ mem.pending # NoIntent
    /\ Visible(mem.pending) /\ orders[mem.pending].state = "terminal"
    /\ mem' = [BookOrder(mem, mem.pending) EXCEPT !.pending = NoIntent]
    /\ run' = [run EXCEPT !.pc = "reconcileSave"]
    /\ UNCHANGED <<bar, price, orders, held, disk, repo, lastWake, crashes>>

\* Terminal: booked in memory, a row appended to trade_log.csv ...
ReconcileBook ==
    /\ run.pc = "reconcile" /\ mem.pending # NoIntent
    /\ Visible(mem.pending) /\ orders[mem.pending].state = "terminal"
    /\ mem' = [BookOrder(mem, mem.pending) EXCEPT !.pending = NoIntent]
    /\ disk' = [disk EXCEPT !.log[mem.pending] = @ + 1]
    /\ run' = [run EXCEPT !.pc = "reconcileSave"]
    /\ UNCHANGED <<bar, price, orders, held, repo, lastWake, crashes>>

\* ... and only then saved.
ReconcileSave ==
    /\ run.pc = "reconcileSave"
    /\ disk' = [disk EXCEPT !.books = mem]
    /\ run' = [run EXCEPT !.pc = "decide"]
    /\ UNCHANGED <<bar, price, orders, held, repo, mem, lastWake, crashes>>

-----------------------------------------------------------------------------
\* Mutant: the intent is kept in memory only.
SubmitWithoutSave(side, qty, mode, kill) ==
    LET id == <<side, run.bar>>
    IN  /\ mem' = [mem EXCEPT !.pending = id]
        /\ disk' = [disk EXCEPT !.kill = kill]
        /\ run' = [run EXCEPT !.pc = "post", !.id = id, !.qty = qty, !.mode = mode]

\* The head of submit_and_book: the intent reaches the disk before the POST.
\* kill is what the KILL_SWITCH file is when the intent is saved.
Submit(side, qty, mode, kill) ==
    LET id == <<side, run.bar>>
    IN  /\ mem' = [mem EXCEPT !.pending = id]
        /\ disk' = [disk EXCEPT !.books = mem', !.kill = kill]
        /\ run' = [run EXCEPT !.pc = "post", !.id = id, !.qty = qty, !.mode = mode]

\* A branch of run() that submits nothing and goes to _persist.
GoPersist(handled) ==
    /\ run' = [run EXCEPT !.pc = "persist", !.handled = handled]
    /\ UNCHANGED mem

\* _quantize: the position in whole increments, or 0 when the venue's
\* precision cannot be confirmed or the pair is not tradable.
Quantized(qty) == {0, qty}

\* Kill switch: flatten what is worth a trade; the bar is never marked.
DecideKilled ==
    /\ run.pc = "decide" /\ disk.kill
    /\ \E qty \in IF mem.pos * run.quote >= MinTrade THEN Quantized(mem.pos) ELSE {0} :
         IF qty > 0 THEN Submit("sell", qty, "flatten", TRUE)
                    ELSE GoPersist(FALSE) /\ UNCHANGED disk
    /\ UNCHANGED <<bar, price, orders, held, repo, lastWake, crashes>>

DecideSeen ==
    /\ run.pc = "decide" /\ ~disk.kill
    /\ mem.lastBar = run.bar
    /\ run' = [run EXCEPT !.pc = "exit"]
    /\ UNCHANGED <<bar, price, orders, held, disk, repo, mem, lastWake, crashes>>

\* Drawdown breach: the switch is tripped first, then the position is sold,
\* and the bar is marked handled whatever became of the sale.
DecideTrip ==
    /\ run.pc = "decide" /\ ~disk.kill
    /\ mem.lastBar # run.bar
    /\ InDrawdown(mem, run.quote)
    /\ \E qty \in Quantized(mem.pos) :
         IF qty > 0 THEN Submit("sell", qty, "trip", TRUE)
                    ELSE GoPersist(TRUE) /\ disk' = [disk EXCEPT !.kill = TRUE]
    /\ UNCHANGED <<bar, price, orders, held, repo, lastWake, crashes>>

\* min(delta, cash) / ask for a buy, min(-delta / bid, position) for a sell.
Buyable(usd)  == (IF usd < mem.cash THEN usd ELSE mem.cash) \div run.quote
Sellable(usd) == IF usd \div run.quote < mem.pos THEN usd \div run.quote ELSE mem.pos

\* risk.check_pre_trade, without the drawdown DecideTrip already excluded;
\* stale says the candles are older than max_data_age_hours.
Blocked(side, usd, stale) ==
    \/ stale
    \/ usd > MaxTrade
    \/ mem.pos * run.quote + (IF side = "buy" THEN usd ELSE -usd) > MaxPosition

\* Hold, skip a dust order, be blocked by risk, or trade.
DecideTarget ==
    /\ run.pc = "decide" /\ ~disk.kill
    /\ mem.lastBar # run.bar
    /\ ~InDrawdown(mem, run.quote)
    /\ \E target \in Targets, stale \in BOOLEAN :
         LET delta == target - mem.pos * run.quote
             side  == IF delta > 0 THEN "buy" ELSE "sell"
             size  == IF delta > 0 THEN Buyable(delta) ELSE Sellable(-delta)
             hold  == delta < MinTrade /\ -delta < MinTrade
         IN  IF hold THEN GoPersist(TRUE) /\ UNCHANGED disk
             ELSE \E qty \in Quantized(size) :
                    IF qty <= 0 \/ qty * run.quote < MinTrade
                       \/ Blocked(side, qty * run.quote, stale)
                    THEN GoPersist(TRUE) /\ UNCHANGED disk
                    ELSE Submit(side, qty, "trade", FALSE)
    /\ UNCHANGED <<bar, price, orders, held, repo, lastWake, crashes>>

-----------------------------------------------------------------------------
\* The venue takes the order.  A run whose reply is lost dies: that is this
\* action followed by Crash, for only RobinhoodError is caught.
PostAccepted ==
    /\ run.pc = "post"
    /\ orders[run.id].state = "absent"
    /\ \E seen \in IF VisibilityLag THEN BOOLEAN ELSE {TRUE} :
         orders' = [orders EXCEPT ![run.id] = [state |-> "open", seen |-> seen,
                        qty |-> run.qty, filled |-> 0, price |-> 0]]
    /\ run' = [run EXCEPT !.pc = "poll"]
    /\ UNCHANGED <<bar, price, held, disk, repo, mem, lastWake, crashes>>

\* 400 for an id the venue has already seen: the code looks the original up
\* and falls through to booking it.
PostDuplicate ==
    /\ run.pc = "post" /\ Visible(run.id)
    /\ run' = [run EXCEPT !.pc = "poll"]
    /\ UNCHANGED <<bar, price, orders, held, disk, repo, mem, lastWake, crashes>>

\* RobinhoodError and no such order in orders(): the intent is dropped.  Only
\* the strategy's own order turns this into exit code 1; the drawdown trip
\* marks the bar all the same.
PostRefused ==
    /\ run.pc = "post" /\ ~Visible(run.id)
    /\ mem' = [mem EXCEPT !.pending = NoIntent]
    /\ disk' = [disk EXCEPT !.books = mem']
    /\ run' = [run EXCEPT !.pc = "persist", !.handled = (run.mode = "trip"),
                          !.ok = (run.mode # "trade")]
    /\ UNCHANGED <<bar, price, orders, held, repo, lastWake, crashes>>

\* poll_terminal finds the order done: booked in memory, row in trade_log.csv;
\* the books are saved by _persist only.
PollBook ==
    /\ run.pc = "poll"
    /\ Visible(run.id) /\ orders[run.id].state = "terminal"
    /\ mem' = [BookOrder(mem, run.id) EXCEPT !.pending = NoIntent]
    /\ disk' = [disk EXCEPT !.log[run.id] = @ + 1]
    /\ run' = [run EXCEPT !.pc = "persist", !.handled = (run.mode # "flatten")]
    /\ UNCHANGED <<bar, price, orders, held, repo, lastWake, crashes>>

\* 45 seconds without a terminal record: the intent stays pending.
PollTimeout ==
    /\ run.pc = "poll"
    /\ ~Visible(run.id) \/ orders[run.id].state = "open"
    /\ run' = [run EXCEPT !.pc = "persist", !.handled = (run.mode = "trip")]
    /\ UNCHANGED <<bar, price, orders, held, disk, repo, mem, lastWake, crashes>>

\* Mutant: the bar after the handled one is marked.
PersistNextBar ==
    /\ run.pc = "persist"
    /\ mem' = [mem EXCEPT !.lastBar = IF run.handled THEN run.bar + 1 ELSE @,
                          !.peak = PeakWith(mem, run.quote)]
    /\ disk' = [disk EXCEPT !.books = mem']
    /\ run' = [run EXCEPT !.pc = "exit"]
    /\ UNCHANGED <<bar, price, orders, held, repo, lastWake, crashes>>

\* _persist.
Persist ==
    /\ run.pc = "persist"
    /\ mem' = [mem EXCEPT !.lastBar = IF run.handled THEN run.bar ELSE @,
                          !.peak = PeakWith(mem, run.quote)]
    /\ disk' = [disk EXCEPT !.books = mem']
    /\ run' = [run EXCEPT !.pc = "exit"]
    /\ UNCHANGED <<bar, price, orders, held, repo, lastWake, crashes>>

\* The process exits; the workflow's "Commit state" step runs only when the
\* engine step succeeded.
Commit ==
    /\ run.pc = "exit" /\ run.ok
    /\ repo' = disk
    /\ run' = Idle
    /\ UNCHANGED <<bar, price, orders, held, disk, mem, lastWake, crashes>>

SkipCommit ==
    /\ run.pc = "exit" /\ ~run.ok
    /\ run' = Idle
    /\ disk' = LeftBehind
    /\ mem' = disk'.books
    /\ UNCHANGED <<bar, price, orders, held, repo, lastWake, crashes>>

\* The run dies anywhere: an uncaught exception, the job's timeout, a push
\* that never succeeds.
Crash ==
    /\ run.pc # "idle" /\ crashes < MaxCrash
    /\ crashes' = crashes + 1
    /\ run' = Idle
    /\ disk' = LeftBehind
    /\ mem' = disk'.books
    /\ UNCHANGED <<bar, price, orders, held, repo, lastWake>>

-----------------------------------------------------------------------------
\* The venue: an open order ends, filled in whole, in part or not at all.
VenueFinish(id) ==
    /\ orders[id].state = "open"
    /\ \E units \in 0..orders[id].qty, p \in Prices :
         /\ orders' = [orders EXCEPT ![id].state = "terminal",
                                     ![id].filled = units, ![id].price = p]
         /\ held' = IF Side(id) = "buy" THEN held + units ELSE held - units
    /\ UNCHANGED <<bar, price, disk, repo, mem, run, lastWake, crashes>>

VenueShow(id) ==
    /\ orders[id].state # "absent" /\ ~orders[id].seen
    /\ orders' = [orders EXCEPT ![id].seen = TRUE]
    /\ UNCHANGED <<bar, price, held, disk, repo, mem, run, lastWake, crashes>>

NextBar ==
    /\ bar < MaxBar
    /\ bar' = bar + 1
    /\ price' \in Prices
    /\ UNCHANGED <<orders, held, disk, repo, mem, run, lastWake, crashes>>

\* A human or the risk agent pushes state/KILL_SWITCH between runs.
OperatorKill ==
    /\ run.pc = "idle" /\ ~disk.kill
    /\ disk' = [disk EXCEPT !.kill = TRUE]
    /\ repo' = [repo EXCEPT !.kill = TRUE]
    /\ UNCHANGED <<bar, price, orders, held, mem, run, lastWake, crashes>>

-----------------------------------------------------------------------------
Reconcile == \/ ReconcileNothing \/ ReconcileDiscard \/ ReconcileOpen
             \/ ReconcileBook \/ ReconcileSave

Decide == DecideKilled \/ DecideSeen \/ DecideTrip \/ DecideTarget

SubmitAndBook == \/ PostAccepted \/ PostDuplicate \/ PostRefused
                 \/ PollBook \/ PollTimeout

Engine == Reconcile \/ Decide \/ SubmitAndBook \/ Persist \/ Commit \/ SkipCommit

Venue == \E id \in OrderIds : VenueFinish(id) \/ VenueShow(id)

Next == Wake \/ Engine \/ Crash \/ Venue \/ NextBar \/ OperatorKill

Spec == Init /\ [][Next]_vars

\* A live process keeps running, the scheduler keeps starting runs, and a
\* market order reaches a terminal state the venue then lists.
Fairness == /\ WF_vars(Engine) /\ WF_vars(Wake)
            /\ \A id \in OrderIds : WF_vars(VenueFinish(id)) /\ WF_vars(VenueShow(id))

FairSpec == Spec /\ Fairness

-----------------------------------------------------------------------------
Absent(id) == orders[id].state = "absent"

\* INTENT BEFORE SUBMIT (engine.py rule 2): an order the venue has and the
\* books on disk do not yet contain is the one the disk names as pending, so
\* whatever dies, the next run knows what to reconcile.
NoOrphanOrder ==
    \A id \in OrderIds :
        ~Absent(id) /\ disk.books.booked[id] = 0 => disk.books.pending = id

\* BOOK VENUE TRUTH ONLY (rule 3): no order goes into the books twice, in
\* whatever order crashes, reconciliations and duplicates come.
BookedOnce == \A id \in OrderIds : disk.books.booked[id] <= 1

\* Why BookedOnce survives every crash: a copy of the books, in memory, on disk
\* or pushed, never holds an order of a bar no run has seen, and its pending
\* order is not booked in that same copy; so a rollback forgets both or neither.
CopySound(b) ==
    /\ \A id \in OrderIds : b.booked[id] <= 1
    /\ \A id \in OrderIds : id[2] > lastWake => b.booked[id] = 0
    /\ b.pending # NoIntent => b.booked[b.pending] = 0 /\ b.pending[2] <= lastWake

\* The inductive invariant behind BookedOnce when each bar is run at most once.
BookingInv ==
    /\ CopySound(mem) /\ CopySound(disk.books) /\ CopySound(repo.books)
    /\ run.pc # "idle" => run.bar = lastWake
    /\ run.pc \in {"reconcile", "reconcileSave", "decide"} =>
         \A id \in OrderIds : id[2] = run.bar => mem.booked[id] = 0
    /\ run.pc = "reconcile" /\ mem.pending # NoIntent => mem.pending[2] # run.bar
    /\ run.pc \in {"post", "poll"} => mem.pending = run.id

\* The inductive invariant behind NoOrphanOrder on a disk that survives, with a
\* venue that lists what it accepted: memory and disk each cover every order.
Covers(b) ==
    \A id \in OrderIds : ~Absent(id) /\ b.booked[id] = 0 => b.pending = id

CoverInv ==
    /\ \A id \in OrderIds : ~Absent(id) => orders[id].seen
    /\ Covers(disk.books)
    /\ run.pc # "idle" => Covers(mem)
    /\ run.pc \in {"reconcileSave", "decide"} => mem.pending = NoIntent
    /\ run.pc \in {"post", "poll"} =>
         mem.pending = run.id /\ disk.books.pending = run.id

\* Rules 2 and 3 together: with nothing pending, position_qty is what the
\* account really holds of the bot's coins.
PositionMatchesVenue ==
    disk.books.pending = NoIntent => disk.books.pos = held

\* The account also holds coins that are not the bot's: at most one sale is
\* open at a time and, even if it fills in full, the bot has sold only what it
\* was seeded with or bought.
OpenSales == {id \in OrderIds : Side(id) = "sell" /\ orders[id].state = "open"}

OwnerCoinsUntouched ==
    /\ held >= 0
    /\ \A id \in OpenSales : OpenSales = {id} /\ orders[id].qty <= held

\* The inductive invariant behind the two: a copy of the books differs from the
\* account by what its pending order was filled with, which a sale never takes
\* below zero, and only an order that is done is in the books.
Missing(b) ==
    IF b.pending = NoIntent THEN 0
    ELSE IF Side(b.pending) = "buy" THEN orders[b.pending].filled
         ELSE 0 - orders[b.pending].filled

PositionSound(b) ==
    /\ b.pos >= 0
    /\ held = b.pos + Missing(b)
    /\ b.pending # NoIntent /\ Side(b.pending) = "sell" => orders[b.pending].qty <= b.pos
    /\ \A id \in OrderIds : b.booked[id] > 0 => orders[id].state = "terminal"

FillsSound ==
    \A id \in OrderIds :
        /\ 0 <= orders[id].filled /\ orders[id].filled <= orders[id].qty
        /\ orders[id].state # "terminal" => orders[id].filled = 0
        /\ Absent(id) => orders[id].qty = 0

SubmitSound ==
    run.pc = "post" =>
        /\ run.qty >= 0
        /\ Side(run.id) = "sell" => run.qty <= mem.pos /\ run.qty <= disk.books.pos

PositionInv ==
    /\ FillsSound
    /\ SubmitSound
    /\ PositionSound(disk.books)
    /\ run.pc # "idle" => PositionSound(mem)

\* book_order appends to trade_log.csv before the books are saved: a crash may
\* repeat a row but no booked order is without one.
TradeLogCoversBooks ==
    \A id \in OrderIds : disk.books.booked[id] <= disk.log[id]

\* Its inductive invariant: the row of what memory has booked is already on the
\* disk, and a push takes the books and the log together.
LogCovers(b, log) == \A id \in OrderIds : b.booked[id] <= log[id]

LogInv ==
    /\ LogCovers(disk.books, disk.log)
    /\ LogCovers(repo.books, repo.log)
    /\ run.pc # "idle" => LogCovers(mem, disk.log)

\* A pending intent never blocks the desk for good: some run resolves it.
IntentResolved == (disk.books.pending # NoIntent) ~> (disk.books.pending = NoIntent)

\* Why a save moves the ledger by one order at most: memory has either the
\* intent of the disk or none.
IntentShared == run.pc # "idle" => mem.pending \in {NoIntent, disk.books.pending}

-----------------------------------------------------------------------------
\* The desk implements the ledger: the venue's orders are the placed ones and
\* the observer in the saved books says how often each is booked.
Ledger == INSTANCE OrderLedger WITH
    Ids    <- OrderIds,
    placed <- {id \in OrderIds : ~Absent(id)},
    count  <- disk.books.booked

\* Every behaviour of the desk is one of OrderLedger: orders are placed one at
\* a time and each is booked once (engine.py rules 1 to 3).
ImplementsLedger == Ledger!Spec
=============================================================================
