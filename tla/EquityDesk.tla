----------------------------- MODULE EquityDesk -----------------------------
(***************************************************************************)
(* The equity desk (scripts/equity_rebalance.py): a scheduled session runs *)
(* the script's commands around the broker calls only it can make.  plan   *)
(* prints the orders and stamps the day, the session places them, sells    *)
(* first, and records every fill; reconcile-cash and resume are run by     *)
(* hand.  Sales settle on the next day.                                    *)
(*                                                                         *)
(* Holdings are in shares and money in dollars, orders in dollars that buy *)
(* or sell whole shares; what the strategy wants is any target.            *)
(***************************************************************************)
EXTENDS Integers, FiniteSets, FiniteSetsExt, Functions

CONSTANTS
    Symbols,
    Prices,        \* what a share may cost
    MaxShares,     \* of one symbol that the strategy ever wants
    InitCash,      \* record --init-cash
    MinOrder,      \* risk.min_order_usd
    BandPercent,   \* risk.rebalance_band_frac
    KillPercent,   \* risk.kill_drawdown
    MaxDay,        \* days
    MaxDie,        \* sessions that die
    MaxDeposit,    \* deposits, of one dollar
    Reconciling    \* when cash is reconciled: "settled", no proceeds in the books
                   \* are unsettled; "morning", before anything is sold today

NumberAssumption ==
    /\ {MaxShares, InitCash, BandPercent, KillPercent, MaxDay, MaxDie, MaxDeposit} \subseteq Nat
    /\ MinOrder \in Nat \ {0} /\ Prices \subseteq Nat \ {0}
    /\ IsFiniteSet(Symbols)
ReconcileAssumption == Reconciling \in {"settled", "morning"}

VARIABLES
    today,    \* date.today()
    price,    \* the last close, and what orders fill at
    books,    \* equity_state.json
    kill,     \* state/KILL_SWITCH_EQ exists
    session,  \* the running session: orders to place, fills to record
    venue,    \* the brokerage account
    deaths,   \* sessions that died
    gfv       \* observer: a good-faith violation happened

vars == <<today, price, books, kill, session, venue, deaths, gfv>>

-----------------------------------------------------------------------------
Order == [symbol : Symbols, side : {"buy", "sell"}, dollars : Nat]
Books == [positions : [Symbols -> Nat], settled : Int, unsettled : Nat,
          unsettledDate : Nat, peak : Int, history : Int, lastPlan : Nat,
          hold : [Symbols -> Nat]]
Account == [positions : [Symbols -> Nat], settled : Nat, unsettled : Nat,
            deposited : Nat, onCredit : [Symbols -> BOOLEAN]]
Fill  == [symbol : Symbols, side : {"buy", "sell"}, shares : Nat, dollars : Nat]

Value(s, n) == n * price[s]
Equity(b) ==
    b.settled + b.unsettled + SumFunction([s \in Symbols |-> Value(s, b.positions[s])])

Larger(a, b) == IF a >= b THEN a ELSE b
Smaller(a, b) == IF a <= b THEN a ELSE b
\* Settled that forgets to take the proceeds off the unsettled ones.
SettledTwice(b) ==
    IF b.unsettledDate \notin {0, today}
    THEN [b EXCEPT !.settled = @ + b.unsettled, !.unsettledDate = 0]
    ELSE b

\* settle: the proceeds of an earlier day become settled cash.
Settled(b) ==
    IF b.unsettledDate \notin {0, today}
    THEN [b EXCEPT !.settled = @ + b.unsettled, !.unsettled = 0, !.unsettledDate = 0]
    ELSE b

Dollars(orders) == SumFunction([o \in orders |-> o.dollars])
Side(orders, side) == {o \in orders : o.side = side}

TypeOK ==
    /\ today \in Nat \ {0}
    /\ price \in [Symbols -> Prices]
    /\ books \in Books
    /\ kill \in BOOLEAN
    /\ session \in [todo : SUBSET Order, fills : SUBSET Fill]
    /\ venue \in Account
    /\ deaths \in Nat
    /\ gfv \in BOOLEAN

-----------------------------------------------------------------------------
\* The account is funded and the books initialised with record --init-cash.
Init ==
    /\ today = 1
    /\ price \in [Symbols -> Prices]
    /\ books = [positions |-> [s \in Symbols |-> 0], settled |-> InitCash, unsettled |-> 0,
                unsettledDate |-> 0, peak |-> InitCash, history |-> InitCash, lastPlan |-> 0,
                hold |-> [s \in Symbols |-> 0]]
    /\ kill = FALSE
    /\ session = [todo |-> {}, fills |-> {}]
    /\ venue = [positions |-> [s \in Symbols |-> 0], settled |-> InitCash, unsettled |-> 0,
                deposited |-> 0, onCredit |-> [s \in Symbols |-> FALSE]]
    /\ deaths = 0
    /\ gfv = FALSE

Idle == session.todo = {} /\ session.fills = {}

\* plan returns without orders: today already has one, the desk is disabled,
\* or the panel is stale.  What settle did is saved.
PlanNothing ==
    /\ Idle
    /\ books' = Settled(books)
    /\ UNCHANGED <<today, price, kill, session, venue, deaths, gfv>>

Peak(b) == Larger(b.peak, Equity(b))
Drawn(b) == 100 * Equity(b) < (100 - KillPercent) * Peak(b)
\* The run lock: one plan a day.
Planned(b) == b.lastPlan = today

\* plan under the kill switch, which the drawdown may trip here: sell what is
\* worth two dollars, but no lot bought on credit before its funding settles.
\* The day is not stamped.
PlanKill ==
    LET b == Settled(books)
    IN  /\ Idle /\ ~Planned(b)
        /\ kill \/ Drawn(b)
        /\ kill' = TRUE
        /\ books' = b
        /\ session' = [session EXCEPT !.todo =
              {[symbol |-> s, side |-> "sell", dollars |-> Value(s, b.positions[s])] :
                  s \in {s \in Symbols : /\ Value(s, b.positions[s]) >= 2
                                         /\ b.hold[s] < today}}]
        /\ UNCHANGED <<today, price, venue, deaths, gfv>>

\* _worth_trading.
WorthTrading(delta, target) ==
    /\ delta >= MinOrder
    /\ 100 * delta >= BandPercent * Larger(target, 1)

\* The names in the order in which they are bought: the largest targets first,
\* equal ones in any order.
Rankings(target) ==
    {q \in [1 .. Cardinality(Symbols) -> Symbols] :
        /\ IsInjective(q)
        /\ \A i, j \in DOMAIN q : i < j => target[q[i]] >= target[q[j]]}

\* Buys that no budget cuts.
BuysUncut(want, rank, budget) ==
    {[symbol |-> s, side |-> "buy", dollars |-> (want[s] \div price[s]) * price[s]] :
        s \in {s \in Symbols : want[s] >= MinOrder}}

\* What is bought of a name with so much left of the budget.
Amount(wanted, p, left) ==
    LET whole == (Smaller(wanted, Larger(0, left)) \div p) * p
    IN  IF whole < MinOrder THEN 0 ELSE whole

\* What the buys of the first names come to, each cut to what those before it
\* have left of the budget.
Spent(want, rank, budget) ==
    LET spent[n \in 0 .. Cardinality(Symbols)] ==
            IF n = 0 THEN 0
            ELSE spent[n - 1] + Amount(want[rank[n]], price[rank[n]], budget - spent[n - 1])
    IN  spent

Buys(want, rank, budget) ==
    LET spent == Spent(want, rank, budget)
    IN  {[symbol |-> rank[n], side |-> "buy", dollars |-> spent[n] - spent[n - 1]] :
            n \in {n \in DOMAIN rank : spent[n] > spent[n - 1]}}

\* The sells and buys from the holdings to the targets.
Orders(b, target, rank) ==
    LET delta == [s \in Symbols |-> target[s] - Value(s, b.positions[s])]
        sells == {[symbol |-> s, side |-> "sell", dollars |-> -delta[s]] :
                     s \in {s \in Symbols : WorthTrading(-delta[s], target[s])}}
        want  == [s \in Symbols |-> IF WorthTrading(delta[s], target[s]) THEN delta[s] ELSE 0]
    IN  sells \cup Buys(want, rank, b.settled + Dollars(sells))

\* Any targets the strategy may come to within the equity.
Targets(b) ==
    {t \in [Symbols -> {Value(s, n) : s \in Symbols, n \in 0..MaxShares}] :
        /\ \A s \in Symbols : t[s] % price[s] = 0
        /\ SumFunction(t) <= Larger(0, Equity(b))}

\* plan otherwise: the orders are printed and the day is stamped.
PlanRebalance ==
    LET b == Settled(books)
    IN  /\ Idle /\ ~Planned(b)
        /\ ~kill /\ ~Drawn(b)
        /\ books' = [b EXCEPT !.lastPlan = today]
        /\ \E t \in Targets(b) : \E rank \in Rankings(t) :
              session' = [session EXCEPT !.todo = Orders(b, t, rank)]
        /\ UNCHANGED <<today, price, kill, venue, deaths, gfv>>

-----------------------------------------------------------------------------
\* The session places an order, sells first, each once the last fill is
\* recorded; the broker fills it.  Buys take settled cash first.
Place(o) ==
    LET n == o.dollars \div price[o.symbol]
        onCredit == Larger(0, o.dollars - Larger(0, venue.settled))
    IN
    /\ o \in session.todo /\ session.fills = {}
    /\ o.side = "buy" => Side(session.todo, "sell") = {}
    /\ \/ /\ o.side = "sell" /\ n <= venue.positions[o.symbol]
          /\ venue' = [venue EXCEPT !.positions[o.symbol] = @ - n,
                                    !.unsettled = @ + o.dollars]
          /\ gfv' = (gfv \/ venue.onCredit[o.symbol])
       \/ /\ o.side = "buy" /\ onCredit <= venue.unsettled
          /\ venue' = [venue EXCEPT
                !.positions[o.symbol] = @ + n,
                !.settled   = @ - (o.dollars - onCredit),
                !.unsettled = @ - onCredit,
                !.onCredit[o.symbol] = @ \/ onCredit > 0]
          /\ UNCHANGED gfv
    /\ session' = [todo |-> session.todo \ {o},
                   fills |-> {[symbol |-> o.symbol, side |-> o.side, shares |-> n,
                               dollars |-> o.dollars]}]
    /\ UNCHANGED <<today, price, books, kill, deaths>>

\* The broker refuses an order: the session stops.
Reject(o) ==
    /\ o \in session.todo /\ session.fills = {}
    /\ session' = [session EXCEPT !.todo = {}]
    /\ UNCHANGED <<today, price, books, kill, venue, deaths, gfv>>

\* record, for one fill; also how a session adopts what a dead one left.
Record(f) ==
    /\ f \in session.fills
    /\ session' = [session EXCEPT !.fills = @ \ {f}]
    /\ books' =
         IF f.side = "buy"
         THEN [books EXCEPT !.positions[f.symbol] = @ + f.shares,
                            !.settled = @ - f.dollars,
                            !.hold[f.symbol] = IF books.unsettled > 0 THEN today ELSE @]
         ELSE [books EXCEPT !.positions[f.symbol] = Larger(0, @ - f.shares),
                            !.unsettled = @ + f.dollars,
                            !.unsettledDate = today]
    /\ UNCHANGED <<today, price, kill, venue, deaths, gfv>>

\* The session dies: nothing more is placed, and the fill it did not record is
\* what the next session finds at the broker and records before it plans.
Die ==
    /\ ~Idle /\ deaths < MaxDie
    /\ deaths' = deaths + 1
    /\ session' = [session EXCEPT !.todo = {}]
    /\ UNCHANGED <<today, price, books, kill, venue, gfv>>

\* mark.
Mark ==
    /\ books' = [books EXCEPT !.peak = Larger(@, Equity(books)),
                              !.history = Larger(0, Equity(books))]
    /\ UNCHANGED <<today, price, kill, session, venue, deaths, gfv>>

-----------------------------------------------------------------------------
\* The owner puts a dollar into the account.
Deposit ==
    /\ venue.deposited < MaxDeposit
    /\ venue' = [venue EXCEPT !.settled = @ + 1, !.deposited = @ + 1]
    /\ UNCHANGED <<today, price, books, kill, session, deaths, gfv>>

\* reconcile-cash: what the broker has above the books is booked as new
\* capital; a shortfall is refused.  The proceeds that settled overnight are
\* in the broker's figure, and in the books only after a plan.
ReconcileCash ==
    /\ Idle
    /\ IF Reconciling = "settled" THEN books.unsettled = 0 ELSE books.unsettledDate # today
    /\ venue.settled > books.settled
    /\ books' = [books EXCEPT !.settled = venue.settled]
    /\ UNCHANGED <<today, price, kill, session, venue, deaths, gfv>>

\* resume --i-accept: the switch is cleared and the peak rebased to the last
\* marked equity.
Resume ==
    /\ kill \/ books.history < books.peak
    /\ kill' = FALSE
    /\ books' = [books EXCEPT !.peak = books.history]
    /\ UNCHANGED <<today, price, session, venue, deaths, gfv>>

\* Night: the broker settles the day's sales, prices move.
NextDay ==
    /\ session.todo = {} /\ today < MaxDay
    /\ today' = today + 1
    /\ price' \in [Symbols -> Prices]
    /\ venue' = [venue EXCEPT !.settled = @ + venue.unsettled, !.unsettled = 0,
                              !.onCredit = [s \in Symbols |-> FALSE]]
    /\ UNCHANGED <<books, kill, session, deaths, gfv>>

Next ==
    \/ PlanNothing \/ PlanKill \/ PlanRebalance
    \/ \E o \in session.todo : Place(o) \/ Reject(o)
    \/ \E f \in session.fills : Record(f)
    \/ Die \/ Mark \/ Deposit \/ ReconcileCash \/ Resume \/ NextDay

Spec == Init /\ [][Next]_vars

-----------------------------------------------------------------------------
\* Shares and cash of fills that are not recorded.
Unrecorded(fills, s) ==
    SumFunction([f \in fills |-> IF f.symbol # s THEN 0
                                 ELSE IF f.side = "buy" THEN f.shares ELSE -f.shares])
UnrecordedCash(fills) ==
    SumFunction([f \in fills |-> IF f.side = "buy" THEN -f.dollars ELSE f.dollars])

\* The books are the brokerage account up to the fills not recorded yet, in
\* every symbol; and they never hold cash the account does not.
BooksMatchVenue ==
    /\ \A s \in Symbols :
          books.positions[s] + Unrecorded(session.fills, s) = venue.positions[s]
    /\ books.settled + books.unsettled + UnrecordedCash(session.fills)
          <= venue.settled + venue.unsettled

\* The desk never sells a lot bought with the proceeds of a sale that had not
\* settled (the run lock and gfv_hold are there for this).
NoGoodFaithViolation == ~gfv

\* Once the sells of a plan are filled its buys can be paid: a plan's budget is
\* settled cash and the proceeds of its own sells.
BuysAffordable ==
    Side(session.todo, "sell") = {} =>
        Dollars(Side(session.todo, "buy")) <= venue.settled + venue.unsettled

\* Every buy of a plan is paid with settled cash or with the plan's own sells,
\* and what they bought is not sold before those settle.
BuysCovered == NoGoodFaithViolation /\ BuysAffordable

-----------------------------------------------------------------------------
(* What makes these hold, as an inductive invariant.                       *)

\* One fill at a time waits to be recorded.
OneFill == \A f, g \in session.fills : f = g

\* Buys are of the day's plan; once one was paid with proceeds that had not
\* settled, no sale is left of that plan, and there is no other that day.
CreditToday ==
    /\ Side(session.todo, "buy") # {} => books.lastPlan = today
    /\ \A s \in Symbols : venue.onCredit[s] =>
          books.lastPlan = today /\ Side(session.todo, "sell") = {}

\* What is left to buy is covered by the account and by what is left to sell.
BudgetCovers ==
    /\ IsFiniteSet(session.todo)
    /\ Dollars(Side(session.todo, "buy")) <=
          venue.settled + venue.unsettled + Dollars(Side(session.todo, "sell"))

DeskInv == OneFill /\ BooksMatchVenue /\ NoGoodFaithViolation /\ CreditToday /\ BudgetCovers
=============================================================================
