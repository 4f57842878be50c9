---------------------------- MODULE OptionsDesk ----------------------------
(***************************************************************************)
(* The options paper desk (quantfirm/options/paper.py, driven by           *)
(* scripts/options_paper.py): one tick a day settles what expired, marks   *)
(* the rest, walks the drawdown ladder, takes exits, enters at most one    *)
(* position for each sleeve, and saves the book.                           *)
(*                                                                         *)
(* A price is the dollars of one contract.  A quotes file has a spot, a    *)
(* time value, a slippage for each leg, the contracts with fresh quotes,   *)
(* whether settle prices are supplied, and the momentum.  Delta, open      *)
(* interest, the score and the earnings boost decide which candidate is    *)
(* best, if any: here it is any, or none.                                  *)
(***************************************************************************)
EXTENDS Integers, FiniteSets, Functions

CONSTANTS
    Chain,         \* option id -> [under, kind, strike, expiry]
    Quotes,        \* days' quotes files: [spot, time, slip, fresh, settle, rising]
    Bankroll, Width, Ticket, FeePerLeg,
    MaxOpen, MaxOpenTotal,
    Ends,          \* last day of the paper window
    MaxOptionDay   \* days

Contract == [under : {"index", "name"}, kind : {"call", "put"}, strike : Nat, expiry : Nat]
MarketAssumption ==
    /\ IsFiniteSet(DOMAIN Chain) /\ Chain \in [DOMAIN Chain -> Contract]
    /\ Quotes \subseteq [spot : Nat, time : Nat, slip : Nat, fresh : SUBSET DOMAIN Chain,
                        settle : BOOLEAN, rising : BOOLEAN]
LimitAssumption ==
    /\ {Bankroll, Ticket, FeePerLeg} \subseteq Nat
    /\ Width \in 1 .. Bankroll

VARIABLES
    optionBook,  \* options_paper_state.json
    optionDay    \* the date of the tick

optionVars == <<optionBook, optionDay>>

None == [sleeve |-> "none"]

\* SLEEVES, in percent of the entry: underlying, dte band, profit, stop, time exit.
Sleeve == [fat    |-> [under |-> "index", first |-> 2, last |-> 9, profit |-> 25, stop |-> 0, exit |-> -1],
           lotto  |-> [under |-> "name", first |-> 1, last |-> 8, profit |-> 200, stop |-> 0, exit |-> -1],
           legacy |-> [under |-> "none", first |-> 0, last |-> 0, profit |-> 50, stop |-> 250, exit |-> 21]]

-----------------------------------------------------------------------------
Positive(n) == IF n > 0 THEN n ELSE 0
Intrinsic(c, spot) ==
    Positive(IF Chain[c].kind = "call" THEN spot - Chain[c].strike ELSE Chain[c].strike - spot)
Legs(p) == p.long \cup p.short
Position == [sleeve : {"fat", "lotto", "legacy"}, long : SUBSET DOMAIN Chain,
             short : SUBSET DOMAIN Chain, qty : Nat \ {0}, paid : Int, mark : Int]
Book == [version : {1, 2}, cash : Int, open : SUBSET Position, realized : Int, halted : BOOLEAN,
         last : Nat]

\* A position is worth what is long less what is short.
Net(p, value) ==
    SumFunctionOnSet(value, p.long) - SumFunctionOnSet(value, p.short)
Settle(p, spot) == Net(p, [c \in Legs(p) |-> Intrinsic(c, spot)])
Dte(p) == Chain[CHOOSE c \in Legs(p) : TRUE].expiry - optionDay

Price(p, q) == Net(p, [c \in Legs(p) |-> Intrinsic(c, q.spot) + q.time])
Slippage(p, q) == q.slip * Cardinality(Legs(p))
Usable(p, q) == Legs(p) \subseteq q.fresh
Fees(p) == FeePerLeg * Cardinality(Legs(p)) * p.qty

MaxLoss(p) == IF p.paid > 0 THEN p.paid * p.qty ELSE (Width + p.paid) * p.qty
Risk(b) == SumFunction([p \in b.open |-> MaxLoss(p)])
Equity(b) == b.cash + SumFunction([p \in b.open |-> p.mark * p.qty])
\* What a position costs to open: its price, negative for a credit, and the fees.
Cost(p) == p.paid * p.qty + Fees(p)

\* A close whose result forgets the fees paid at the open.
CloseFree(b, received, fee) ==
    [b EXCEPT !.open = @ \ DOMAIN received,
              !.cash = @ + SumFunction([p \in DOMAIN received |-> received[p] * p.qty - fee[p]]),
              !.realized = @ + SumFunction([p \in DOMAIN received |->
                                   (received[p] - p.paid) * p.qty - fee[p]])]

\* _close_at for each position of received, at that price and fee; realized is
\* the sum of realized_pnl.
Close(b, received, fee) ==
    [b EXCEPT !.open = @ \ DOMAIN received,
              !.cash = @ + SumFunction([p \in DOMAIN received |-> received[p] * p.qty - fee[p]]),
              !.realized = @ + SumFunction([p \in DOMAIN received |->
                                   (received[p] - p.paid) * p.qty - fee[p] - Fees(p)])]

\* Phase 1: expired positions settle if their price is supplied, the others
\* are marked if every leg has a fresh quote and keep a stale mark if not.
Marked(b, q) ==
    LET expired == {p \in b.open : Dte(p) < 0}
        settled == IF q.settle THEN expired ELSE {}
        mark(p) == IF p \notin expired /\ Usable(p, q) THEN [p EXCEPT !.mark = Price(p, q)] ELSE p
        closed == Close(b, [p \in settled |-> Settle(p, q.spot)], [p \in settled |-> 0])
    IN [closed EXCEPT !.open = {mark(p) : p \in @}]

\* Phase 2: below a fifth of the bankroll everything goes, below two fifths
\* nothing is opened again.
Flatten(b) == 5 * Equity(b) < Bankroll
Halted(b) == [b EXCEPT !.halted = @ \/ 5 * Equity(b) < 2 * Bankroll]

HitProfit(p) == 100 * p.mark >= Sleeve[p.sleeve].profit * p.paid
HitStop(p) == p.paid < 0 /\ Sleeve[p.sleeve].stop > 0 /\ 100 * p.mark <= Sleeve[p.sleeve].stop * p.paid

\* Phase 3: what has a reason to leave does, at the mid less slippage, if it
\* can be priced.
Exited(b, q, flatten) ==
    LET due(p) == \/ flatten \/ Dte(p) = 0 \/ HitProfit(p) \/ HitStop(p)
                  \/ Dte(p) <= Sleeve[p.sleeve].exit
        leaving == {p \in b.open : due(p) /\ Usable(p, q)}
    IN Close(b, [p \in leaving |-> Price(p, q) - Slippage(p, q)], [p \in leaving |-> Fees(p)])

Held(b) == UNION {Legs(p) : p \in b.open}

InBand(p) == Dte(p) \in Sleeve[p.sleeve].first .. Sleeve[p.sleeve].last

\* A position at today's quotes: paid is the mid and the slippage.
Quoted(sleeve, long, short, q) ==
    LET legs == [long |-> long, short |-> short]
        paid == Price(legs, q) + Slippage(legs, q)
    IN [sleeve |-> sleeve, long |-> long, short |-> short, qty |-> 1, paid |-> paid, mark |-> paid]

\* _pick_credit_spread: a short leg and the long leg one width further out,
\* neither held, for a credit that is worth it.
Away(c) == IF Chain[c].kind = "call" THEN Chain[c].strike + Width ELSE Chain[c].strike - Width
CreditSpreads(b, q) ==
    LET free == {c \in q.fresh \ Held(b) : Chain[c].under = "index"}
        spread(s, l) == Quoted("fat", {l}, {s}, q)
    IN {p \in {spread(leg[1], leg[2]) : leg \in {x \in free \X free :
                    Chain[x[2]] = [Chain[x[1]] EXCEPT !.strike = Away(x[1])]}} :
           /\ InBand(p)
           /\ -100 * p.paid >= 12 * Width
           /\ 25 * Slippage(p, q) <= -9 * p.paid}

\* _pick_long_option: as many as the ticket buys, at least one.
LongOptions(b, q) ==
    LET kind == IF q.rising THEN "call" ELSE "put"
        sized(p) == IF p.paid > 0 /\ Ticket \div p.paid > 1 THEN [p EXCEPT !.qty = Ticket \div p.paid] ELSE p
    IN {p \in {sized(Quoted("lotto", {c}, {}, q)) : c \in {d \in q.fresh \ Held(b) :
                    Chain[d].under = "name" /\ Chain[d].kind = kind}} :
           /\ InBand(p)
           /\ p.paid > 0
           /\ 2 * p.paid * p.qty <= 3 * Ticket /\ 4 * p.paid * p.qty >= Ticket
           /\ 25 * Slippage(p, q) <= 9 * p.paid}

\* Phase 4 for one sleeve: the limits, and the cap on what is at risk.
Entered(b, p) ==
    IF \/ p = None \/ b.halted
       \/ Cardinality({o \in b.open : o.sleeve = p.sleeve}) >= MaxOpen
       \/ Cardinality(b.open) >= MaxOpenTotal
       \/ Risk(b) + MaxLoss(p) > Bankroll
    THEN b
    ELSE [b EXCEPT !.open = @ \cup {p}, !.cash = @ - Cost(p)]

-----------------------------------------------------------------------------
NewBook == [version |-> 2, cash |-> Bankroll, open |-> {}, realized |-> 0, halted |-> FALSE, last |-> 0]

\* A book of version 1: one put spread that credited the account, its credit
\* and mark as positive numbers.
OldBook(short, long) ==
    [NewBook EXCEPT !.version = 1, !.cash = Bankroll + (Width \div 2) - 2 * FeePerLeg,
        !.open = {[sleeve |-> "legacy", long |-> {long}, short |-> {short}, qty |-> 1,
                   paid |-> Width \div 2, mark |-> Width \div 2]}]

OldBooks ==
    {OldBook(leg[1], leg[2]) : leg \in {x \in (DOMAIN Chain) \X (DOMAIN Chain) :
        Chain[x[1]].kind = "put" /\ Chain[x[2]] = [Chain[x[1]] EXCEPT !.strike = Away(x[1])]}}

Init ==
    /\ optionDay = 1
    /\ optionBook \in {NewBook} \cup OldBooks

\* cmd_migrate: the signs of a version 1 book.  (Its equity there is the cash
\* less the marks.)
Migrate ==
    /\ optionBook.version = 1
    /\ optionBook' = [optionBook EXCEPT !.version = 2,
           !.open = {[p EXCEPT !.paid = -@, !.mark = -@] : p \in @}]
    /\ UNCHANGED optionDay

\* cmd_init --force
Reinit == optionBook' = NewBook /\ UNCHANGED optionDay

\* cmd_tick and tick: a second run on a day, or one after the window, is a no-op.
Tick ==
    /\ optionBook.version = 2 /\ optionBook.last # optionDay /\ optionDay <= Ends
    /\ \E q \in Quotes :
          LET marked == Marked(optionBook, q)
              flatten == Flatten(marked)
              exited == Exited(Halted(marked), q, flatten)
              picks(from) == IF flatten THEN {None} ELSE {None} \cup from
          IN \E fat \in picks(CreditSpreads(exited, q)) :
                LET one == Entered(exited, fat) IN
                \E lotto \in picks(LongOptions(one, q)) :
                    optionBook' = [Entered(one, lotto) EXCEPT !.last = optionDay]
    /\ UNCHANGED optionDay

\* The next session; a day without a tick is missed, or noted by cmd_holiday,
\* which leaves the positions alone.
NextDay ==
    /\ optionDay < MaxOptionDay
    /\ optionDay' = optionDay + 1
    /\ UNCHANGED optionBook

Next == Migrate \/ Reinit \/ Tick \/ NextDay

Spec == Init /\ [][Next]_optionVars

-----------------------------------------------------------------------------
(* Properties *)

\* Whatever the underlyings do until expiry, the open positions together lose
\* no more than the bankroll: max_loss is the worst case of every structure and
\* the cap sees the positions opened earlier in the same tick.  (Payoffs bend
\* only at strikes.)
Losses(b, spot) == SumFunction([p \in b.open |-> (p.paid - Settle(p, spot)) * p.qty])
RiskBounded ==
    optionBook.version = 2 =>
        \A spot \in {0} \cup {Chain[c].strike : c \in DOMAIN Chain} : Losses(optionBook, spot) <= Bankroll

\* The cash is the bankroll, what the closed positions made and what the open
\* ones cost, fees included, through every entry, exit, settlement and the
\* migration.
Explained(b) == b.cash = Bankroll + b.realized - SumFunction([p \in b.open |-> Cost(p)])
CashExplained == optionBook.version = 2 => Explained(optionBook)

\* A book that took every sleeve, exit, expiry and the migration in any order is
\* bounded in what it can lose and explains its cash.
OptionsBookSound == RiskBounded /\ CashExplained

-----------------------------------------------------------------------------
(* What makes these hold, as an inductive invariant.                       *)

TypeOK ==
    /\ optionDay \in Nat
    /\ optionBook \in Book

\* What a position is made of: one contract bought, or one sold and one of the
\* same kind bought a width further out, for a credit of at most the width.
Bought(p) == p.paid > 0 /\ p.short = {} /\ \E c \in DOMAIN Chain : p.long = {c}
Spread(p) ==
    /\ -Width <= p.paid /\ p.paid <= 0
    /\ \E s, l \in DOMAIN Chain :
          /\ p.short = {s} /\ p.long = {l}
          /\ Chain[l] = [Chain[s] EXCEPT !.strike = Away(s)]
Structured(b) == \A p \in b.open : Bought(p) \/ Spread(p)

\* No contract is in two positions: two that are marked alike stay two.
LegsApart(b) == \A p, o \in b.open : p # o => Legs(p) \cap Legs(o) = {}

SoundBook(b) ==
    /\ IsFiniteSet(b.open) /\ Structured(b) /\ LegsApart(b)
    /\ Risk(b) <= Bankroll /\ Explained(b)

\* A book of version 1 is as it was found: nothing but the two commands that
\* rewrite it touches it.
OptionsInv ==
    IF optionBook.version = 2 THEN SoundBook(optionBook)
    ELSE optionBook \in OldBooks
=============================================================================
