---------------------------- MODULE PerpsBacktest ----------------------------
(***************************************************************************)
(* The perps backtester (quantfirm/perps/backtest.py, run): a portfolio of *)
(* perps on daily bars over a universe whose membership changes with time. *)
(* One step is one iteration of its daily loop.  Equity, fees and prices   *)
(* are whole dollars, weights are per cent of equity, positions are whole  *)
(* contracts (cfg.bankroll_usd is set), one contract worth one price.      *)
(* The strategy is external: it may ask for any weights at every close.    *)
(***************************************************************************)
EXTENDS Integers, FiniteSets, Functions

CONSTANTS
    Assets,         \* the columns of the target frame
    Crypto,         \* those of them that trade around the clock
    NewBars,        \* NewBars[c]: the bars [o, h, l, c] that may follow a close c
    Asked,          \* the target rows a strategy may ask for: [Assets -> per cent]
    Rates,          \* the day's funding, in per cent of notional
    MaxDay,         \* bound: days simulated
    Bankroll,       \* cfg.bankroll_usd
    Band,           \* cfg.rebalance_band, per cent
    Every,          \* cfg.rebalance_every, days
    MaxGross, MaxAsset, Distance,    \* the caps of cap_weights, per cent
    Maint,          \* Maint[a]: the venue's maintenance rate, per cent
    Side,           \* Side[a]: cost.side_cost, per cent of notional
    Penalty,        \* cfg.liq_penalty, per cent
    Apy,            \* a day's interest on free collateral, per cent
    Soft, Kill,     \* cfg.ladder_soft and cfg.ladder_kill, per cent
    MaxStale,       \* cfg.max_stale_days
    FirstPrice

None == [ask |-> "none"]

Bars == [o : Nat \ {0}, h : Nat, l : Nat, c : Nat \ {0}]
PanelAssumption ==
    /\ IsFiniteSet(Assets) /\ Crypto \subseteq Assets
    /\ FirstPrice \in DOMAIN NewBars \cap (Nat \ {0})
    /\ \A c \in DOMAIN NewBars : \A b \in NewBars[c] :
          b \in Bars /\ b.l <= b.c /\ b.c <= b.h /\ b.c \in DOMAIN NewBars
LimitAssumption ==
    /\ Asked \subseteq [Assets -> Int] /\ Rates \subseteq Int
    /\ Bankroll \in Nat \ {0} /\ Every \in Nat \ {0}
    /\ {Band, MaxGross, MaxAsset, Distance, Penalty, Apy, Soft, Kill, MaxStale} \subseteq Nat
    /\ Maint \in [Assets -> 1 .. 100] /\ Side \in [Assets -> Nat]

\* A market's maintenance margin covers its funding of a day and the fee to leave.
CostAssumption ==
    \A a \in Assets, r \in Rates : Side[a] + r <= Maint[a] /\ Side[a] - r <= Maint[a]

VARIABLES
    day, bar, age, fresh,       \* the panel as of today: last bar, its age, printed today
    equity, units, pending,     \* the book: E, contracts, the decision of the last close
    peak, killed, killPending,
    liquidated,                 \* liq[t]: the book was closed by force today
    cash,                       \* observer: what was paid and received, trades at the opens
    slipped,                    \* observer: some trade was not at the previous close
    ended
vars == <<day, bar, age, fresh, equity, units, pending, peak, killed, killPending,
          liquidated, cash, slipped, ended>>

Abs(x) == IF x < 0 THEN -x ELSE x
Sgn(x) == IF x < 0 THEN -1 ELSE IF x > 0 THEN 1 ELSE 0
Least(x, y) == IF x < y THEN x ELSE y
Most(x, y) == IF x < y THEN y ELSE x
Total(f) == SumFunction(f)
Flat == [a \in Assets |-> 0]

-----------------------------------------------------------------------------
(* The panel.  A day without a bar keeps the last one, column by column.   *)

Unlisted == MaxStale + 1
Available(n) == [a \in Assets |-> n[a] <= MaxStale]

\* cap_weights: the liquidation-distance cap per asset, then the gross cap.
CapLong(a)  == Least(MaxAsset, 10000 \div (Maint[a] + (Distance * (100 - Maint[a])) \div 100))
CapShort(a) == Least(MaxAsset, 10000 \div (Maint[a] + (Distance * (100 + Maint[a])) \div 100))
Capped(w) ==
    LET c(a) == Most(-CapShort(a), Least(w[a], CapLong(a)))
        gross == Total([a \in Assets |-> Abs(c(a))])
    IN  [a \in Assets |-> IF gross > MaxGross THEN Sgn(c(a)) * ((Abs(c(a)) * MaxGross) \div gross)
                          ELSE c(a)]

-----------------------------------------------------------------------------
(* The parts of one day                                                     *)

FeeOf(dn) == Total([a \in Assets |-> (dn[a] * Side[a]) \div 100])

\* 1. the decision of the last close, executed at today's open.
Due(t) == pending # None /\ (killPending \/ (~killed /\ (t - 1) % Every = 0))
Scale(e) == IF Soft # 0 /\ (peak - e) * 100 >= Soft * peak THEN 50 ELSE 100
MayQuote(n, a, w) == IF Available(n)[a] THEN w ELSE 0
Held(u, b, e, a) == Sgn(u[a]) * ((Abs(u[a]) * b[a].o * 100) \div e)      \* cur_w, per cent
\* No bar today: hold or reduce, never add (crypto only).
UnquotedNever(f, a) == FALSE                              \* mutant
Unquoted(f, a) == a \in Crypto /\ ~f[a]
Wanted(n, f, u, b, e, a) ==
    LET tgt == (MayQuote(n, a, pending[a]) * Scale(e)) \div 100
        cur == Held(u, b, e, a)
    IN  IF Unquoted(f, a) /\ Abs(tgt) > Abs(cur)
        THEN IF Sgn(tgt) = Sgn(cur) THEN cur ELSE 0
        ELSE tgt
Lots(w, e, o) == Sgn(w) * ((Abs(w) * e) \div (100 * o))
Rebalanced(n, f, u, b, e) ==
    [a \in Assets |->
        LET w == Wanted(n, f, u, b, e, a)
        IN  IF Abs(w - Held(u, b, e, a)) > Band THEN Lots(w, e, b[a].o) ELSE u[a]]

\* 2 and 5. today's price move and the liquidation check at its worst point.
Adverse(u, b, a) == IF u[a] > 0 THEN b[a].l ELSE IF u[a] < 0 THEN b[a].h ELSE b[a].c
Worst(u, b, e) == e + Total([a \in Assets |-> u[a] * (Adverse(u, b, a) - bar[a].c)])
Forced(u, b, e) ==
    /\ \E a \in Assets : u[a] # 0
    /\ 100 * Worst(u, b, e) <= Total([a \in Assets |-> Abs(u[a]) * Adverse(u, b, a) * Maint[a]])
PenaltyOf(u, b) == Total([a \in Assets |-> Abs(u[a]) * Adverse(u, b, a) * Penalty]) \div 100

\* 3 and 4. funding on the notional, interest on what is not margin.
Funding(u, b, r) == -(Total([a \in Assets |-> u[a] * b[a].c * r]) \div 100)
Margin(u, b) == Total([a \in Assets |-> Abs(u[a]) * b[a].c * Maint[a] * 13]) \div 1000
Interest(u, b, e) == (Most(e - Margin(u, b), 0) * Apy) \div 100

\* The state of the next decision: the drawdown kill flattens and stays out.
Drawn(e) == Kill # 0 /\ (Most(peak, e) - e) * 100 >= Kill * Most(peak, e)
Decide(n, u, e, w) ==
    LET now == Drawn(e) /\ ~killed
        again == killed /\ u # Flat
        spent == Due(day + 1)
    IN  /\ killed' = (killed \/ now)
        /\ pending' = IF now \/ again THEN Flat
                      ELSE IF ~killed THEN Capped([a \in Assets |-> MayQuote(n, a, w[a])])
                      ELSE IF spent THEN None ELSE pending
        /\ killPending' = (now \/ again \/ (killPending /\ ~spent))

-----------------------------------------------------------------------------

Init ==
    /\ day = 0
    /\ bar = [a \in Assets |-> [o |-> FirstPrice, h |-> FirstPrice, l |-> FirstPrice, c |-> FirstPrice]]
    /\ age = [a \in Assets |-> 0]
    /\ fresh = [a \in Assets |-> TRUE]
    /\ equity = Bankroll /\ peak = Bankroll /\ cash = Bankroll
    /\ units = Flat
    /\ \E w \in Asked : pending = Capped(w)
    /\ killed = FALSE /\ killPending = FALSE
    /\ liquidated = FALSE /\ slipped = FALSE /\ ended = FALSE

\* The bars of one day: the assets of P print, the others keep their last bar.
Panels(P) == {b \in [Assets -> UNION {NewBars[bar[a].c] : a \in P} \cup Range(bar)] :
                \A a \in Assets : IF a \in P THEN b[a] \in NewBars[bar[a].c] ELSE b[a] = bar[a]}

Ledger(u, b, c) == c + Total([a \in Assets |-> u[a] * b[a].c])

\* 0 and 1: the forced exits, then the rebalance.
Exits(n, b) == [a \in Assets |-> IF ~Available(n)[a] THEN 0 ELSE units[a]]
Traded(n, f, u, b, e) == IF Due(day + 1) THEN Rebalanced(n, f, u, b, e) ELSE u
FeeAt(u, v, b) == FeeOf([a \in Assets |-> Abs(v[a] - u[a]) * b[a].o])

\* 2 to 5: the day on the new contracts u, with e of equity after the fees.
MarkedTwice(u, b, e, forced) ==                           \* mutant: the close is booked too
    (IF forced THEN Most(Worst(u, b, e) - PenaltyOf(u, b), 0) ELSE e)
    + Total([a \in Assets |-> u[a] * (b[a].c - bar[a].c)])
Marked(u, b, e, forced) ==
    IF forced THEN Most(Worst(u, b, e) - PenaltyOf(u, b), 0)
    ELSE e + Total([a \in Assets |-> u[a] * (b[a].c - bar[a].c)])
Earned(u, b, r, e, forced) == IF forced THEN 0 ELSE Funding(u, b, r) + Interest(u, b, e)

\* The observer's account: what the trades of today paid and received.
Paid(u0, u1, b, fees) ==
    Total([a \in Assets |-> (u1[a] - u0[a]) * b[a].o - (units[a] - u0[a]) * b[a].c]) + fees
Released(u, b, forced) ==
    IF forced THEN Total([a \in Assets |-> u[a] * Adverse(u, b, a)]) - PenaltyOf(u, b) ELSE 0

Close(n, u, e, w) ==
    IF e <= 0
    THEN ended' = TRUE /\ UNCHANGED <<peak, killed, pending, killPending>>
    ELSE ended' = FALSE /\ peak' = Most(peak, e) /\ Decide(n, u, e, w)

Day(P, b, r, w) ==
    \E n  \in {[a \in Assets |-> IF a \in P THEN 0 ELSE Least(age[a] + 1, Unlisted)]} :
    \E u0 \in {Exits(n, b)} :
    \E e0 \in {equity - FeeOf([a \in Assets |-> Abs(units[a] - u0[a]) * b[a].c])} :
    \E u1 \in {Traded(n, [a \in Assets |-> a \in P], u0, b, e0)} :
    \E e1 \in {e0 - FeeAt(u0, u1, b)} :
    \E forced \in {Forced(u1, b, e1)} :
    \E e2 \in {Marked(u1, b, e1, forced)} :
    \E got \in {Earned(u1, b, r, e2, forced)} :
        /\ day' = day + 1 /\ bar' = b /\ age' = n /\ fresh' = [a \in Assets |-> a \in P]
        /\ units' = IF forced THEN Flat ELSE u1
        /\ equity' = Most(e2 + got, 0)
        /\ liquidated' = forced
        /\ cash' = cash - Paid(u0, u1, b, equity - e1) + got + Released(u1, b, forced)
        /\ slipped' = (slipped \/ \E a \in Assets : u1[a] # u0[a] /\ b[a].o # bar[a].c)
        /\ Close(n, units', e2 + got, w)

Next ==
    /\ day < MaxDay /\ ~ended
    /\ \E P \in SUBSET Assets \ {{}}, r \in Rates, w \in Asked :
          \E b \in Panels(P) : Day(P, b, r, w)

Spec == Init /\ [][Next]_vars

-----------------------------------------------------------------------------
(* Properties                                                               *)

\* Equity is what a statement of account would say: cash paid and received,
\* plus the contracts at today's close, through forced exits, liquidations,
\* funding and fees, as long as every trade was at the previous close.
LedgerExact == ~slipped /\ ~ended => equity = Ledger(units, bar, cash)

\* What of it holds: the size of a position without a bar never grows.
StaleNeverAdds == \A a \in Crypto : ~fresh'[a] => Abs(units'[a]) <= Abs(units[a])

\* "drawdown kill: flatten at tomorrow's open, never re-enter": after the kill a
\* position only shrinks.
KillNeverReenters ==
    killed => /\ killed'
              /\ \A a \in Assets : /\ Abs(units'[a]) <= Abs(units[a])
                                    /\ Sgn(units'[a]) \in {0, Sgn(units[a])}

\* The brakes of the backtest hold at every step of it.
Braked == StaleNeverAdds /\ KillNeverReenters

-----------------------------------------------------------------------------
(* What makes these hold, as an inductive invariant.                        *)

TypeOK ==
    /\ day \in Nat /\ fresh \in [Assets -> BOOLEAN] /\ age \in [Assets -> Nat]
    /\ bar \in [Assets -> Bars]
    /\ \A a \in Assets : bar[a].l <= bar[a].c /\ bar[a].c <= bar[a].h /\ bar[a].c \in DOMAIN NewBars
    /\ equity \in Nat /\ peak \in Nat /\ cash \in Int
    /\ units \in [Assets -> Int]
    /\ pending \in {None} \cup [Assets -> Int]
    /\ {killed, killPending, liquidated, slipped, ended} \subseteq BOOLEAN

\* A book that was not liquidated can pay to leave: its equity is more than the
\* fee on all it holds.
CanLeave == ~ended => 100 * equity > Total([a \in Assets |-> Abs(units[a]) * bar[a].c * Side[a]])

\* After the kill nothing is decided but to be flat.
KillDecides == killed => pending \in {None, Flat}

BacktestInv == LedgerExact /\ CanLeave /\ KillDecides
=============================================================================
