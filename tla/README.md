# Verification of the quantfirm desks

TLA+ models of the programs of this repository that trade, decide and measure, the TLC
runs that check them on small instances and, for every desk and for the commands around
them, proofs for all instances.

Every desk has the same shape: a script or loop that is started again and again,
loads its books from a JSON file, talks to a venue whose answers may be late or
missing, moves the books by what the venue reports, and may be killed at any
line. What makes the desks correct is how the saved books, the memory of a
running process and the venue's account stay together through that. In the models of
the desks prices and signals are free choices. The strategies, backtests and studies
that produce the signals have models of their own: there the question is whether
what was measured is what is traded.

## 1. Inventory

### The parts that trade

| part | code | state | operations | hard behaviour |
|---|---|---|---|---|
| Crypto desk | `quantfirm/live/engine.py`, `state.py`, `rh_client.py`, `quantfirm/risk.py`, `.github/workflows/trade.yml` | `state/live_state.json` (position, cash, peak, last bar, pending intent), `trade_log.csv`, `KILL_SWITCH`; Robinhood's orders | one run per bar: reconcile the pending intent, decide, save intent, POST, poll, book, save, commit | death between any two writes; duplicate client ids; a venue that lists late; the CI runner's disk is thrown away |
| Kalshi book | `quantfirm/kalshi/paper.py`, `agent.py`, `halt.py` | the state file (open positions, cash of each book), the trade-log CSV, memory of each engine, exchange fills | sessions of ticks: take, rest a maker quote, settle, save | two engines on one file; a save that unions; memory that lives thirty ticks longer than the file; kill -9 by the watchdog |
| Kalshi supervisor | `scripts/kalshi_paper_loop.sh`, `quantfirm/kalshi/runtime.py`, `scripts/kalshi_desk_checkin.py`, `scripts/perps_loop.sh` | pid files, the decisions file's age, the report and its mark | start, session, watchdog kill, check-in, restart of the host | a pid file that outlives its loop; a watchdog that looks at an old file; a mark that passes a fill |
| Incentive quoter | `scripts/kalshi_incentive_quote.py`, `kalshi_incentive_paper.py` | orders resting at the exchange, the intent log; the shadow book | a pass: read, cancel, select, log, send; the hourly paper tick | lost answers, failed cancels, ids that repeat within a day, dropped hours |
| Equity desk | `scripts/equity_rebalance.py` | `equity_state.json` (shares, settled and unsettled cash, peak, day of the last plan, holds), `KILL_SWITCH_EQ`; the brokerage account | `plan`, `record`, `mark`, `reconcile-cash`, `resume`, run around broker calls of a session that may die | T+1 settlement, good-faith violations, fills recorded by another session |
| Perps desk | `quantfirm/perps/paper.py`, `risk.py`, `agent.py`, `scripts/perps_loop.sh` | the book file (positions, funding, halt reason, day of the last rebalance), `KILL_SWITCH_PERPS`; positions and brackets at the venue | hourly tick: switch, reconcile, marks, drawdown flatten or weekly rebalance, brackets | IOC orders with partial, lost or unreadable answers; brackets that fire by themselves; the switch thrown between gate and POST; funding requests that fail |
| Options paper desk | `quantfirm/options/paper.py`, `risk.py`, `scripts/options_paper.py` | the book file (open positions, cash, ladder, halt) | a daily tick: settle, mark, ladder, exits, entries; migration | entries of one tick that share the caps; missing settle prices |

### The parts that decide and measure

| part | code | what is hard |
|---|---|---|
| Kalshi strategies and pricing | `quantfirm/kalshi/strategies.py`, `strategy.py`, `fair.py`, `poly.py`, `cashout.py` | sizes and fees rounded per order; one-sided and wide books |
| Kalshi replays and ladders | `quantfirm/kalshi/backtest.py`, `maker.py`, `ladder.py`, `scripts/kalshi_div_nowcast.py` | events of several markets merged by time; queues; locks made of thin edges |
| Equity selection and reconstruction | `quantfirm/equities/strategies/*`, `reconstruct.py` | hysteresis over dates; names without a score; shares of several sleeves |
| Equity data and backtests | `scripts/update_equities.py`, `import_bars.py`, `quantfirm/equities/backtest.py`, `panel.py` | splits, unfinished sessions, an import that dies between two files |
| Crypto research and backtests | `quantfirm/strategies/*`, `data.py`, `scripts/update_data.py`, `backtest.py` | strategies replayed from scratch over merged histories |
| Perps strategies and data | `quantfirm/perps/strategies.py`, `families/*` | labels that come late; assets that stop quoting; tranches |
| Perps backtester and trial protocol | `quantfirm/perps/backtest.py`, `registry.py`, `tournament.py`, `cli.py` | pending decisions on missing bars; trials recorded beside a tournament; the one-shot holdout |
| Perps watch | `scripts/perps_watch.py` | what was reported is remembered in a file |
| Profiles, setup, upgrade | `scripts/setup.py`, `profile.py`, `upgrade.py` | a command cut off after any file; migrations and versions |

Three components have no model of their own: `scripts/seed_books.py` (makes the crypto books the
desk starts from), the Kalshi client and feeds (I/O), the research sweeps (offline studies).
`PROJECT.json` lists every component with its sources and what is left out.

### How the parts interact

The desks share nothing but the repository: each has its own books, its own kill
switch file and its own venue account. Inside a desk the parts communicate by
files. The CI job checks the state files out and commits them back. The Kalshi
supervisor starts engines that load the state file, and kills an engine whose
decisions file goes stale. Owner, risk desk and drawdown checks create kill-switch
files that every tick reads. Agents run `plan` and `record` and carry orders
to the broker in between. A desk imports its strategy from the same module that the
backtests use, over histories that an update job maintains; profiles and upgrades decide
with which parameters.

### What each part must get right

* **Crypto desk**: an order at the venue that is not booked is named by the
  pending intent on disk; no order is booked twice; books equal fills; the
  owner's other coins are never sold; a pending intent is resolved.
* **Kalshi book**: no fill is forgotten by a save; a settlement is paid and
  logged once; cash is bankroll plus results less stakes; one live order per market;
  positions are settled in the end.
* **Supervisor**: one engine at a time, and always one; no settled fill is left out of the reports.
* **Incentive quoter**: one quote per side of a market, each logged before it is sent; a GO
  rests on hours that were measured.
* **Equity desk**: the books are the account up to the fills not yet recorded; cash
  is counted once; no lot is sold that was bought with unsettled proceeds; a
  plan's buys can be paid.
* **Perps desk**: a fill nobody booked is noticed and not ordered again; the
  switch stops orders; a mismatch on record stays; a drawdown ends flat; funding is paid once,
  for what was held.
* **Options desk**: open risk stays below the caps; cash is explained by the positions.
* **Strategies**: an order costs no more than its stake; weights stay within the caps, on assets
  that still quote; today's signal is what the backtest says of today.
* **Backtests and studies**: reported P&L is what happened to the cash; folds see nothing of
  the future and add up to one track; a brake of the desk brakes the backtest; every trial counts.
* **Data and configuration**: a split or a frozen bar never becomes a return; a label names
  parameters that were measured under it; a migration that VERSION says was done was done.

The hazards in `PROJECT.json` give the lines at which these may go wrong, and the properties that
would show it.

## 2. Modules

| module | models | checked in |
|---|---|---|
| `CryptoDesk` | crypto desk, venue orders, disk and repository | `crypto_local`, `crypto_ci`, `crypto_rerun` |
| `OrderLedger` | abstract specification: orders are placed one at a time, each is booked once | `crypto_local` |
| `CryptoDeskProofs` | theorems about `CryptoDesk` | TLAPS |
| `KalshiBook` | engines, state file, trade log, exchange | `kalshi_live`, `kalshi_two`, `kalshi_agent` |
| `KalshiBookProofs` | theorems about `KalshiBook` | TLAPS |
| `KalshiSupervisor` | loop, watchdog, check-in, host | `supervisor` |
| `KalshiSupervisorProofs` | theorems about `KalshiSupervisor` | TLAPS |
| `PerpsDesk` | engine, sessions, venue, owner | `perps_desk`, `perps_drawdown` |
| `PerpsDeskProofs` | theorems about `PerpsDesk`, `PerpsPortfolios` and `PerpsSignals` | TLAPS |
| `EquityDesk` | the script's commands, the session, the account | `parts`, `equity_reconcile` |
| `EquityDeskProofs`, `OptionsDeskProofs` | theorems about the two desks, and about `EquitySelection` | TLAPS |
| `OptionsDesk`, `PerpsPaper`, `IncentiveQuoter`, `IncentivePaper` | options book, shadow perps book, quoter, its shadow book | `parts` |
| `EquityPanel`, `OwnerConfig`, `PerpsWatch` | panel files, owner's config and books, watch | `parts` |
| `KalshiStrategies`, `KalshiReplay`, `KalshiLadder` | Kalshi decisions, replays, ladder study | `parts` |
| `PerpsBacktest`, `TrialProtocol`, `WalkForward` | perps daily loop, trial registry and holdout, folds of the three backtesters | `parts` |
| `PerpsSignals`, `PerpsPortfolios`, `CryptoSignals`, `EquitySelection` | signals, books, replayed crypto strategies, equity selection | `parts`, `xsmom_neutral` |
| `CommandProofs` | theorems about `TrialProtocol`, `OwnerConfig`, `IncentiveQuoter`, `PerpsWatch`, `IncentivePaper`, `PerpsBacktest`, `KalshiStrategies`, `KalshiReplay`, `KalshiLadder`, `WalkForward`, `CryptoSignals` | TLAPS |
| `SumTheorems` | induction over finite sets and intervals, and the sums of the community modules, quotients | TLAPS |
| `MCCryptoDesk`, `MCKalshiBook`, `MCEquityDesk` | instances of one component | TLC |
| `MCParts`, `DeskInputs`, `StudyInputs` | eighteen instances side by side, and the inputs they are given | TLC |

`CryptoDesk` composes the engine with the venue (`orders`), the runner's disk
(`disk`) and the repository (`repo`). `OrderLedger` is instantiated with
`placed <- {orders that are not absent}` and `count <- disk.books.booked`, in `CryptoDesk` itself, so that run and proof speak of one instance. `KalshiBook` composes
engines, file, log and exchange, `KalshiSupervisor` the loops with the check-ins and the host,
`PerpsDesk` engine and venue, `EquityDesk` script, session and account.

`MCParts` is a sum of specifications. Its parts share no state, so a product of them
would only multiply what is known of each; a behaviour of `MCParts` is a behaviour of one part,
chosen at the start and named by `part`, with the part's variables in `s1`, `s2`, ... A
property of a part is stated of the states in which that part runs.

Some definitions follow the definition they vary (`SavedWhole` and `Saved`,
`GateBlind` and `Gate`). They are variants with a fault; no specification uses them.
`PROJECT.json` names, for each property of a passing run, the variant that breaks it.

### From code to model: the desks

**CryptoDesk.** `disk.books` is `live_state.json`, `mem` what the run has loaded,
`repo` what is committed, `run` where the run is (`pc`) and the order in hand, `orders`
the venue's records by client order id. The id is the side and the bar, as
`deterministic_order_id` makes it (rh_client.py:124), so a second order of a bar has
the id of the first. A save, a POST, a poll and a booking are one action each, because
a run may die between any two (`Crash`). `Wake` loads and starts; `Reconcile*` are the
outcomes of `reconcile_pending`; `held` is what the account has of the bot's coins; `Decide*` the branches of `run` (killed, bar already
seen, drawdown, target); `Submit` saves the intent; `Post*` and `Poll*` are the answers;
`Persist` and `Commit` the end. `booked` in the saved books and `log` (rows by order)
are observers. `PositionMatchesVenue` relates the books to `held`. Quantities are whole units, prices small numbers; dollars that a limit
compares are computed from them. `EphemeralDisk` says whether an uncommitted disk is
lost (CI), `VisibilityLag` whether the venue may list an order late, `Reruns` whether a
second run may see the same bar.

**KalshiBook.** `disk` is the state file, `log` the trade log, `eng[e]` the memory of an
engine process. `Load` and `InitSave` are `PaperEngine.__init__`; `Take` is a decision with
`_execute`: which entries the guards allow, shadow fill, live leg and what each leaves behind;
`Maker*` are the maker quotes; `Settle` one round of the loop in `settle_due`; `EndTick` and
`Finish` the saves of the `run` loop or of the agent's graph. A save is two steps, `StartSave`
(reads the file, forms the union) and `Replace` (`os.replace`). A position is its key and the
session that made it; a contract costs one and pays two. `Booked` is what is open or settled, `Won` and `Tied`
what a book made of positions and has in them. `DistinctKeys`, `AtomicSaves` and
`OrderErrors` say whether two fills may share a key, whether two saves may overlap and whether a
live answer may be lost.

**KalshiSupervisor.** `procs` is the host's process table, `pidfile` and `strayfile` what the
files say, `phase` where a loop is (guard, kill switch, engine, sleep), `engine` the child of each,
`age` the age of the decisions file in watchdog ticks. `CheckIn` takes the check-in through its
steps: look at the pid, start a loop, stop a sleeve, read the trade log, write the report, save the
mark, push. `Boot` restarts the host and, under `PidReuse`, gives the old pid to another process.
`ReapsChild` says whether `timeout` ends with its loop.

**PerpsDesk.** `disk` is the book file, `book` the engine's, `run` the stage of the session and
of the tick, `venue` and `stops` the positions and brackets at the venue. `TickKill`,
`TickNothing`, `Mismatch`, `DrawdownKill` and `Rebalance` are the ways through
`tick` up to its orders (the switch and the positions are read in one step, since a
change between the two reads has the effect of one before or after both), `Skip` and `Gate`
what `_trade` does with an asset up to the request, `Post*` the
four outcomes of `create_order` (answered with any fill, refused, no answer after the
one try, a body that does not decode). A reduce-only order never fills past flat,
which the venue guarantees. Whether a drawdown or loss stop is in force and whether
a limit on age, size, price or leverage blocks an order is chosen freely in each tick,
since prices are left out. An answer to a bracket request that does not decode is left out: it
only puts the save off to the next tick.

**PerpsPaper.** The accounts of the same engine without a venue: `market` the marks, `history` what
was held, marked and charged at each funding time, `stateFile` and `engine` the saved and the
loaded book. A tick fetches the funding it has not yet seen (or fails), accrues interest, moves the
peak and the day's equity, and fills orders at the far touch; `Killed` is the watchdog's kill -9.

**EquityDesk.** `books` is `equity_state.json`, `session.todo` the orders of the plan still to
be placed, `session.fills` those executed and not recorded, `venue` the account.
`PlanNothing`, `PlanKill`, `PlanRebalance` are the exits of `plan`; `Settled` is
`settle`; `Record`, `Mark`, `ReconcileCash`, `Resume` the commands. `Place` and `Reject`
are the broker, `NextDay` settles and moves prices, `Die` drops what the session had not
placed. `hold` is `gfv_hold`. Money is whole dollars and an order buys whole shares; `Targets` is any
distribution within the equity.

**OptionsDesk.** `optionBook` is the state file. `Tick` is a whole tick, since nothing of it is
saved before its end: settle what expired, mark, drawdown ladder, exits of each structure, then at most one
entry per sleeve, each against the caps that the earlier ones have used. Which candidate
has the best score is a free choice among those with fresh quotes; `Migrate` and `Reinit` are the two commands that
rewrite the book. A position is a contract bought or a spread sold for a credit of at most its width.

**IncentiveQuoter, IncentivePaper.** A pass reads the exchange (`Begin`), cancels what is foreign, doubled
or stale (`Reconcile`), selects markets within the capital (`Select`), and for each
quote logs the intent and sends it (`Intend`, `SendOk`, `SendError`, of which the latter
may leave an order). Orders fill and the switch is tripped at any time; ids repeat within a `quoteDay`. A
market has one active program, as the exchange lists them: `select` itself does not look for a second one
(kalshi_incentive_quote.py:310-311). The paper
book's `Tick` is one hour of `kalshi_incentive_paper.py`: it credits what a market paid over an interval capped by
`MaxInterval`, replaces slots and forms the verdict over the last `Window` hours.

### From code to model: data, configuration, research

**EquityPanel.** `tape` is what each symbol closed at, `cuts` its splits, `panel` the files. The daily update appends a bar
and rescales a history when the new bar shows a split; `Import` gates a batch of broker bars on
the overlap, and writes file by file (`Rescale`, `AppendNew`), cut off anywhere by `ImportDies`.

**OwnerConfig.** `clone` holds the release of the script, the profiles and the VERSION file
separately, since an upgrade checks them out one after the other. `Apply`, `SetupBegin` .. `Bootstrap`
and `UpgradeBegin` .. `Stamp` are the three commands, `Cut` ends one anywhere.

**PerpsWatch.** A `Run` compares each asset's funding and the listings with the `mark` file, reports and saves. `told` is
what the owner knows from what was printed.

**KalshiStrategies.** `m` is what the engine sees of one market. `Decide(s)` is strategy `s` of the registry through the
common gates, size and fee; `CashOut` is the rule that sells.

**KalshiReplay, KalshiLadder.** `minute`, `candle` and `todo` merge the events as `backtest.py` does; `quote` is
the resting maker order with the contracts ahead of it. In the ladder the event, quotes and
ensemble are chosen, the scanners and takes are operators, and a print settles every leg.

**PerpsBacktest, TrialProtocol, WalkForward.** A step of the first is a day of the loop: pending
orders at the open, stale and delisted assets, liquidation, funding, fees, kill. The second interleaves
tournaments, ad-hoc backtests, robustness sweeps and the judge. The third scores the same rule on two panels that agree up
to a bar, so that what a fold may depend on can be stated.

**PerpsSignals, PerpsPortfolios, CryptoSignals, EquitySelection.** One step is a day (an hour of
crypto); the data that arrive are chosen, the strategy's rule is an operator on the history, and what the
desk decided is kept in `decided`, `books` or `held`. The families are those of the repository; the numbers
their windows come out at (volatilities, covariances, betas) are inputs.

## 3. Runs

| run | bounds | question and result |
|---|---|---|
| `crypto_local` | 3 bars, 2 prices, 2 crashes, disk survives, one run per bar | 0.90 M states. Type; no orphan order; booked once; books match venue; owner's coins untouched; booked orders have a row; implements `OrderLedger`. All hold. |
| `crypto_ci` | 2 bars, 1 crash, disk thrown away, late listing, retried runs | 0.33 M states. A pending intent is always resolved. Holds. |
| `kalshi_live` | 1 engine (`run` driver), 1 market, shadow, maker and live books, 3 sessions, kill switch | 0.45 M states. Rows once; cash matches; one live order per market; positions are settled in the end. All hold. |
| `kalshi_two` | 2 engines (agent driver) on one file, 2 markets of one metal, 2 sessions, 1 kill | 2.67 M states. No fill forgotten. Holds. |
| `perps_desk` | 2 assets, 2 contracts, 2 weeks, 1 kill | 1.02 M states. Exposure bounded; switch stops orders; mismatch sticks; divergence noticed. All hold. |
| `supervisor` | 3 pids, 1 check-in, watchdog at 2 ticks, 1 kill switch, 1 boot, 1 row, 1 stray | 0.11 M states, deadlock checked. One engine; no fill unreported; the loop returns. All hold. |
| `parts` | eighteen small instances, below | 1.89 M states. Twenty properties, below. All hold. |
| `crypto_rerun` | 1 bar, no crash, any re-run | **violates** `BookedOnce`: finding 1. |
| `kalshi_agent` | 1 engine (agent driver), 1 market, 2 sessions | **violates** `RowsOnce`: finding 2. |
| `equity_reconcile` | 3 days, cash reconciled in the morning | **violates** `BooksMatchVenue`: finding 3. |
| `perps_drawdown` | 2 assets, 1 week, no crash | **violates** `DrawdownFlattens`: finding 4. |
| `xsmom_neutral` | the portfolios of `parts` | **violates** `DollarNeutral`: finding 5. |

The run `parts`:

| part | instance | property | says |
|---|---|---|---|
| equity | 2 symbols, prices 1 and 3, at most 2 shares of each wanted, cash 3, minimum order 2, 3 days, 1 death, 1 deposit, cash reconciled when no proceeds are outstanding | `BooksMatchVenue` | the books are the account up to the fills not recorded |
| | | `BuysCovered` | buys are paid with settled cash or the plan's own sells, and nothing bought with unsettled proceeds is sold |
| options | 8 contracts of 2 underlyings, 6 days, at most 3 positions | `OptionsBookSound` | at any spot the open positions lose at most the bankroll; cash is bankroll, realised results, costs and fees |
| shadow | 1 asset, prices 16 and 24, cap 2, 3 funding intervals | `PaperLedger` | the saved and the loaded book explain every dollar; each funding time is paid once, for what was held then |
| quoter | 2 markets, 2 passes, 2 days, capital 18 | `QuotesAccounted` | one quote per side of a market; every order was logged first |
| paper | 2 markets, 1 slot, 6 hours, window 4 | `GoIsMeasured` | a GO rests on a window of which at least half was watched |
| panel | 2 symbols, 4 sessions, a 2:1 split | `PanelSound` | no writer restates a return; the seam of an import is the vendor's return; a complete import leaves no ragged panel |
| owner | 3 releases, 2 profiles, 1 cut | `OwnerKept` | a profile's label names parameters that were shipped under it; VERSION does not claim a migration that was not done |
| watch | 2 assets, 1 metal, 1 coin, 3 weeks | `WatchTells` | each listing is told once, each crossing of the funding line is known |
| strategies | snapshots of one market and where the book goes next | `EntriesSound` | an order costs at most its stake, fee included; no entry is sold at once by the cash-out rule |
| replay | 13 minutes, lag mode, 2 markets, days of 8 minutes | `ReplaysHonest` | reported P&L is the change of cash; "adverse" fills are among the "queue" fills |
| ladder | ladders of up to 3 legs, every print | `LadderEdgesPay` | locks pay at least the edge reported at every print; takes pay on average over the ensemble |
| backtest | 2 assets, 3 days | `LedgerExact` | equity is a statement of account through liquidation, forced exits, funding and fees |
| | | `BrakesHold` | a stale asset's position never grows; after the kill nothing is entered |
| protocol | 2 strategies with 2 points, 3 commands | `ProtocolKept` | a verdict counts every trial recorded before it; a holdout number shown left a marker |
| walk | 8 bars, 2 folds, embargo 1 | `FoldsHonest` | no fold and no pick depends on later bars; the folds put end to end are one track |
| signals | 13 families, 5 days | `SignalsSound` | what the desk decided is what the backtest says of that day; the crash filter rests |
| portfolios | 14 families, 3 coins and a metal, 4 days | `BooksDeliverable` | caps hold for every mix; nothing is held that stopped quoting |
| crypto | 10 families, 5 hours, 2 to a day | `LiveIsBacktest` | a desk that replays its strategy every hour holds what one that remembered would |
| selection | 11 families over the menu of `StudyInputs` | `SelectionSound` | rows are never levered; a rebuilt book gives vacated slots to the best |

Why the bounds are enough. Two bars let an order of one bar be pending, booked or lost
while the next decides; the third bar lets it be repeated after that. Two crashes let
recovery itself be interrupted. Two prices produce a drawdown and cross the trade
limits. Two engines and two sessions let one session load before, between and after the
saves of another; three sessions let what one left open be settled by the second and looked for by the third.
Two markets of one metal exercise the correlation guard and let one
be settled while the other is open. Two symbols let a sale fund a buy; a minimum order
of two dollars keeps small sells out of a plan, which is when the budget cuts buys. Three days
let a sale of the first settle on the second and be judged on the third. Two
contracts make a fill partial; two assets put an order after a lost one in the same tick. Three pids are a loop, its
successor after a boot and the sleeve. In `parts` each instance is the smallest in which the faults that
`PROJECT.json` lists as mutants of its property, and every disjunct of its next-state relation, occur: two folds
have one edge between them, three releases are one that an upgrade can jump, four days of two tranches let a tranche keep
its weights over a change of the ranking.

The inputs in `DeskInputs` and `StudyInputs` are not all values of a type but those on which a rule can turn (a price on
either side of a band, a day on which a window changes sign); each is named with what it is for.

`CHECK_DEADLOCK FALSE` stands in every configuration but `supervisor`: a bounded instance ends when its last
bar, session or day is over. The supervisor's timers never end.

### Fairness

`crypto_ci` assumes weak fairness of a run that is going on (`Engine`), of runs started
when one is due (`Wake`, the workflow's schedule) and of the venue, which ends and lists market
orders. `kalshi_live` assumes weakly that engines are started (the supervisor's loop), that a running one
keeps ticking and saving, that markets are resolved, and strong fairness of settling: `get_market` may
fail in a tick, but not in all of them. `perps_desk` assumes sessions are started, that an
engine continues, and strong fairness of `Mismatch`: a venue that can not be read in one tick is read
in a later one. `supervisor` assumes that check-ins, which a timer starts, take their steps, and that a loop that was started runs.
No fairness is assumed of crashes, hangs, owners, kill switches or brackets.

### Findings

1. `crypto_rerun`. The client order id depends on side and bar alone. A second run of
   a bar (flatten retry under the kill switch, or a re-run after a reconcile)
   gets a 400 duplicate for an order that is already booked and books it again
   (engine.py:157), against engine.py:13-15.
2. `kalshi_agent`. The persist node of the agent saves without the settled keys
   (agent.py:77, also 133 and 135). The union takes settled positions back
   from the file and the next session pays them out again, against paper.py:137-139 and 339-341.
3. `equity_reconcile`. `reconcile-cash` compares before `settle`
   (equity_rebalance.py:153), so yesterday's proceeds enter as a contribution and are settled
   once more. The script asks for exactly that order (140-144).
4. `perps_drawdown`. The drawdown branch ignores what its orders did
   (perps/paper.py:411-413). It trips the switch with positions open, and every
   later tick ends at the switch, against paper.py:409, 414 and risk.py:33.
5. `xsmom_neutral`. A rebalance row is filled forward after its zeros were taken for gaps
   (families/xsmom_residual.py:150): a name that left its leg keeps its old weight, and the book is not
   dollar-neutral as line 113 says.

### Other disagreements, seen while modelling and not kept as runs

* `trade.yml:43`: the step that commits the state is skipped when the engine step fails, so on a CI runner the intent
  saved before the POST is lost (engine.py:9-12, 145). `EphemeralDisk = TRUE` with a crash violates `NoOrphanOrder`.
* The cash of the options book can end a little below zero, by the fees of its exits (options/paper.py:12-13). The quoter
  counts a resting NO bid at its YES price against the capital (kalshi_incentive_quote.py:233-235), where it locks the rest of the dollar.
* kalshi/strategies.py:433 has `spot_desk` only sit where `desk_book` would enter, but it is registered with a floor of 60 cents instead of
  75 and enters where `desk_book` does not. ladder.py:19-21: a nested lock that contains a "less" leg is no lock.
* perps/backtest.py:307 marks what was traded at the open from the previous close, so a gap is earned by a position that did
  not have it; 280-285 caps a stale asset's target only on the side it is held, so it may be flipped. perps/cli.py:107-108
  seals the split `holdout`, not the full history that contains it. registry.py:3-4: the trials of the robustness
  sweep are not recorded.
* kalshi_paper_loop.sh:19 takes any process with the pid for the loop (`PidReuse`). perps_loop.sh:60 kills `timeout` and may leave
  the engine under it (`ReapsChild = FALSE`).
* engine.py:252 holds fully long where the strategy's position is not a number. reconstruct.py:65-74 has neither the risk fraction nor the
  defensive sleeve of the strategy it rebuilds a book for. The docstring of `weather_hist` says 15:00 UTC where the code takes 12:00. The 60 %
  threshold of `sane` lets a 2:1 split through (update_equities.py:121-124).
* upgrade.py replaces VERSION before the migrations run, so a crash between them skips these; `--to` pulls the newest files anyway; an
  older script does not know new migrations; a failed checkout is not noticed; the label of a
  migration ignores the risk values (109-114). `profile apply` resets the bankroll that setup.py:130-140 set.
* perps funding after a failed request is charged at the new size (paper.py:221). perps_watch.py:248-251 saves the
  mark before the report is printed. `reconcile-cash` assumes a cost basis of 250 where none is recorded (equity_rebalance.py:174).

Known hazards that no property covers: a late listing at the reconcile (engine.py:120), the drawdown branch that
advances the bar clock (engine.py:248), the seed sale repeated (seed_books.py:96), equal position keys (kalshi/paper.py:121), two saves
that overlap (paper.py:145), a live fill whose answer is lost (paper.py:706), a kill switch that also stops
`settle_due` (agent.py:77), a fill recorded twice (equity_rebalance.py:457), a resume that lowers the peak (225), a kill plan that leaves the
day open (309), the in-doubt halt that a later refusal empties (perps/paper.py:327), leverage judged on weights of before the
tick (448), a desk command during an upgrade. The constants `DistinctKeys`, `AtomicSaves`, `OrderErrors` and `VisibilityLag`
switch four of them on.

## 4. Proofs

Eight modules hold theorems. They assume what their statements name: assumptions on the constants of the module they are
about, never its bounds, and where a statement has hypotheses, which disk, driver or error model it is about. TLC found
every inductive invariant below true on the bounds of a run before it was proved.

### Crypto desk (`CryptoDeskProofs`)

* `TypeCorrect`: `Spec => []TypeOK`. Types of the variables alone would not be inductive:
  `Persist` needs that a run past its load has a bar in range and a quote of the market, and
  `Post` that the order in hand is a real id. `TypeOK` states both by stage of the run
  and is inductive as it stands.
* `NoOrderOrphaned`: without ephemeral disks and listing lag, `Spec => []NoOrphanOrder`,
  under any re-runs. The invariant (`CoverInv`): the disk, and the memory of a live run, each
  either has booked an order the venue accepted or names it as pending; after a reconciliation
  nothing is pending, and while an order is posted or polled both name that order. The second half
  is what `Post` needs: the order it creates is already named by both copies.
* `OrdersBookedOnce`: if no bar is run twice, `Spec => []BookedOnce`, for both kinds of disk
  and with or without lag. The invariant (`BookingInv`): no copy of the books (memory, disk,
  repository) has booked an order twice, holds an order of a bar not yet woken, or has booked the
  order it still names as pending; and until the live run submits, memory has booked
  nothing of the running bar. A rollback then forgets the booking and the intent together or neither.
* `EveryBookingLogged`: `Spec => []TradeLogCoversBooks`, with no hypothesis. `LogInv` says it of disk, repository and memory
  separately; it holds because the row is written before the save and a commit takes both files.
* `PositionIsVenuePosition`, `OwnerCoinsSafe`: with no re-run, no ephemeral disk and no listing lag, the position in the books is
  what the account holds whenever nothing is pending, and no sale that is open could sell the owner's own coins.
  `PositionInv` says by how much a copy of the books may differ: by what its one pending order was filled with. It needs
  `BookingInv`, else a fill could be booked twice, and `CoverInv`, else one could be forgotten; and that only orders that
  are done are booked, since an order that is still open may fill further.
* `DeskImplementsLedger`: under the same hypotheses `Spec => ImplementsLedger`, the refinement of `OrderLedger`. A
  `Post` that the venue accepts maps to placing, the save of a booking to booking, everything else to a stutter.
  `IntentShared` is what makes a save move the ledger by one order at most.

### Kalshi book (`KalshiBookProofs`)

* `TypeCorrect`: `Spec => []TypeOK`. Needs `SessionOK`: an engine that runs has a session, which is what makes the
  fills it takes fills.
* `NoFillForgotten`: under `Trusted` (keys tell fills apart, saves do not overlap, the exchange answers),
  `Spec => []PositionAccounted`, for any number of engines, markets, sessions and kills and both drivers. The
  invariant (`AccountInv`): keys are injective on the fills, and file, log and memories hold only fills (`KeysInv`);
  at most one engine is saving, its image holds everything unsettled of the file and of its memory, and what is only in a
  memory was filled by that session (`SavesInv`). The last part is what a kill needs: what it destroys died
  with the session that made it. That a save loses nothing rests on the injective keys, because the
  union is over keys; that `Replace` loses nothing rests on the image having been formed with nobody else saving.
* `OneLiveOrderPerMarket`: for one engine that is never killed and an exchange that answers, `Spec => []LiveOncePerMarket`, for both
  drivers. `BookInv` is about what is on the book, open or settled: a book takes a market once, a quote rests
  where its book has nothing, and file and temporary file are never ahead of memory and log, so that a load brings back
  nothing that would free a market.
* `SettledOnce`, `CashIsAccounted`: the same engine under the `run` driver settles no fill twice, and its cash is bankroll plus
  what the log says was won less what is tied up. `LedgerInv` is the part that the agent's driver breaks (finding 2): what is
  saved is what is in memory, so nothing settled is ever read back. The cash needs the sums over positions to move by one
  term with each action, which is what `SumTheorems` is for.

### Kalshi supervisor (`KalshiSupervisorProofs`)

* `OneEngineTrades`: if engines end with their loop and one check-in runs at a time, `Spec => []OneEngine`. `SoleLoop`: the one
  live loop is in the pid file as soon as it has begun, and a check-in about to start one knows there is none.
* `FillsReported`: `Spec => []NoFillUnreported`, with no hypothesis: check-ins may overlap, be cut off and run on a clone. `ReportInv`:
  what a check-in is about to mark it has written up before.

### Perps desk (`PerpsDeskProofs`)

* `TypeCorrect`: `Spec => []TypeOK`.
* `SwitchStopsOrders`: `Spec => []KillStopsOrders`. `KillInv` adds that no order was late before the switch was there, and that an order
  that waits to be sent is not yet late: the gate it passed was the last before the switch.
* `MismatchStays`: `Spec => MismatchSticks`, an action property. `MismatchInv`: while an engine runs over a
  file with a mismatch on record, its own book has it too and the tick is before its orders, so that no
  save can write another reason.
* `ExposureStaysBounded`: `Spec => []ExposureBounded`. `ExposureInv`: for the assets the tick has yet to order,
  the venue holds no more than the book; an order in hand is not among these, exits exactly when it is
  reduce-only, and with the book's position stays within the cap. A bracket only lowers the left side of the comparison.
* `TargetsAreDeliverable` (`Portfolio`, for any assets, bars, scores, volatility estimates and caps): `BooksDeliverable`. Clipping and
  scaling leave a book within both caps (`CapsHold`), and so do mixing two such books, tilting one and doing nothing; every family ends with one of these.
  That nothing is asked for that stopped quoting is `MaskIsCurrent`: the last day of the mask is today, so a signal drawn from it is zero where there is no fresh bar.
* `SignalsAreCausal` (`Signals`, for any families, windows, assets and days): `SignalsSound`. What a family says of day t reads bars up to t and
  labels up to t - 1 (`SamePast`), so neither a day more (`Append`) nor a label that comes late changes it (`TargetsSame`, `CloseSame`). Rules with a memory
  (breakout, ratio, Bollinger, crash filter) are sequences of holdings, compared by induction on the day (`HoldingIs`). The crash filter's count of flat days
  is how long it has been out (`FlatIsOut`), so a rest of the count is a rest in the decisions.

### Equity desk (`EquityDeskProofs`)

* `TypeCorrect`: `Spec => []TypeOK` for whole-number prices, money and shares (`NumberAssumption`).
* `BooksAreAccount`, `PlansArePaid`: where cash is reconciled with no proceeds outstanding, `Spec => []BooksMatchVenue` and
  `Spec => []BuysCovered`, for all symbols, prices, deposits and deaths. `DeskInv`: one fill at a time waits to be recorded; what is left to buy is
  at most the account's cash plus what is left to sell; a day has one plan, and after a buy on credit that plan has no sale left, which is why nothing bought on
  credit is sold. That `plan` leaves the budget uncut or cuts it enough is a fold over the buys in the order of their ranking, done by
  induction on the ranking. Without the hypothesis the first is false (finding 3).
* `SelectionIsSound` (`Selection`, for any menu, momenta, volatilities, slots and band): `SelectionSound`, for all eleven families. The best k of scores that differ are at most
  k (`BestAreFew`), so what is paid per slot fits; shares of a part come to no more than the part. `SelectionInv` adds that a rank keeps at most
  `TopN` names, without which incumbents in the band could fill more slots than there are. Two scores are assumed never to tie: on a tie the code takes them as its
  sort left them, which the model has not. A share is assumed not to round to none.

### Options desk (`OptionsDeskProofs`)

* `TypeCorrect`, `LossBounded` (at every spot, not only those of the quotes, the open positions of a book of version 2 lose at
  most the bankroll), and `BookSound`: `Spec => []OptionsBookSound`, for finite chains and any limits with a
  spread no wider than the bankroll. `OptionsInv`: a position is one contract bought or a spread sold for a credit of at most its width,
  which at no spot loses more than the risk it was entered with; positions have no contract in common, which keeps two of them two when
  they are marked alike; the risks together are within the bankroll, because each entry is judged with those of the same tick counted; a book of
  version 1 is as it was found until one of the two commands rewrites it.

### Commands, quoter, reports, replay and backtest (`CommandProofs`)

The module instantiates eleven components and proves one or two theorems of each.

* `ProtocolIsKept` (`Protocol`, finite sets of configurations): a verdict's count covers every trial before it, and nobody sees a
  holdout number that left no mark. The registry only grows and a tournament's count is of the union of its own runs with it
  (`ProtocolInv`); a judge that may show its number has written the marker.
* `OwnerIsKept` (`Owner`): a label in the config stands for settings that a release measured under it, and VERSION for migrations that were done or noted as missed.
  While an upgrade runs VERSION is ahead of what is done, so `MigrationInv` counts from the release it started at until the stamp, and keeps
  the config's step before the stamp.
* `QuotesAreAccounted` (`Quoter`, for a pass that stops when it can not read the resting orders): `QuotesAccounted`. `QuoterInv`: while
  reconciling nothing rests that was not read; legs still to be sent are apart from each other and from what rests, whatever fills or fails in
  between; the order to be sent is in the log.
* `WatchIsHeard` (`Watch`): `WatchTells`. `WatchInv`: the mark remembers exactly what was told, but for what a lost report swallowed.
* `GoIsWatched` (`Paper`): `GoIsMeasured`. The rows of a window are finitely many and each spans at most the cap, so their sum is bounded by
  the cap times their number (`SumBounded`); the verdict on file is that of the last tick (`PaperInv`).
* `LedgerIsExact`, `BrakesHoldOn` (`Backtest`, for any assets, bars, targets, caps and days): equity is the statement of account (`LedgerExact`),
  and the brakes hold at every step (`Braked`). The ledger is only inductive if no forced exit ever pays more than there is: `CanLeave`, a book
  that was not liquidated has more equity than the fee to leave all it holds. That in turn is what a day without liquidation gives: the equity at the day's
  worst point is above the maintenance margin there, the way from the worst point to the close gains at least what the margin grows, and
  `CostAssumption` says that the margin covers a day's funding and the fee. `KillDecides`: after the kill nothing is decided but to be flat.

* `ReplaysAreHonest` (`Replay`, for any markets, candles, fills, sizes and fair values): `ReplaysHonest`. `ReplayInv`: cash and what is spent on open
  trades add up to the bankroll and the profit booked; a trade just filled is not one of the open ones. The latter is what makes the sum over the open
  trades grow by exactly its cost. That the adverse fill model never fills what the queue model would not follows from the same need
  of contracts at the level and from the print being through the price, hence at it.
* `BetsStayApart`: the open trades of a replay are within the limit, one a market and one a side of a correlated group.
* `EdgesPay` (`Ladder`, for events that list a strike once, any quotes and ensembles): `LadderEdgesPay`. A fee rounded up once per order is
  never more than the one the scanners count per contract (`FeeOnce`); of two nested strikes the easier pays whenever the harder does; where
  exactly one leg pays the sum of what the legs pay is one contract (`SumOfTwoKinds`); and where legs exclude each other the first that matches a
  member is the one that holds.
* `FoldsAreHonest` (`Walk`, for any panels, edges, embargo and cost): `FoldsHonest`. The edges only grow (`Edges`); what is held at a bar, the net
  of a bar and the score of a window depend on no bar after them (`PositionKnown`, `NetKnown`, `WindowKnown`), not even for the strategy that looks at all
  it is given, since the history is cut at the fold's end; that the folds make one track is induction over the folds, each adding the bars between two edges.
* `EntriesAreSound` (`Entry`, for any snapshots and requotes): `EntriesSound`. Each of the sizes only takes what fits (`LotsFit`, `SizeWithin`, `SizeLockWithin`); a
  strategy that narrows its parameters before it sizes never raises the stake or lowers the minimum (`WithinMore`), which for the crypto books is a fact about the rows
  of the registry (`PriorsListed`, `OverlaysListed`, `ModelsListed`: all forty, one by one); and a favourite is bought at a price in its band, which for `desk_book` begins above
  what the cash-out rule calls dead (`FavoriteWithin`, `DeskWithin`). `strategy.decide` is left out as in the property: its cap has no fee in it.
* `LiveStaysBacktest` (`Coin`, for any prices, clock and windows): `LiveIsBacktest`. While no hour was lost from the cache its bars are the market's
  (the hours cached, in order, are all of them), so the live position and the backtest are functions of one sequence; the latches of the strategies
  are recursive functions over its bars (`FiniteRecursion`).
* `TargetsInRange`: every hour one target is decided, of none to four quarters of the book, whatever bars are missing.

### Sums (`SumTheorems`)

The library states induction over finite sets with an operator parameter, which the installed provers can not instantiate. It is proved here in first-order
form instead, from the well-foundedness of inclusion on finite sets, for properties given as a set: `SubsetInduction`, `NatSetInduction`. From it
follows what `SumFunctionOnSet` is when an element is added (`SumAdd`), removed or renamed, when functions are added or
bounded (`SumPlus`, `SumLess`, `SumBounded`), when its values are of one or two kinds
(`SumConstant`, `SumOfTwoKinds`), or the set split (`SumSplit`, `SumParts`). `FiniteRecursion` says the same of functions defined by recursion over `0 .. N`.

### What is only model-checked

* Of the parts of `MCParts`: `PaperLedger`, exact only where averages are (the instance keeps them so), and `PanelSound`, whose reduced factors are
  recursive over a history.
* Liveness (`IntentResolved`, `EventuallySettled`, `DivergenceNoticed`, `LoopReturns`), which needs ENABLED.
* That the hypotheses of the theorems are needed: `crypto_rerun`, `kalshi_agent` and `equity_reconcile` show it of re-runs, the agent's driver and the
  order of reconciliation. `parts` and `kalshi_live` show on an instance what the theorems say of all.

## 5. What is not modelled

* HTTP, signing, parsing of feeds: their outcomes are modelled, their bytes are not.
* Research sweeps and one-off studies: loops over the modelled replay with other parameters, which read logs and write tables.
* Metrics, bootstrap, dashboards, HTML and PDF reports, themes, the readiness check of setup: nothing the desks read at run time.
* Seeding: `scripts/seed_books.py` sells once by hand; `CryptoDesk` starts from its result.
* In the modelled desks: fractional quantities; the fees and quote feeds of the Kalshi book, and its demo leg; the venue's margin
  engine and the loss stops of the perps gate (free choices); the concentration cap, `init` and `status` of the equity desk;
  the `paper` command of the perps desk; delta, open interest and score of the options desk.
* In the research modules: the windows themselves (rolling means, volatilities, covariances, betas), whose values are inputs; the
  log-normal fair value of a Kalshi window; Sharpe ratios.

## 6. Plan

Done: the four desks, the supervisor, the options desk, the quoter and the shadow books; the panel, the configuration and the watch;
strategies, replays, backtests and the trial protocol; proofs of the safety of every desk, the refinement of the ledger, of the commands,
of the Kalshi strategies, replays and ladders, of the crypto strategies, of the sizing and the backtester of the perps, of the equity selection and of walk-forward. Left, most important first:

1. **Proofs** of further parts, in `CommandProofs` by INSTANCE. `PerpsPaper`: each funding time is paid once; that cash adds up needs averages
   kept exactly. `EquityPanel`: `PanelSound`, with IF chains in place of overlapping CASE guards.
2. **Perps leverage**: weights as contract counts, a third asset, the check with the weights of before the
   tick; property: the gross cap after a tick.
3. **Seeding**: a sale retried under a new id, over `CryptoDesk`'s venue.
4. **Composition**: `KalshiSupervisor` bounding `Load` and `Crash` of `KalshiBook`; `OwnerConfig` under a running `EquityDesk`.

## 7. Running

    tlc -workers 2 -config crypto_local.cfg MCCryptoDesk.tla
    tlapm CryptoDeskProofs.tla

Each run in `PROJECT.json` names its module and configuration and finishes within four minutes on two cores.
