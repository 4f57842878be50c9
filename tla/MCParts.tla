------------------------------- MODULE MCParts -------------------------------
(***************************************************************************)
(* The parts of the system that share no state with one another, checked   *)
(* side by side: a behaviour is a behaviour of one part, chosen at the     *)
(* start, on a small instance of it.  The variables of the part are kept   *)
(* in s1, s2, ..., as its instantiation says; the rest stay at 0.          *)
(***************************************************************************)
EXTENDS DeskInputs, StudyInputs

VARIABLES part, s1, s2, s3, s4, s5, s6, s7, s8, s9, s10, s11, s12, s13, s14
all == <<part, s1, s2, s3, s4, s5, s6, s7, s8, s9, s10, s11, s12, s13, s14>>

-----------------------------------------------------------------------------
(* The desks                                                               *)

Equity == INSTANCE EquityDesk WITH
    Symbols <- {"a", "b"}, Prices <- {1, 3}, MaxShares <- 2, InitCash <- 3, MinOrder <- 2,
    BandPercent <- 15, KillPercent <- 50, MaxDay <- 3, MaxDie <- 1, MaxDeposit <- 1,
    Reconciling <- "settled",
    today <- s1, price <- s2, books <- s3, kill <- s4, session <- s5, venue <- s6, deaths <- s7,
    gfv <- s8

ASSUME Equity!NumberAssumption /\ Equity!ReconcileAssumption

Options == INSTANCE OptionsDesk WITH
    Chain <- OptionChain, Quotes <- OptionQuotes, Bankroll <- 30, Width <- 20, Ticket <- 10,
    FeePerLeg <- 1, MaxOpen <- 2, MaxOpenTotal <- 3, Ends <- 5, MaxOptionDay <- 6,
    optionBook <- s1, optionDay <- s2

ASSUME Options!MarketAssumption /\ Options!LimitAssumption

Shadow == INSTANCE PerpsPaper WITH
    Assets <- {"btc"}, Prices <- {16, 24}, Rates <- {1}, Spread <- 4, FeePerLot <- 1,
    FreePerInterest <- 50, Cap <- 2, Bankroll <- 100, Kill <- 15, Every <- 2, MaxTime <- 3,
    market <- s1, history <- s2, tripped <- s3, stateFile <- s4, engine <- s5

Quoter == INSTANCE IncentiveQuoter WITH
    QuotedMarkets <- {"m1", "m2"}, References <- {<<1, 8>>, <<5, 3>>}, Capital <- 18,
    MaxMarkets <- 2, MaxPerMarket <- 12, ReadsFail <- FALSE, MaxQuoteDay <- 2, MaxPasses <- 2,
    resting <- s1, seen <- s2, quoteLog <- s3, quoteKill <- s4, pass <- s5, passes <- s6,
    quoteDay <- s7

ASSUME Quoter!QuoterAssumption

Paper == INSTANCE IncentivePaper WITH
    PaperMarkets <- {"m1", "m2"}, Slots <- 1, Rates <- {0, 1, 3}, MaxInterval <- 1, MinHours <- 4,
    StaleHours <- 2, Window <- 4, GoRate <- 2, BoardRate <- 1, MaxHour <- 6,
    hour <- s1, paper <- s2

ASSUME Paper!PaperAssumption

-----------------------------------------------------------------------------
(* What the desks read, and what their owner runs                          *)

Panel == INSTANCE EquityPanel WITH
    Symbols <- {"a", "b"}, Closes <- [a |-> {5, 7}, b |-> {5}], Ratios <- {2}, MaxMove <- 60,
    MinShared <- 2, Seeded <- 2, MaxSession <- 4,
    tape <- s1, cuts <- s2, trading <- s3, panel <- s4, job <- s5

Owner == INSTANCE OwnerConfig WITH
    MaxRelease <- 3, Profiles <- {"steady", "bold"}, Shipped <- ShippedBlocks, Migrating <- {2},
    Tuned <- {Block("refined", [window |-> 90, top |-> 1])},
    Bankrolls <- {900}, MaxDies <- 1,
    upstream <- s1, clone <- s2, config <- s3, book <- s4, command <- s5, dies <- s6

ASSUME Owner!ReleaseAssumption

Watch == INSTANCE PerpsWatch WITH
    Assets <- {"btc", "eth"}, Metals <- {"xau"}, Coins <- {"ton"}, Readings <- FundingReadings,
    MinIntervals <- 30, Half <- 50, ShareMove <- 15, CarryMove <- 5, MaxWeek <- 3,
    listed <- s1, funding <- s2, mark <- s3, told <- s4, report <- s5, week <- s6

ASSUME Watch!WatchAssumption

-----------------------------------------------------------------------------
(* What the Kalshi desk decides with, and what it was studied with         *)

Kalshi == INSTANCE KalshiStrategies WITH
    Snapshots <- WindowSnapshots, Requotes <- WindowRequotes,
    m <- s1

ASSUME Kalshi!StrategyAssumption

Replay == INSTANCE KalshiReplay WITH
    Windows <- ReplayWindows, Candles <- ReplayCandles, FillMode <- "lag", OrderSizes <- {2, 5},
    MinCount <- 2, MinRecent <- 3, MaxOpenTrades <- 2, StopPercent <- 10, Slippage <- 1,
    Fairs <- {40, 66, 70}, Bankroll0 <- 500, DayLength <- 8, LastMinute <- 13,
    leg <- s1, minute <- s2, candle <- s3, todo <- s4, cash <- s5, trades <- s6, pnl <- s7,
    day <- s8, quote <- s9, done <- s10

ASSUME Replay!ReplayAssumption

Ladder == INSTANCE KalshiLadder WITH
    Events <- LadderEvents, Ladders <- LadderQuotes, Ensembles <- LadderEnsembles,
    Prints <- 67 .. 72,
    event <- s1, quotes <- s2, members <- s3, print <- s4

ASSUME Ladder!LadderAssumption

-----------------------------------------------------------------------------
(* The perps, crypto and equity research                                   *)

Backtest == INSTANCE PerpsBacktest WITH
    Assets <- {"btc", "gold"}, Crypto <- {"btc"}, NewBars <- BacktestBars, Asked <- BacktestAsked,
    Rates <- {1}, MaxDay <- 3, Bankroll <- 100, Band <- 8, Every <- 2, MaxGross <- 200,
    MaxAsset <- 150, Distance <- 35, Maint <- [btc |-> 20, gold |-> 10],
    Side <- [btc |-> 2, gold |-> 2], Penalty <- 2, Apy <- 1, Soft <- 10, Kill <- 20, MaxStale <- 1,
    FirstPrice <- 10,
    day <- s1, bar <- s2, age <- s3, fresh <- s4, equity <- s5, units <- s6, pending <- s7,
    peak <- s8, killed <- s9, killPending <- s10, liquidated <- s11, cash <- s12, slipped <- s13,
    ended <- s14

ASSUME Backtest!PanelAssumption /\ Backtest!LimitAssumption /\ Backtest!CostAssumption

Protocol == INSTANCE TrialProtocol WITH
    Strategies <- {"trend", "carry"}, Points <- {"p1", "p2"},
    Declared <- {"trend", "carry"} \X {"p1", "p2"}, MaxCommands <- 3,
    registry <- s1, marker <- s2, contest <- s3, judge <- s4, verdicts <- s5, opened <- s6,
    commands <- s7

ASSUME Protocol!ProtocolAssumption

Walk == INSTANCE WalkForward WITH
    Bars <- 8, Returns <- {-2, 1}, Folds <- 2, Warmup <- 3, MinFold <- 2, Embargo <- 1, Cost <- 1,
    kind <- s1, rule <- s2, ours <- s3, theirs <- s4, agree <- s5, fold <- s6, scores <- s7

ASSUME Walk!WalkAssumption

Signals == INSTANCE PerpsSignals WITH
    Assets <- {"btc", "gold"}, Metals <- {"gold"},
    Families <- {"tsmom", "ma_trend", "breakout", "trend_long_only", "gold_silver_ratio",
                 "crash_filter_beta", "rs_weekly_reversal", "rs_weekend_half", "rs_turn_of_month",
                 "rs_bollinger_mr", "basis_crowding", "macro_gold", "vrp_options"},
    NewDays <- SignalDays, MaxDay <- 5, Short <- 2, Long <- 3, MinFlat <- 2, MonthDays <- 10,
    family <- s1, hist <- s2, decided <- s3

ASSUME Signals!SignalAssumption

Portfolios == INSTANCE PerpsPortfolios WITH
    Crypto <- Coins, Metals <- {"gold"}, Quoted <- Coins \cup {"gold"},
    Families <- {"hold", "breadth", "live", "dual", "top", "ls", "rank", "residual", "core_sleeve",
                 "fixed", "gate", "gate_inv", "riskparity", "carry"},
    NewDays <- PortfolioDays, MaxDay <- 4, MaxStale <- 1, Window <- 1, MinObs <- 1, K <- 1,
    Tranches <- 2, One <- 100, Step <- 5, MaxGross <- 150, MaxAsset <- 75, MaxScale <- 3, Hurdle <- 1,
    family <- s1, day <- s2, age <- s3, avail <- s4, books <- s5, share <- s6, weights <- s7

ASSUME Portfolios!PortfolioAssumption

Coin == INSTANCE CryptoSignals WITH
    Families <- {"ma_cross", "donchian", "tsmom", "vol_target_hold", "trend_vol_composite",
                 "breakout_hold", "composite_ensemble", "vol_regime", "drawdown_filter", "slow_trend"},
    Prices <- {5, 6, 8}, MaxHour <- 5, HoursPerDay <- 2, Recent <- 3, Fast <- 1, Slow <- 2,
    MinHold <- 2, Cooldown <- 1, TargetVol <- 2,
    family <- s1, market <- s2, cached <- s3, gapped <- s4, decided <- s5

ASSUME Coin!CoinAssumption

Selection == INSTANCE EquitySelection WITH
    Menu <- Names, Safe <- {"ief", "gld"}, Core <- "spy", Haven <- "ief",
    Families <- {"refined", "residmom", "lowvol", "canary", "etf", "sector", "hybrid", "allweather",
                 "haa", "calendar", "baseline"},
    NewDays <- SelectionDays, MaxDate <- SelectionDates, TopN <- 2, Band <- 3, DefK <- 1, One <- 60,
    family <- s1, date <- s2, held <- s3, row <- s4, live <- s5, seeds <- s6, target <- s7, seen <- s8

ASSUME Selection!SelectionAssumption

-----------------------------------------------------------------------------
\* The variables after the first n are not in use.
Unused(n) ==
    /\ (n < 2 => s2 = 0) /\ (n < 3 => s3 = 0) /\ (n < 4 => s4 = 0) /\ (n < 5 => s5 = 0)
    /\ (n < 6 => s6 = 0) /\ (n < 7 => s7 = 0) /\ (n < 8 => s8 = 0) /\ (n < 9 => s9 = 0)
    /\ (n < 10 => s10 = 0) /\ (n < 11 => s11 = 0) /\ (n < 12 => s12 = 0) /\ (n < 13 => s13 = 0)
    /\ (n < 14 => s14 = 0)

Is(p, n) == part = p /\ Unused(n)

Init ==
    \/ Is("equity", 8) /\ Equity!Init
    \/ Is("options", 2) /\ Options!Init
    \/ Is("shadow", 5) /\ Shadow!Init
    \/ Is("quoter", 7) /\ Quoter!Init
    \/ Is("paper", 2) /\ Paper!Init
    \/ Is("panel", 5) /\ Panel!Init
    \/ Is("owner", 6) /\ Owner!Init
    \/ Is("watch", 6) /\ Watch!Init
    \/ Is("strategies", 1) /\ Kalshi!Init
    \/ Is("replay", 10) /\ Replay!Init
    \/ Is("ladder", 4) /\ Ladder!Init
    \/ Is("backtest", 14) /\ Backtest!Init
    \/ Is("protocol", 7) /\ Protocol!Init
    \/ Is("walk", 7) /\ Walk!Init
    \/ Is("signals", 3) /\ Signals!Init
    \/ Is("portfolios", 7) /\ Portfolios!Init
    \/ Is("crypto", 5) /\ Coin!Init
    \/ Is("selection", 8) /\ Selection!Init

\* They stay as they are.
Still(n) ==
    /\ (n < 2 => s2' = 0) /\ (n < 3 => s3' = 0) /\ (n < 4 => s4' = 0) /\ (n < 5 => s5' = 0)
    /\ (n < 6 => s6' = 0) /\ (n < 7 => s7' = 0) /\ (n < 8 => s8' = 0) /\ (n < 9 => s9' = 0)
    /\ (n < 10 => s10' = 0) /\ (n < 11 => s11' = 0) /\ (n < 12 => s12' = 0) /\ (n < 13 => s13' = 0)
    /\ (n < 14 => s14' = 0)

Goes(p, n) == part = p /\ part' = part /\ Still(n)

Next ==
    \/ Goes("equity", 8) /\ Equity!Next
    \/ Goes("options", 2) /\ Options!Next
    \/ Goes("shadow", 5) /\ Shadow!Next
    \/ Goes("quoter", 7) /\ Quoter!Next
    \/ Goes("paper", 2) /\ Paper!Next
    \/ Goes("panel", 5) /\ Panel!Next
    \/ Goes("owner", 6) /\ Owner!Next
    \/ Goes("watch", 6) /\ Watch!Next
    \/ Goes("strategies", 1) /\ Kalshi!Next
    \/ Goes("replay", 10) /\ Replay!Next
    \/ Goes("ladder", 4) /\ Ladder!Next
    \/ Goes("backtest", 14) /\ Backtest!Next
    \/ Goes("protocol", 7) /\ Protocol!Next
    \/ Goes("walk", 7) /\ Walk!Next
    \/ Goes("signals", 3) /\ Signals!Next
    \/ Goes("portfolios", 7) /\ Portfolios!Next
    \/ Goes("crypto", 5) /\ Coin!Next
    \/ Goes("selection", 8) /\ Selection!Next

Spec == Init /\ [][Next]_all

-----------------------------------------------------------------------------
(* The properties of the parts, each under its name.                       *)

BooksMatchVenue == part = "equity" => Equity!BooksMatchVenue
BuysCovered == part = "equity" => Equity!BuysCovered
OptionsBookSound == part = "options" => Options!OptionsBookSound
PaperLedger == part = "shadow" => Shadow!PaperLedger
QuotesAccounted == part = "quoter" => Quoter!QuotesAccounted
GoIsMeasured == part = "paper" => Paper!GoIsMeasured
PanelSound == [][part = "panel" => Panel!PanelSound]_all
OwnerKept == part = "owner" => Owner!OwnerKept
WatchTells == part = "watch" => Watch!WatchTells
EntriesSound == part = "strategies" => Kalshi!EntriesSound
ReplaysHonest == part = "replay" => Replay!ReplaysHonest
LadderEdgesPay == part = "ladder" => Ladder!LadderEdgesPay
LedgerExact == part = "backtest" => Backtest!LedgerExact
BrakesHold == [][part = "backtest" => Backtest!Braked]_all
ProtocolKept == part = "protocol" => Protocol!ProtocolKept
FoldsHonest == part = "walk" => Walk!FoldsHonest
SignalsSound == part = "signals" => Signals!SignalsSound
BooksDeliverable == part = "portfolios" => Portfolios!BooksDeliverable
DollarNeutral == part = "portfolios" => Portfolios!DollarNeutral
LiveIsBacktest == part = "crypto" => Coin!LiveIsBacktest
SelectionSound == part = "selection" => Selection!SelectionSound
=============================================================================
