---------------------------- MODULE KalshiReplay ----------------------------
(***************************************************************************)
(* The two replays over harvested one-minute candles: the taker backtest   *)
(* (quantfirm/kalshi/backtest.py) over several markets, and the maker      *)
(* backtest (maker.py) of one window.  A replay is one or the other.       *)
(*                                                                         *)
(* Money and prices are cents.  A candle is what a minute brings: its      *)
(* quotes at the open and the close, the worst of them for a buyer, the    *)
(* traded range, its volume and that of the last three minutes.  What a    *)
(* strategy wants, and what the model says, is any of the values given.    *)
(***************************************************************************)
EXTENDS Integers, FiniteSets, FiniteSetsExt, Functions

CONSTANTS
    Windows,        \* market -> [open, close, group], minutes
    Candles,        \* candles a minute may have
    FillMode,       \* "lag" or "touch"
    OrderSizes,     \* lots a strategy may want
    MinCount, MinRecent, MaxOpenTrades, StopPercent, Slippage,
    Fairs,          \* model probabilities a minute may have
    Bankroll0, DayLength,
    LastMinute

VARIABLES
    leg,       \* "taker" or "maker"
    minute,    \* the replayed minute
    candle,    \* market -> its candle at that minute
    todo,      \* taker: markets whose decision of the minute is to come; maker: its market
    cash,
    trades,    \* open_pos
    pnl,       \* realised, of all days
    day,       \* [number, pnl, start]: the day, its realised P&L and its opening equity
    quote,     \* the maker's resting quote, with the volume printed at it
    done       \* fill modes whose replay of the window has ended with a fill

ReplayAssumption ==
    /\ \A m \in DOMAIN Windows : Windows[m].open \in Int /\ Windows[m].close \in Int
    /\ Candles \subseteq [bid : Int, ask : Int, bidOpen : Int, askOpen : Int, bidLow : Int,
                         askHigh : Int, low : Int, high : Int, volume : Nat, recent : Nat]
    /\ OrderSizes \subseteq Nat /\ Fairs \subseteq Int
    /\ {MaxOpenTrades, MinCount, Slippage, Bankroll0} \subseteq Nat /\ DayLength \in Nat \ {0}

takerVars == <<cash, trades, pnl, day>>
makerVars == <<quote, done>>
replayVars == <<leg, minute, candle, todo, takerVars, makerVars>>

Markets == DOMAIN Windows
Missing == [volume |-> -1]          \* no candle for that minute
SettleLag == 5
NoQuote == [side |-> "none"]
Modes == {"through", "queue", "adverse"}

CeilDiv(a, b) == (a + b - 1) \div b
TakerFee(n, price) == CeilDiv(7 * n * price * (100 - price), 10000)
Cost(t) == t.count * t.price
Invested(ts) == SumFunction([t \in ts |-> Cost(t)])
Spent(ts) == SumFunction([t \in ts |-> Cost(t) + t.fee])
Deciding(t) == {m \in Markets : t > Windows[m].open /\ t < Windows[m].close}
Live(c) == c # Missing /\ (c.bid > 0 \/ c.ask < 100)

-----------------------------------------------------------------------------
(* The taker backtest *)

\* The price of a side: the YES ask, or a dollar less the YES bid.
Price(side, bid, ask) == IF side = "yes" THEN ask ELSE 100 - bid

\* What the next candle makes of a limit order: no fill is 0.  A level that was
\* breached during the minute was raced by somebody faster.
FillPrice(side, limit, next) ==
    LET worst == Price(side, next.bidLow, next.askHigh)
        open == Price(side, next.bidOpen, next.askOpen)
        close == Price(side, next.bid, next.ask)
    IN CASE next # Missing /\ FillMode = "lag" /\ worst <= limit /\ close <= limit -> close + Slippage
         [] next # Missing /\ FillMode = "touch" /\ open <= limit -> Min({open, limit}) + Slippage
         [] OTHER -> 0

\* In "lag" the recent volume stands for the depth.
FillCount(n, recent) ==
    IF FillMode = "touch" THEN n ELSE IF recent < MinCount THEN 0 ELSE Min({n, recent})

BlockedByCorr(m, side) ==
    \E t \in trades : Windows[t.market].group = Windows[m].group /\ t.side = side

Book(t) == cash' = cash - t.count * t.price - t.fee /\ trades' = trades \cup {t}

\* One decision event: the guards before the strategy, its order, the gates
\* after it and the fill.
Enter(m, side, n, next) ==
    LET limit == Price(side, candle[m].bid, candle[m].ask)
        price == FillPrice(side, limit, next)
        count == FillCount(n, candle[m].recent)
        fee == TakerFee(count, price)
    IN /\ price > 0 /\ count > 0
       /\ count * price + fee <= cash
       /\ Book([market |-> m, side |-> side, count |-> count, price |-> price, fee |-> fee])

\* The day's opening equity is taken at its first decision that gets that far.
DayStart == IF day.start = -1 THEN [day EXCEPT !.start = cash + Invested(trades)] ELSE day

Decide(m) ==
    /\ leg = "taker" /\ m \in todo
    /\ \E next \in Candles \cup {Missing} :
          /\ candle' = [candle EXCEPT ![m] = next]
          /\ todo' = todo \ {m}
          /\ LET reached == (\A t \in trades : t.market # m) /\ Cardinality(trades) < MaxOpenTrades
             IN /\ day' = IF reached THEN DayStart ELSE day
                /\ \/ UNCHANGED <<cash, trades>>
                   \/ /\ reached /\ Live(candle[m])
                      /\ 100 * day'.pnl > -StopPercent * day'.start
                      /\ \E side \in {"yes", "no"}, n \in OrderSizes :
                            ~BlockedByCorr(m, side) /\ Enter(m, side, n, next)
    /\ UNCHANGED <<leg, minute, pnl, makerVars>>

\* What a settled trade pays and what it made.
Payout(t, win) == [cash |-> IF win THEN 100 * t.count ELSE 0,
                   pnl |-> (IF win THEN 100 * t.count ELSE 0) - Cost(t) - t.fee]

\* The settle event, some minutes after the close.
Settle ==
    /\ leg = "taker" /\ todo = {}
    /\ \E t \in trades, win \in BOOLEAN :
          /\ minute >= Windows[t.market].close + SettleLag
          /\ trades' = trades \ {t}
          /\ LET paid == Payout(t, win) IN
                /\ cash' = cash + paid.cash
                /\ pnl' = pnl + paid.pnl
                /\ day' = [day EXCEPT !.pnl = @ + paid.pnl]
    /\ UNCHANGED <<leg, minute, candle, todo, makerVars>>

\* The events of the minute are over.
NextMinute ==
    /\ leg = "taker" /\ minute < LastMinute /\ todo = {}
    /\ \A t \in trades : minute < Windows[t.market].close + SettleLag
    /\ minute' = minute + 1
    /\ todo' = Deciding(minute')
    /\ day' = IF minute' \div DayLength = day.number THEN day
              ELSE [number |-> minute' \div DayLength, pnl |-> 0, start |-> -1]
    /\ UNCHANGED <<leg, candle, cash, trades, pnl, makerVars>>

-----------------------------------------------------------------------------
(* The maker backtest: margin 4, favourites from 55, fade 2, prices 35 to 90 *)

\* A bid under fair, at most a cent over the touch, never at the other side.
MakeQuote(side, fair, touch, other) ==
    LET bold == Min({fair - 4, touch + 1})
        price == IF bold >= other THEN other - 1 ELSE bold
    IN IF price < 35 \/ price > 90 \/ fair - price < 4 THEN NoQuote
       ELSE [side |-> side, price |-> price, fair |-> fair, volume |-> 0]

Quote(fair, c) ==
    CASE c.recent >= MinRecent /\ fair >= 55 -> MakeQuote("yes", fair, c.bid, c.ask)
      [] c.recent >= MinRecent /\ fair <= 45 -> MakeQuote("no", 100 - fair, 100 - c.ask, 100 - c.bid)
      [] OTHER -> NoQuote

\* Prints at the quote's level, and prints beyond it.
Touched(q, c) == c.volume > 0 /\ IF q.side = "yes" THEN c.low <= q.price ELSE c.high >= 100 - q.price
Through(q, c) == c.volume > 0 /\ IF q.side = "yes" THEN c.low < q.price ELSE c.high > 100 - q.price
Printed(q, c) == IF Touched(q, c) THEN q.volume + c.volume ELSE q.volume
Need == 3 * MinCount

\* An adverse fill for which the queue ahead does not have to clear.
FilledInEager(mode, q, c) ==
    CASE mode = "through" -> Through(q, c)
      [] mode = "queue" -> Touched(q, c) /\ Printed(q, c) >= Need
      [] mode = "adverse" -> Through(q, c) /\ Printed(q, c) >= MinCount

FilledIn(mode, q, c) ==
    CASE mode = "through" -> Through(q, c)
      [] mode = "queue" -> Touched(q, c) /\ Printed(q, c) >= Need
      [] mode = "adverse" -> Through(q, c) /\ Printed(q, c) >= Need

\* What fair may be: the model's, or in the control replay the book's own middle.
Opinions(c) == IF Live(c) THEN Fairs \cup {(c.bid + c.ask) \div 2} ELSE Fairs

\* A minute of the window, for the modes that have not filled yet: a quote is
\* posted, cancelled because fair moved against it or time is short, or tested.
MakerMinute(m, c, fair) ==
    LET tau == Windows[m].close - minute'
        own == IF quote.side = "yes" THEN fair ELSE 100 - fair
        keep == own >= quote.fair - 2 /\ tau >= 3
    IN /\ leg = "maker" /\ m \in todo /\ done # Modes
       /\ minute' = minute + 1 /\ tau > 0
       /\ candle' = [candle EXCEPT ![m] = c]
       /\ \/ ~Live(c) /\ UNCHANGED makerVars
          \/ Live(c) /\ quote = NoQuote /\ UNCHANGED done
             /\ quote' = IF tau \in 3 .. 11 THEN Quote(fair, c) ELSE NoQuote
          \/ Live(c) /\ quote # NoQuote /\ ~keep /\ quote' = NoQuote /\ UNCHANGED done
          \/ /\ Live(c) /\ quote # NoQuote /\ keep
             /\ quote' = [quote EXCEPT !.volume = Printed(quote, c)]
             /\ done' = done \cup {mode \in Modes : FilledIn(mode, quote, c)}
       /\ UNCHANGED <<leg, todo, takerVars>>

-----------------------------------------------------------------------------
Init ==
    /\ \/ leg = "taker" /\ minute = 0 /\ todo = {}
       \/ leg = "maker" /\ \E m \in Markets : minute = Windows[m].open /\ todo = {m}
    /\ candle \in [Markets -> Candles]
    /\ cash = Bankroll0 /\ trades = {} /\ pnl = 0
    /\ day = [number |-> 0, pnl |-> 0, start |-> -1]
    /\ quote = NoQuote /\ done = {}

Next ==
    \/ (\E m \in Markets : Decide(m)) \/ Settle \/ NextMinute
    \/ \E m \in Markets, c \in Candles \cup {Missing} : \E fair \in Opinions(c) : MakerMinute(m, c, fair)

Spec == Init /\ [][Next]_replayVars

-----------------------------------------------------------------------------
(* Properties *)

\* The reported net P&L is what happened to the cash: every fill, fee, slippage
\* and settlement, whatever day and order they come in.
ReportedPnlIsCash ==
    cash + Spent(trades) = Bankroll0 + pnl /\ cash >= 0

\* "adverse" is a lower bound of "queue" (maker.py): the replay that waits for
\* the queue and for prints beyond its level never fills a window which the
\* queue replay left unfilled, through cancels and new quotes.
AdverseIsLowerBound == "adverse" \in done => "queue" \in done

\* What a replay reports can be relied on as it is read.
ReplaysHonest == ReportedPnlIsCash /\ AdverseIsLowerBound

\* One open trade a market, one side of a group bet once: a second fill of a
\* market would be lost among the open positions.
BetsApart ==
    \A t, u \in trades :
        t.market = u.market \/ (Windows[t.market].group = Windows[u.market].group /\ t.side = u.side)
            => t = u

\* The inductive invariant.
ReplayInv ==
    /\ ReplaysHonest /\ BetsApart
    /\ Cardinality(trades) <= MaxOpenTrades

Trade == [market : Markets, side : {"yes", "no"}, count : Nat, price : Int, fee : Int]
RestingQuote == [side : {"yes", "no"}, price : Int, fair : Int, volume : Int]

TypeOK ==
    /\ leg \in {"taker", "maker"} /\ minute \in Int /\ todo \in SUBSET Markets
    /\ candle \in [Markets -> Candles \cup {Missing}]
    /\ cash \in Int /\ pnl \in Int /\ day \in [number : Int, pnl : Int, start : Int]
    /\ trades \in SUBSET Trade /\ IsFiniteSet(trades)
    /\ quote \in {NoQuote} \cup RestingQuote /\ done \in SUBSET Modes
=============================================================================
