---------------------------- MODULE CryptoSignals ----------------------------
(***************************************************************************)
(* What the crypto strategies see and hold (quantfirm/strategies, data.py, *)
(* live/engine.py build_candles, scripts/update_data.py).  A strategy keeps*)
(* no state between runs: every hour the desk replays it over the cached   *)
(* history merged with the recent bars of Kraken, and takes the last value.*)
(* A day is HoursPerDay bars; positions are in quarters, 4 is fully long;  *)
(* a closing price is a small integer and volatility its range.            *)
(***************************************************************************)
EXTENDS Integers, Sequences, FiniteSets, FiniteSetsExt

CONSTANTS
    Families, Prices,
    MaxHour,            \* bound: hours
    HoursPerDay, Recent,\* Kraken serves the last Recent bars
    Fast, Slow,         \* the windows of the strategies, in bars
    MinHold, Cooldown, TargetVol

VARIABLES
    family,
    market,             \* the closes, one an hour
    cached,             \* the hours the repository's file holds
    gapped,             \* whether a run has seen a hole in its bars
    decided             \* the target of every hourly run
CoinAssumption ==
    /\ Prices \subseteq Int /\ TargetVol \in Nat
    /\ {Slow, Fast, Recent} \subseteq Nat \ {0} /\ MinHold \in Nat

vars == <<family, market, cached, gapped, decided>>

Highest(S) == CHOOSE x \in S : \A y \in S : y <= x
Lowest(S) == CHOOSE x \in S : \A y \in S : x <= y
Clip(x, lo, hi) == IF x < lo THEN lo ELSE IF x > hi THEN hi ELSE x
Closes(s, lo, hi) == {s[i] : i \in lo .. hi}
MeanTimes(s, i, w) == MapThenSumSet(LAMBDA j : s[j], i - w + 1 .. i)     \* w times the mean
Swing(s, i, w) == Highest(Closes(s, i - w + 1, i)) - Lowest(Closes(s, i - w + 1, i)) + 1
\* A channel of the w bars before i, and whether there are as many.
Upper(s, i, w) == Highest(Closes(s, i - w, i - 1))
Lower(s, i, w) == Lowest(Closes(s, i - w, i - 1))
Up(s, i, w) == i > w /\ s[i] >= Upper(s, i, w)
Down(s, i, w) == i > w /\ s[i] <= Lower(s, i, w)
Rising(s, i, w) == i > w /\ s[i] > s[i - w]
Falling(s, i, w) == i > w /\ s[i] < s[i - w]
Above(s, i) == i >= Slow /\ MeanTimes(s, i, Fast) * Slow > MeanTimes(s, i, Slow) * Fast
Below(s, i) == i >= Slow /\ MeanTimes(s, i, Fast) * Slow < MeanTimes(s, i, Slow) * Fast
\* The target over the volatility, to the nearest quarter.
Quarters(s, i, w) == Clip((8 * TargetVol + Swing(s, i, w)) \div (2 * Swing(s, i, w)), 0, 4)

-----------------------------------------------------------------------------
(* The strategies: the position after the last bar of s.                    *)

\* baselines: a state that one condition sets and another clears.
Latch(on, off) ==
    LET p[i \in 0 .. Len(on)] == IF i = 0 THEN 0 ELSE IF on[i] THEN 4 ELSE IF off[i] THEN 0 ELSE p[i - 1]
    IN  p
Undefined == -1         \* not a number: the window is not full
MaCross(s) == IF Above(s, Len(s)) THEN 4 ELSE 0
BreakState(s) == Latch([i \in DOMAIN s |-> Up(s, i, Slow)], [i \in DOMAIN s |-> Down(s, i, Fast)])
Donchian(s) == BreakState(s)[Len(s)]
Tsmom(s) == Latch([i \in DOMAIN s |-> Rising(s, i, Slow)], [i \in DOMAIN s |-> Falling(s, i, Slow)])[Len(s)]
VolHold(s) == IF Len(s) <= Slow THEN Undefined ELSE Quarters(s, Len(s), Slow)
TrendVol(s) == IF MaCross(s) = 4 \/ VolHold(s) = Undefined THEN VolHold(s) ELSE 0

\* breakout_hold: in on a new high after the cooldown, never out before
\* MinHold bars, then out under the trailing stop or the floor.
MayLeave(held) == held >= MinHold
BreakoutHold(s) ==
    LET p[i \in 0 .. Len(s)] ==
            IF i = 0 THEN [in |-> FALSE, held |-> 0, top |-> 0, out |-> -Cooldown - 1]
            ELSE LET q == p[i - 1]
                     top == IF s[i] > q.top THEN s[i] ELSE q.top
                     stop == i > Fast /\ s[i] < top - Swing(s, i, Fast)
                     floor == i > Slow /\ s[i] < Lower(s, i, Slow)
                 IN  IF q.in
                     THEN IF MayLeave(q.held + 1) /\ (stop \/ floor)
                          THEN [in |-> FALSE, held |-> q.held + 1, top |-> top, out |-> i]
                          ELSE [q EXCEPT !.held = @ + 1, !.top = top]
                     ELSE IF Up(s, i, Slow) /\ i - q.out > Cooldown
                          THEN [in |-> TRUE, held |-> 0, top |-> s[i], out |-> q.out] ELSE q
    IN  IF p[Len(s)].in THEN 4 ELSE 0

\* A ladder: down at once on a small band, up on a larger one and late.
Ladder(score) ==
    LET p[i \in 0 .. Len(score)] ==
            IF i = 0 THEN [at |-> 0, since |-> -MinHold]
            ELSE LET q == p[i - 1]
                     x == score[i]
                 IN  IF x < q.at THEN [at |-> x, since |-> i]
                     ELSE IF x > q.at + 1 /\ i - q.since >= MinHold THEN [at |-> x, since |-> i] ELSE q
    IN  p[Len(score)].at

\* composite_ensemble: trend, momentum and breakout vote, the volatility scales.
Vote(s, i) ==
    LET t == SubSeq(s, 1, i)
        trend == Latch([j \in DOMAIN t |-> Above(t, j)], [j \in DOMAIN t |-> Below(t, j)])[i]
    IN  (trend + Tsmom(t) + BreakState(t)[i]) \div 3
Composite(s) ==
    Ladder([i \in DOMAIN s |-> IF i <= Slow THEN 0 ELSE (Vote(s, i) * Quarters(s, i, Slow)) \div 4])

\* vol_regime: the volatility alone, halved while it expands.
Expanding(s, i) == Swing(s, i, Fast) = Swing(s, i, Slow) /\ Swing(s, i, Fast) > TargetVol
VolRegime(s) ==
    Ladder([i \in DOMAIN s |-> IF i <= Slow THEN 0
                               ELSE Quarters(s, i, Slow) \div (IF Expanding(s, i) THEN 2 ELSE 1)])

\* drawdown_filter: long until a crash, back after a rest when it has healed.
DrawdownFilter(s) ==
    LET peak(i) == Highest(Closes(s, Clip(i - Slow + 1, 1, i), i))
        crash(i) == 10 * s[i] <= 7 * peak(i)
        healed(i) == 20 * s[i] >= 19 * peak(i) /\ i > Fast /\ s[i] >= s[i - Fast]
        p[i \in 0 .. Len(s)] ==
            IF i = 0 THEN [in |-> TRUE, flat |-> 0]
            ELSE IF p[i - 1].in THEN [in |-> ~crash(i), flat |-> 0]
            ELSE LET d == p[i - 1].flat + 1
                 IN  [in |-> d >= MinHold /\ healed(i) /\ ~crash(i), flat |-> d]
    IN  IF p[Len(s)].in THEN 4 ELSE 0

\* slow_trend: in when the averages and the slope agree for Fast bars.
SlowTrend(s) ==
    LET enter(i) == Above(s, i) /\ i > Slow + Fast /\ MeanTimes(s, i, Slow) > MeanTimes(s, i - Fast, Slow)
        p[i \in 0 .. Len(s)] ==
            IF i = 0 THEN [in |-> FALSE, held |-> 0]
            ELSE LET q == p[i - 1]
                 IN  IF q.in THEN IF Below(s, i) /\ MayLeave(q.held + 1)
                                  THEN [in |-> FALSE, held |-> 0] ELSE [q EXCEPT !.held = @ + 1]
                     ELSE [in |-> ~Below(s, i) /\ \A j \in i - Fast + 1 .. i : j >= 1 /\ enter(j), held |-> 0]
    IN  IF p[Len(s)].in THEN IF VolHold(s) = Undefined THEN 4 ELSE Clip(VolHold(s), 1, 4) ELSE 0

Position(s) ==
    CASE family = "ma_cross"            -> MaCross(s)
      [] family = "donchian"            -> Donchian(s)
      [] family = "tsmom"               -> Tsmom(s)
      [] family = "vol_target_hold"     -> VolHold(s)
      [] family = "trend_vol_composite" -> TrendVol(s)
      [] family = "breakout_hold"       -> BreakoutHold(s)
      [] family = "composite_ensemble"  -> Composite(s)
      [] family = "vol_regime"          -> VolRegime(s)
      [] family = "drawdown_filter"     -> DrawdownFilter(s)
      [] OTHER                          -> SlowTrend(s)

\* The desk clamps the position to [0, 1]; what is not a number becomes 1.
Target(x) == IF x = Undefined THEN 4 ELSE x

-----------------------------------------------------------------------------
(* The bars                                                                 *)

Now == Len(market)
LastOf(now) == Clip(now - Recent + 1, 1, now) .. now     \* fetch_kraken_recent
\* build_candles: the cache and the recent bars, in order, one for each hour.
MergedRecent(now) == LastOf(now)                          \* mutant: no history
Merged(now) == cached \cup LastOf(now)
Bars(m) == LET h == Merged(Len(m))
           IN  [i \in 1 .. Cardinality(h) |->
                   m[CHOOSE t \in h : Cardinality({u \in h : u <= t}) = i]]

\* update_data: the daily dumps from the day of the last bar on, those that are
\* out, and Kraken's recent bars unless it fails.
DayOf(t) == (t - 1) \div HoursPerDay
DumpsFrom(last) == {t \in 1 .. Now : DayOf(last) <= DayOf(t) /\ DayOf(t) < DayOf(Now)}
Refresh(late, up) ==
    /\ Now > 0
    /\ LET last == IF cached = {} THEN 1 ELSE Highest(cached)
           dumps == {t \in DumpsFrom(last) : DayOf(t) \notin late}
       IN  cached' = cached \cup dumps \cup (IF up THEN LastOf(Now) ELSE {})
    /\ cached' # cached
    /\ UNCHANGED <<family, market, gapped, decided>>

-----------------------------------------------------------------------------

Init ==
    /\ family \in Families
    /\ market = <<>>
    /\ cached = {}
    /\ gapped = FALSE
    /\ decided = <<>>

\* A bar closes and the hourly run decides on what it has.
Hour(c) ==
    /\ Now < MaxHour
    /\ market' = Append(market, c)
    /\ gapped' = (gapped \/ cached \cup LastOf(Now + 1) # 1 .. Now + 1)
    /\ decided' = Append(decided, Target(Position(Bars(market'))))
    /\ UNCHANGED <<family, cached>>

Next == \/ \E c \in Prices : Hour(c)
        \/ \E late \in SUBSET {DayOf(Now) - 1}, up \in BOOLEAN : Refresh(late, up)

Spec == Init /\ [][Next]_vars

-----------------------------------------------------------------------------
(* Properties                                                               *)

\* As long as the cache reaches the bars Kraken serves, the desk that replays
\* the strategy from scratch every hour decides what one that remembered its
\* position would have: what a backtest over the whole market holds once its windows
\* are full.  (Before, a position that is not a number is fully long on the desk.)
LiveIsBacktest ==
    ~gapped => \A t \in DOMAIN decided :
                  t > Slow => decided[t] = Position(SubSeq(market, 1, t))

\* Whatever bars a run lacks, what it decides is neither short nor levered, so
\* the clamp of the desk acts on what is not a number alone.
TypeOK ==
    /\ family \in Families /\ market \in Seq(Prices) /\ gapped \in BOOLEAN
    /\ cached \in SUBSET (1 .. Now)
    /\ decided \in Seq(0 .. 4) /\ Len(decided) = Now
=============================================================================
