---------------------------- MODULE PerpsSignals -----------------------------
(***************************************************************************)
(* The signals of the perps strategies (quantfirm/perps/strategies.py and  *)
(* families/): what each family wants to hold in an asset at a daily close.*)
(* The desk computes today's signal on the bars it has; the backtest       *)
(* computes every day's on the whole history.  One step is one day: bars   *)
(* arrive, the desk decides and the decision is kept.                      *)
(* An external series (premium, implied volatility, macro) arrives a day   *)
(* late: at the close of a day its last label is still yesterday's.        *)
(* Signals are in halves: 2 is fully long.  Windows are constants.         *)
(***************************************************************************)
EXTENDS Integers, Sequences, FiniteSets, Functions

CONSTANTS
    Assets, Metals,
    Families,
    NewDays(_),     \* NewDays(f): the days [c, n, x] that may come under family f
    MaxDay,         \* bound: days
    Short, Long,    \* the rolling windows, in days
    MinFlat, MonthDays

Bar == [c : [Assets -> Int], n : SUBSET Assets, x : Int]

SignalAssumption ==
    /\ {Short, Long} \subseteq Nat \ {0} /\ Short <= Long
    /\ {MinFlat, MonthDays} \subseteq Nat
    /\ \A f \in Families : NewDays(f) \subseteq Bar

VARIABLES family, hist, decided
vars == <<family, hist, decided>>

Missing == 0        \* no value: NaN

Sgn(x) == IF x < 0 THEN -1 ELSE IF x > 0 THEN 1 ELSE 0
Clip(x, lo, hi) == IF x < lo THEN lo ELSE IF x > hi THEN hi ELSE x
Sum(f) == SumFunction(f)
C(h, i, a) == h[i].c[a]

\* Rolling statistics over the last w days up to t; callers check Full.
Full(t, w) == t >= w
MeanTimes(h, t, w, a) == Sum([i \in t - w + 1 .. t |-> C(h, i, a)])      \* w times the mean
Highest(S) == CHOOSE x \in S : \A y \in S : y <= x
Lowest(S) == CHOOSE x \in S : \A y \in S : x <= y
Closes(h, lo, hi, a) == {C(h, i, a) : i \in lo .. hi}

\* What a rule with a memory holds after t days, from what it starts with:
\* after[i] is what day i makes of what was held before.
Holding(start, after, t) ==
    LET p[i \in 0 .. t] == IF i = 0 THEN start ELSE after[i][p[i - 1]] IN p[t]

-----------------------------------------------------------------------------
(* strategies.py                                                            *)

\* _tsmom_signal: a lookback without history leaves the whole sum undefined.
Tsmom(h, t, a) ==
    IF t <= Long THEN 0
    ELSE Sgn(C(h, t, a) - C(h, t - Short, a)) + Sgn(C(h, t, a) - C(h, t - Long, a))

\* _ma_signal: a pair without history counts zero.
Ma(h, t, a) ==
    IF ~Full(t, Long) THEN 0
    ELSE 2 * Sgn(MeanTimes(h, t, Short, a) * Long - MeanTimes(h, t, Long, a) * Short)

\* _breakout_signal: channel breakout on native bars, with an exit channel.
Native(h, t, a) == {i \in 1 .. t : a \in h[i].n}
LastBars(h, t, w, a) == {i \in Native(h, t - 1, a) : Cardinality({j \in Native(h, t - 1, a) : j > i}) < w}
Channel(h, t, w, a) == {C(h, i, a) : i \in LastBars(h, t, w, a)}
HasChannel(h, t, w, a) == Cardinality(LastBars(h, t, w, a)) >= w
BreaksOut(h, i, a, p) ==
    LET c == C(h, i, a)
        entry == HasChannel(h, i, Long, a)
        exit == HasChannel(h, i, Short, a)
    IN  IF i \notin Native(h, i, a) THEN p
        ELSE IF entry /\ c > Highest(Channel(h, i, Long, a)) THEN 2
        ELSE IF entry /\ c < Lowest(Channel(h, i, Long, a)) THEN -2
        ELSE IF p > 0 /\ exit /\ c < Lowest(Channel(h, i, Short, a)) THEN 0
        ELSE IF p < 0 /\ exit /\ c > Highest(Channel(h, i, Short, a)) THEN 0
        ELSE p
Sides == {-2, 0, 2}
Breakout(h, t, a) == Holding(0, [i \in 1 .. t |-> [p \in Sides |-> BreaksOut(h, i, a, p)]], t)

\* trend_ensemble, and its long-only form.
Ensemble(h, t, a) == (Tsmom(h, t, a) + Ma(h, t, a) + Breakout(h, t, a)) \div 3
LongOnly(x) == Clip(x, 0, 2)

\* gold_silver_ratio, as the spread of the two metals against its mean: enter
\* two deviations out, leave half a deviation in, the other leg opposite.
Spread(h, i, a, b) == C(h, i, a) - C(h, i, b)
Score(h, t, a, b) == Long * Spread(h, t, a, b) - Sum([i \in t - Long + 1 .. t |-> Spread(h, i, a, b)])
Reverts(h, i, a, b, p) ==
    LET z == Score(h, i, a, b)
    IN  IF i < Long THEN 0
        ELSE IF p = 0 THEN IF z > Long THEN -2 ELSE IF z < -Long THEN 2 ELSE 0
        ELSE IF z = 0 THEN 0 ELSE p
Ratio(h, t, a, b) == Holding(0, [i \in 1 .. t |-> [p \in Sides |-> Reverts(h, i, a, b, p)]], t)

-----------------------------------------------------------------------------
(* families/crash_filter_beta.py: out on a crash, back after a rest when    *)
(* the drawdown has healed.                                                 *)

Peak(h, t, a) == Highest(Closes(h, Clip(t - Long + 1, 1, t), t, a))
Crashed(h, t, a) == C(h, t, a) * 10 <= Peak(h, t, a) * 7
Healed(h, t, a) == /\ C(h, t, a) * 20 >= Peak(h, t, a) * 19
                   /\ t > Short /\ C(h, t, a) >= C(h, t - Short, a)
Rested(flat) == flat >= MinFlat
\* In or out, and the days flat: none while holding.
Watches(h, i, a, s) ==
    LET d == s.flat + 1
    IN  IF s.in THEN [in |-> ~Crashed(h, i, a), flat |-> 0]
        ELSE [in |-> Rested(d) /\ Healed(h, i, a) /\ ~Crashed(h, i, a), flat |-> d]
Watched == [in : BOOLEAN, flat : Nat]
CrashState(h, t, a) ==
    LET s == Holding([in |-> TRUE, flat |-> 0], [i \in 1 .. t |-> [s \in Watched |-> Watches(h, i, a, s)]], t)
    IN  IF s.in THEN 2 ELSE 0

-----------------------------------------------------------------------------
(* families/reversal_seasonality.py                                         *)

WeeklyReversal(h, t, a) == Clip(2 - (IF t <= Short THEN 0 ELSE Sgn(C(h, t, a) - C(h, t - Short, a))), 0, 3)
Weekday(t) == t % 7
WeekendHalf(t, a) == IF a \notin Metals /\ Weekday(t) \in {4, 5} THEN 1 ELSE 2
\* Weekdays left in the month of day d, or passed: the window is one day ahead.
MonthOf(d) == d \div MonthDays
Weekdays(lo, hi) == Cardinality({d \in lo .. hi : Weekday(d) < 5})
InWindow(d) == \/ Weekdays(d + 1, (MonthOf(d) + 1) * MonthDays - 1) < 2
               \/ Weekdays(MonthOf(d) * MonthDays, d - 1) < 3
TurnOfMonth(t, a) == IF a \in Metals /\ ~InWindow(t + 1) THEN 1 ELSE 2
\* Bollinger: buy below the band in an up-trend, out at the mean.
BuysDip(h, i, a, p) ==
    LET c == C(h, i, a)
        dip == c * Short < MeanTimes(h, i, Short, a) - Short /\ c * Long > MeanTimes(h, i, Long, a)
    IN  IF i < Long THEN 0
        ELSE IF p = 0 THEN IF dip THEN 2 ELSE 0
        ELSE IF c * Short >= MeanTimes(h, i, Short, a) THEN 0 ELSE 2
Bollinger(h, t, a) == Holding(0, [i \in 1 .. t |-> [p \in Sides |-> BuysDip(h, i, a, p)]], t)

-----------------------------------------------------------------------------
(* Families on external series.  X is the value known for label i.          *)

X(h, i) == IF i < 1 THEN Missing ELSE h[i].x
\* The label is moved a day forward before it meets the price index.
LabelToday(h, t) == X(h, t)                                   \* mutant: no shift
Label(h, t) == X(h, t - 1)

\* basis_crowding: the premium against a quantile of its own past.
Crowded(h, t) ==
    LET past == {i \in Clip(t - Long + 1, 1, t) .. t : Label(h, i) # Missing}
    IN  /\ Cardinality(past) >= Short
        /\ Label(h, t) # Missing
        /\ Cardinality({i \in past : Label(h, i) < Label(h, t)}) * 2 > Cardinality(past)
Basis(h, t, a) == IF a \in Metals THEN 2 ELSE IF Crowded(h, t) THEN 1 ELSE 2

\* macro_gold: metals follow the indicator's change, everything else is long.
Macro(h, t, a) ==
    IF a \notin Metals THEN 2
    ELSE IF t > Short /\ Label(h, t) # Missing /\ Label(h, t - Short) # Missing
              /\ Label(h, t) < Label(h, t - Short) THEN 2 ELSE 0

\* vrp_options (vrp_raw): implied over realised, both a day old.
Realised(h, t, a) == IF t <= Short THEN Missing
                     ELSE Highest(Closes(h, t - Short, t, a)) - Lowest(Closes(h, t - Short, t, a)) + 1
Vrp(h, t, a) ==
    IF a \in Metals \/ Label(h, t) = Missing \/ Realised(h, t - 1, a) = Missing THEN 2
    ELSE IF Label(h, t) > Realised(h, t - 1, a) THEN 2 ELSE 0

-----------------------------------------------------------------------------

Signal(f, h, t, a) ==
    CASE f = "tsmom"       -> Tsmom(h, t, a)
      [] f = "ma_trend"    -> Ma(h, t, a)
      [] f = "breakout"    -> Breakout(h, t, a)
      [] f = "trend_long_only" -> LongOnly(Ensemble(h, t, a))
      [] f = "gold_silver_ratio" -> LET b == CHOOSE x \in Assets : x # a
                                    IN  IF a \in Metals THEN Ratio(h, t, a, b) ELSE -Ratio(h, t, b, a)
      [] f = "crash_filter_beta" -> CrashState(h, t, a)
      [] f = "rs_weekly_reversal" -> WeeklyReversal(h, t, a)
      [] f = "rs_weekend_half"  -> WeekendHalf(t, a)
      [] f = "rs_turn_of_month" -> TurnOfMonth(t, a)
      [] f = "rs_bollinger_mr"  -> Bollinger(h, t, a)
      [] f = "basis_crowding"   -> Basis(h, t, a)
      [] f = "macro_gold"       -> Macro(h, t, a)
      [] OTHER                  -> Vrp(h, t, a)
Targets(f, h, t) == [a \in Assets |-> Signal(f, h, t, a)]

\* What the desk has at the close of the last day: the series' last label is late.
AtTheClose(h) == [h EXCEPT ![Len(h)].x = X(h, Len(h) - 1)]

Init == family \in Families /\ hist = <<>> /\ decided = <<>>

\* An asset that prints no bar keeps its close; its first day always has one.
Filled(d) == IF hist = <<>> THEN [d EXCEPT !.n = Assets]
             ELSE [d EXCEPT !.c = [a \in Assets |-> IF a \in d.n THEN d.c[a] ELSE C(hist, Len(hist), a)]]

Day(d) ==
    /\ Len(hist) < MaxDay
    /\ hist' = Append(hist, Filled(d))
    /\ decided' = Append(decided, Targets(family, AtTheClose(hist'), Len(hist')))
    /\ UNCHANGED family

Next == \E d \in NewDays(family) : Day(d)

Spec == Init /\ [][Next]_vars

-----------------------------------------------------------------------------
(* Properties                                                               *)

TypeOK ==
    /\ family \in Families
    /\ hist \in Seq(Bar)
    /\ decided \in Seq([Assets -> -2 .. 3]) /\ Len(decided) = Len(hist)

\* "signals are causal, so a target on day t is the same whatever the run
\* window": what the backtest would have held on any past day is what the desk
\* decided on that day, although it has since seen more bars and the labels
\* that came late.
BacktestIsLive == \A t \in DOMAIN decided : Targets(family, hist, t) = decided[t]

\* The crash filter rests: an asset it left is out for at least MinFlat days, so
\* a fall that comes in two legs is not bought between them.
CrashFilterRests ==
    family = "crash_filter_beta" =>
        \A t \in DOMAIN decided, a \in Assets :
            (t > 1 /\ decided[t][a] = 2 /\ decided[t - 1][a] = 0) =>
                \A i \in Clip(t - MinFlat, 1, t) .. t - 1 : decided[i][a] = 0

\* The signals are what the backtest said: causal, and resting where they say so.
SignalsSound == BacktestIsLive /\ CrashFilterRests
=============================================================================
