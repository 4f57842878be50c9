--------------------------- MODULE EquitySelection ---------------------------
(***************************************************************************)
(* What the equity strategies hold (quantfirm/equities/strategies) and how *)
(* a broken book is rebuilt (equities/reconstruct.py).  A strategy emits a *)
(* row of weights on its rebalance dates; the ranked ones remember the     *)
(* names they hold, because a name is kept while it stays in a wide band.  *)
(* A day is a record of what its windows come out at:                      *)
(*   score   the ranking score of a stock or fund, NaN without history     *)
(*   mom     its momentum, which must be positive to be bought             *)
(*   iv      its inverse volatility                                        *)
(*   safe    the momentum of each defensive fund, NaN without history      *)
(*   risk    how much of the book the trend gate allows, in halves         *)
(*   canary  whether the canary's momentum is positive                     *)
(* Weights are integers, One is the whole book.                            *)
(***************************************************************************)
EXTENDS Integers, FiniteSets, Functions

CONSTANTS
    Menu,               \* the stocks or funds that are ranked
    Safe,               \* the defensive funds
    Core, Haven,        \* SPY, and the bond fund of the baselines
    Families, NewDays(_),
    MaxDate(_),         \* bound: MaxDate(f) rebalance dates under family f
    TopN, Band, DefK, One

VARIABLES family, date, held, row, live, seeds, target, seen
vars == <<family, date, held, row, live, seeds, target, seen>>

Assets == Menu \cup Safe \cup {Core}
NaN == -100
Total(f, S) == SumFunctionOnSet(f, S)
Empty == [a \in Assets |-> 0]
Plus(f, g) == [a \in Assets |-> f[a] + g[a]]
Lesser(x, y) == IF x < y THEN x ELSE y

\* Ranking: the k best of S by f, which orders them strictly.
Above(f, a, S) == Cardinality({b \in S : f[b] > f[a]})
Best(f, S, k) == {a \in S : Above(f, a, S) < k}
Scored(f, S) == {a \in S : f[a] # NaN}
Positive(f, S) == {a \in S : f[a] > 0}

\* Scores are never tied, and One is fine enough that no share rounds to none.
Strict(f, S) == \A a, b \in Scored(f, S) : f[a] = f[b] => a = b
SelectionAssumption ==
    /\ IsFiniteSet(Menu) /\ IsFiniteSet(Safe)
    /\ {TopN, DefK} \subseteq Nat \ {0} /\ {Band, One} \subseteq Nat
    /\ \A f \in Families : NewDays(f) # {} /\ \A d \in NewDays(f) :
          /\ d.score \in [Menu -> Int] /\ d.mom \in [Menu -> Int] /\ d.safe \in [Safe -> Int]
          /\ d.iv \in [Menu -> 1 .. One \div TopN] /\ d.risk \in 0 .. 2 /\ d.canary \in BOOLEAN
          /\ Strict(d.score, Menu) /\ Strict(d.safe, Safe)

\* w shared over S equally, n ways, or by inverse volatility.
Even(S, w, n) == [a \in Assets |-> IF a \in S THEN w \div n ELSE 0]
InvVol(S, w, iv) == [a \in Assets |-> IF a \in S THEN (w * iv[a]) \div Total(iv, S) ELSE 0]

-----------------------------------------------------------------------------
(* The ranked books: refined, residual, low volatility, canary.             *)

Ok(d, a) == d.mom[a] > 0
\* The holdings after the date: incumbents in the band, then the best others.
Kept(d, own) == {a \in own \cap Best(d.score, Scored(d.score, Menu), Band) : Ok(d, a)}
Select(d, own) ==
    LET k == Kept(d, own)
        free == {a \in Scored(d.score, Menu) : Ok(d, a)} \ k
    IN  k \cup Best(d.score, free, TopN - Cardinality(k))
Warm(d) == Cardinality(Scored(d.score, Menu)) >= TopN
Offense(risk, S) == (One * risk * Cardinality(S)) \div (2 * TopN)
DefenseBySlots(risk, S) == (One * (2 * TopN - Cardinality(S))) \div (2 * TopN)   \* mutant: without the gate
Defense(risk, S) == One - Offense(risk, S)
Stocks(d, S, risk) == IF S = {} THEN Empty ELSE InvVol(S, Offense(risk, S), d.iv)
SafePicks(d) == Best(d.safe, Scored(d.safe, Safe), DefK) \cap Positive(d.safe, Safe)
Routed(d, w) == Even(SafePicks(d), w, DefK)

Refined(d, S) == Plus(Stocks(d, S, d.risk), Routed(d, Defense(d.risk, S)))
\* The residual's score is its own; its momentum test is the raw one.
ResidMom(d, S) == Plus(Stocks(d, S, d.risk), Routed(d, Defense(d.risk, S)))
Canary(d, S) == LET risk == IF d.canary THEN d.risk ELSE 0
                IN  Plus(Stocks(d, S, risk), Routed(d, Defense(risk, S)))
\* The idle part goes to the quietest names, as a sleeve of its own.
Quietest(d) == Best(d.iv, Scored(d.score, Menu), TopN)
Sleeve(d) == IF Cardinality(Scored(d.score, Menu)) < TopN THEN {} ELSE Quietest(d)
LowVol(d, S) ==
    Plus(Stocks(d, S, d.risk),
         IF Sleeve(d) = {} THEN Empty ELSE Even(Sleeve(d), Defense(d.risk, S), Cardinality(Sleeve(d))))

-----------------------------------------------------------------------------
(* The books without memory                                                 *)

\* etf_adaptive: the canaries cut the sleeve, what does not pass goes to the
\* best safe fund.
EtfAdaptive(d) ==
    LET n == Scored(d.score, Menu)
        pass == Positive(d.mom, Best(d.score, n, TopN))
        off == IF d.canary THEN (One * Cardinality(pass)) \div TopN ELSE 0
        best == Best(d.safe, Scored(d.safe, Safe), 1) \cap Positive(d.safe, Safe)
    IN  IF Cardinality(n) < TopN THEN Empty
        ELSE Plus(IF pass = {} THEN Empty ELSE Even(pass, off, Cardinality(pass)), Even(best, One - off, 1))

\* regime_sector: a core, sector satellites, and defense at a part of the rest.
RegimeSector(d) ==
    LET whole == (One * d.risk) \div 2
        core == IF d.canary THEN (whole * 4) \div 5 ELSE 0
        sat == whole - (whole * 4) \div 5
        picks == Positive(d.mom, Best(d.score, Scored(d.score, Menu), TopN))
        filled == core + (sat * Cardinality(picks)) \div TopN
        spread == IF d.risk = 0 THEN Empty ELSE Plus(Even({Core}, core, 1), Even(picks, sat, TopN))
    IN  Plus(spread, Routed(d, ((One - (IF d.risk = 0 THEN 0 ELSE filled)) * 3) \div 5))

\* hybrid_lowturn: a stock sleeve while the market is on, gated funds for the rest.
Hybrid(d) ==
    LET roster == Best(d.score, {a \in Scored(d.score, Menu) : Ok(d, a)}, TopN)
        placed == IF d.risk = 0 THEN 0 ELSE (One * Cardinality(roster)) \div (2 * TopN)
    IN  Plus(IF d.risk = 0 THEN Empty ELSE Even(roster, One \div 2, TopN),
             Even(Positive(d.safe, Safe), One - placed, Cardinality(Safe)))

\* allweather_trend: inverse volatility over the menu, each leg on, half on or
\* off, the idle part in a cash fund that is itself in trend.
AllWeather(d) ==
    LET base == InvVol(Menu, One, d.iv)
        on(a) == IF d.score[a] = NaN THEN 0 ELSE IF Ok(d, a) THEN 2 ELSE 1
        legs == [a \in Assets |-> IF a \in Menu THEN (Lesser(base[a], One \div 2) * on(a)) \div 2 ELSE 0]
        park == Best(d.safe, Positive(d.safe, Safe), 1)
    IN  Plus(legs, Even(park, One - Total(legs, Assets), 1))

\* taa_haa: the canary sends everything to the best defensive fund; a slot
\* whose momentum is not positive goes there too.
TaaHaa(d) ==
    LET proxy == Best(d.safe, Scored(d.safe, Safe), 1)
        picks == Best(d.score, Scored(d.score, Menu), TopN)
        slots == Positive(d.mom, picks)
    IN  IF proxy = {} THEN Empty
        ELSE IF ~d.canary THEN Even(proxy, One, 1)
        ELSE IF Cardinality(picks) < TopN THEN Empty
        ELSE Plus(Even(slots, One, TopN), Even(proxy, (One * (TopN - Cardinality(slots))) \div TopN, 1))

\* cal_tomopex: in the calendar's windows all in the core, or the best stocks.
Calendar(d) ==
    LET picks == Best(d.score, {a \in Scored(d.score, Menu) : Ok(d, a)}, TopN)
    IN  IF d.risk = 0 THEN Routed(d, One)
        ELSE IF d.canary /\ Cardinality(picks) = TopN THEN InvVol(picks, One, d.iv) ELSE Even({Core}, One, 1)

\* baselines: dual momentum, sector rotation, momentum stocks, the market.
Baseline(d) ==
    LET best == Best(d.score, Scored(d.score, Menu), TopN)
        picks == Positive(d.mom, best)
    IN  IF d.canary THEN Plus(Even(picks, One, TopN),
                              Even({Haven}, (One * (TopN - Cardinality(picks))) \div TopN, 1))
        ELSE IF d.risk = 2 THEN Even({Core}, One, 1) ELSE Even(picks, One, TopN)

Memory == {"refined", "residmom", "lowvol", "canary"}
Row(d, S) ==
    CASE family = "refined"    -> Refined(d, S)
      [] family = "residmom"   -> ResidMom(d, S)
      [] family = "lowvol"     -> LowVol(d, S)
      [] family = "canary"     -> Canary(d, S)
      [] family = "etf"        -> EtfAdaptive(d)
      [] family = "sector"     -> RegimeSector(d)
      [] family = "hybrid"     -> Hybrid(d)
      [] family = "allweather" -> AllWeather(d)
      [] family = "haa"        -> TaaHaa(d)
      [] family = "calendar"   -> Calendar(d)
      [] OTHER                 -> Baseline(d)

-----------------------------------------------------------------------------
(* The live book                                                            *)

Init ==
    /\ family \in Families
    /\ date = 0 /\ held = {} /\ row = Empty
    /\ live = {} /\ seeds = {} /\ target = Empty
    /\ seen = CHOOSE d \in NewDays(family) : TRUE

\* A scheduled re-rank; the live account follows, and some orders do not fill.
Rerank(d) ==
    /\ date < MaxDate(family)
    /\ date' = date + 1
    /\ held' = IF family \in Memory /\ Warm(d) THEN Select(d, held) ELSE {}
    /\ row' = IF family \in Memory /\ ~Warm(d) THEN Empty ELSE Row(d, held')
    /\ \E filled \in SUBSET held' : live' = filled
    /\ seen' = d /\ seeds' = {} /\ target' = Empty
    /\ UNCHANGED family

Seeds == live
Reconstruct(d) ==
    /\ family = "refined" /\ date > 0 /\ date < MaxDate(family)
    /\ date' = date + 1
    /\ seeds' = live
    /\ target' = IF Warm(d) THEN Stocks(d, Select(d, Seeds), 2) ELSE Empty
    /\ live' = {a \in Menu : target'[a] > 0}
    /\ seen' = d
    /\ UNCHANGED <<family, held, row>>

Next == \E d \in NewDays(family) : Rerank(d) \/ Reconstruct(d)

Spec == Init /\ [][Next]_vars

-----------------------------------------------------------------------------
(* Properties                                                               *)

TypeOK ==
    /\ family \in Families /\ date \in Nat /\ seen \in NewDays(family)
    /\ {held, live, seeds} \subseteq SUBSET Menu
    /\ row \in [Assets -> Int] /\ target \in [Assets -> Int]

\* "row sums <= 1": the sleeves, the slots forfeited and the defense never add
\* up to more than the book, whatever part of it is idle.
RowsNeverLevered == Total(row, Assets) <= One /\ \A a \in Assets : row[a] >= 0

\* A rebuilt book does not buy a name because it used to own it: a name it did
\* not hold gives way to every better one that passes the momentum test.
VacatedGoToTheBest ==
    LET now == {a \in Menu : target[a] > 0}
    IN  (live = now /\ now # {}) =>
            \A a \in now \ seeds, b \in Menu \ now :
                (seen.score[b] # NaN /\ Ok(seen, b)) => seen.score[b] < seen.score[a]

\* What the selection promises of the rows and of a rebuilt book.
SelectionSound == RowsNeverLevered /\ VacatedGoToTheBest

\* A rank keeps at most TopN names, the incumbents in the band included.
SelectionInv == Cardinality(held) <= TopN /\ SelectionSound
=============================================================================
