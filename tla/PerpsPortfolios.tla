--------------------------- MODULE PerpsPortfolios ---------------------------
(***************************************************************************)
(* The sizing of the perps strategies and the families that rank the assets*)
(* against each other (quantfirm/perps/strategies.py, families/).  One step*)
(* is one daily close: some assets print a bar, every asset has a trailing *)
(* score, the covariance gives a scale, and the family decides the target  *)
(* weights.  Weights are integers, One is the whole equity.  All assets    *)
(* have the same volatility; what the trailing covariances of the day      *)
(* come out at is chosen.                                                  *)
(***************************************************************************)
EXTENDS Integers, Sequences, FiniteSets, Functions

CONSTANTS
    Crypto, Metals,
    Quoted,            \* the assets with a bid and an ask
    Families,
    NewDays(_),        \* NewDays(f): the days [bar, score, k, own] that may come under f:
                       \* who prints, the trailing scores, and the target over the
                       \* estimated volatility of two books, 0 for no estimate
    MaxDay,            \* bound: days
    MaxStale, Window,  \* days without a bar, days a score looks back
    MinObs, K, Tranches,
    One, Step, MaxGross, MaxAsset, MaxScale, Hurdle

Assets == Crypto \cup Metals

PortfolioAssumption ==
    /\ IsFiniteSet(Assets) /\ Assets # {}
    /\ {MaxStale, Window, MinObs, One, MaxGross, MaxAsset, MaxScale} \subseteq Nat
    /\ {K, Tranches, Step} \subseteq Nat \ {0} /\ Hurdle \in Int
    /\ \A f \in Families : \A d \in NewDays(f) :
          d.bar \subseteq Assets /\ d.score \in [Assets -> Int] /\ d.k \in Nat /\ d.own \in Nat

VARIABLES family, day, age, avail, books, share, weights
vars == <<family, day, age, avail, books, share, weights>>

N == Cardinality(Assets)
Total(f, S) == SumFunctionOnSet(f, S)
Abs(x) == IF x < 0 THEN -x ELSE x
Lesser(x, y) == IF x < y THEN x ELSE y
Clip(x, lo, hi) == IF x < lo THEN lo ELSE IF x > hi THEN hi ELSE x
\* x * n / d, toward zero.
Scaled(x, n, d) == IF x < 0 THEN -((-x * n) \div d) ELSE (x * n) \div d
Nothing == [a \in Assets |-> 0]

-----------------------------------------------------------------------------
(* Who quotes, and who has the history.                                     *)

Fresh(a) == age[a] <= MaxStale
\* avail[a] is the mask of the last Window + 1 days; a return needs both ends.
Continuous(a) == \A i \in 1 .. Window + 1 : avail[a][i]
Returns(a) == Cardinality({i \in 2 .. Window + 1 : avail[a][i] /\ avail[a][i - 1]})
Usable(a) == Returns(a) >= MinObs

-----------------------------------------------------------------------------
(* Sizing.  sig is in units of One.                                         *)

\* cap_weights: each asset, then the whole book, which only shrinks it.
PerAsset(w) == [a \in Assets |-> IF a \in Quoted THEN Clip(w[a], -MaxAsset, MaxAsset) ELSE 0]
Gross(w) == Total([a \in Assets |-> Abs(w[a])], Assets)
CapWeights(w) ==
    LET c == PerAsset(w)
        g == Gross(c)
    IN  IF g > MaxGross THEN [a \in Assets |-> Scaled(c[a], MaxGross, g)] ELSE c

Round(x) == IF x < 0 THEN -(((-x + Step \div 2) \div Step) * Step) ELSE ((x + Step \div 2) \div Step) * Step
Size(sig, k) == CapWeights([a \in Assets |-> Round(Scaled(sig[a], k, N))])

\* vol_target with its defaults, and with the mask and the history rule.
VolTarget(sig, k) == Size(sig, Lesser(k, MaxScale))
Gate(sig) == [a \in Assets |-> IF Fresh(a) THEN sig[a] ELSE 0]
BreadthVolTarget(sig, k) ==
    VolTarget([a \in Assets |-> IF Usable(a) THEN Gate(sig)[a] ELSE 0], k)
\* trend_v2's live sizing: the book's own volatility, at most twice the
\* reference scaling, and no scaling by an empty book.
LiveSize(sig, k, own) == Size(sig, IF own = 0 THEN 2 * k ELSE Lesser(own, 2 * k))

-----------------------------------------------------------------------------
(* Signals across the assets.  score[a] is the trailing return.             *)

Trend(score) == [a \in Assets |-> IF score[a] > 0 THEN One ELSE 0]
Hold == [a \in Assets |-> One]

\* xsec_momentum.
Ranked == {a \in Assets : Continuous(a)}
Above(score, a, S) == Cardinality({b \in S : score[b] > score[a]})
Best(score, S, k) == {a \in S : Above(score, a, S) < k}
Worst(score, S, k) == {a \in S : Above(score, a, S) >= Cardinality(S) - k}
Enough(S) == Cardinality(S) >= 2 * K
TopSignal(score) ==
    [a \in Assets |-> IF Cardinality(Ranked) > K /\ a \in Best(score, Ranked, K) THEN One ELSE 0]
LsSignal(score) ==
    [a \in Assets |-> IF ~Enough(Ranked) THEN 0
                      ELSE (IF a \in Best(score, Ranked, K) THEN One ELSE 0)
                           - (IF a \in Worst(score, Ranked, K) THEN One ELSE 0)]
RankSignal(score) ==
    LET n == Cardinality(Ranked)
    IN  [a \in Assets |-> IF n >= 2 /\ a \in Ranked THEN (One * (n - Above(score, a, Ranked))) \div n ELSE 0]

\* dual_momentum: a bloc must beat the collateral's yield, the weaker bloc
\* gets the smaller share.
BlocMean(score, B) == LET S == B \cap Ranked
                      IN  IF S = {} THEN -One ELSE Total(score, S) \div Cardinality(S)
DualSignal(score) ==
    LET c == BlocMean(score, Crypto)
        m == BlocMean(score, Metals)
        Bloc(mine, wins) == IF mine <= Hurdle THEN 0 ELSE IF wins THEN One ELSE (3 * One) \div 7
    IN  [a \in Assets |-> IF ~(Continuous(a) /\ Fresh(a)) THEN 0
                          ELSE IF a \in Crypto THEN Bloc(c, c >= m) ELSE Bloc(m, m > c)]

-----------------------------------------------------------------------------
(* xsmom_residual: overlapping books, each rebalanced on its own day of the *)
(* week: long the K best, short the K worst.                                *)

Legs(score) ==
    LET S == {a \in Crypto \cap Quoted : Continuous(a)}
    IN  [a \in Assets |-> IF ~Enough(S) THEN 0
                          ELSE IF a \in Best(score, S, K) THEN One \div K
                          ELSE IF a \in Worst(score, S, K) THEN -(One \div K) ELSE 0]
\* A row of zeros and the zeros of a row both become gaps, and gaps are filled
\* from the row before.
Refilled(book, legs) == [a \in Assets |-> IF legs[a] # 0 THEN legs[a] ELSE book[a]]
Masked(w) == [a \in Assets |-> IF Fresh(a) THEN w[a] ELSE 0]
Enlisted == Cardinality(Crypto \cap Quoted) >= 2 * K + 1
Sleeve(bs, k) ==
    LET raw == [a \in Assets |-> Total([j \in 1 .. Tranches |-> bs[j][a]], 1 .. Tranches) \div Tranches]
    IN  IF Enlisted THEN CapWeights([a \in Assets |-> Masked(raw)[a] * Lesser(k, MaxScale)]) ELSE Nothing

\* blend_core_sleeve: 70% the long book of the core, 30% the sleeve.
Blend(core, sleeve) == CapWeights([a \in Assets |-> Scaled(core[a], 7, 10) + Scaled(sleeve[a], 3, 10)])

\* allocator_blend: hold and trend, the share of the trend in hundredths.
ShareFree(wt) == wt                                           \* mutant: no clamp
Share(wt) == Clip(wt, 0, 100)
Allocated(score, k, wt) ==
    LET h == VolTarget(Hold, k)
        t == VolTarget(Trend(score), k)
    IN  [a \in Assets |-> Scaled(h[a], 100 - Share(wt), 100) + Scaled(t[a], Share(wt), 100)]
Breadth(score) == (100 * Cardinality({a \in Assets : score[a] > 0})) \div N

\* carry_tilt: no position that would pay funding above the limit.
Tilted(w, dear) == [a \in Assets |-> IF a \in dear /\ w[a] > 0 THEN 0 ELSE w[a]]

-----------------------------------------------------------------------------

Init ==
    /\ family \in Families
    /\ day = 0
    /\ age = [a \in Assets |-> MaxStale + 1]        \* not listed yet
    /\ avail = [a \in Assets |-> [i \in 1 .. Window + 1 |-> FALSE]]
    /\ books = [j \in 1 .. Tranches |-> Nothing]
    /\ share \in IF family = "fixed" THEN {50, 125} ELSE {0}
    /\ weights = Nothing

\* The bars of the day, and the tranche whose turn it is.
NextPrices(bar) ==
    /\ age' = [a \in Assets |-> IF a \in bar THEN 0 ELSE Lesser(age[a] + 1, MaxStale + 1)]
    /\ avail' = [a \in Assets |-> Append(Tail(avail[a]), age'[a] <= MaxStale)]

Rebalance(score) ==
    books' = IF family \notin {"residual", "core_sleeve"} THEN books
             ELSE [books EXCEPT ![(day % Tranches) + 1] = Refilled(@, Legs(score)')]

\* own is the second estimate: of the sleeve, of the live book, of the funding.
Decide(score, k, own) ==
    weights' =
        CASE family = "hold"        -> VolTarget(Hold, k)
          [] family = "breadth"     -> BreadthVolTarget(Hold, k)'
          [] family = "live"        -> LiveSize(Trend(score), Lesser(k, MaxScale), own)
          [] family = "dual"        -> VolTarget(DualSignal(score)', k)
          [] family = "top"         -> VolTarget(TopSignal(score)', (k * N) \div K)
          [] family = "ls"          -> VolTarget(LsSignal(score)', (k * N) \div (2 * K))
          [] family = "rank"        -> VolTarget(RankSignal(score)', (2 * k * N) \div (N + 1))
          [] family = "residual"    -> Sleeve(books, own)'
          [] family = "core_sleeve" -> Blend(VolTarget(Hold, k), Sleeve(books, own)')
          [] family = "fixed"       -> Allocated(score, k, share)
          [] family = "gate"        -> Allocated(score, k, Breadth(score))
          [] family = "gate_inv"    -> Allocated(score, k, 100 - Breadth(score))
          [] family = "riskparity"  -> Allocated(score, k, (100 * (own + 1)) \div (own + k + 2))
          [] OTHER                  -> Tilted(VolTarget(Trend(score), k), IF own = 0 THEN {} ELSE Crypto)

Day(d) ==
    /\ day < MaxDay
    /\ day' = day + 1
    /\ NextPrices(d.bar)
    /\ Rebalance(d.score)
    /\ Decide(d.score, d.k, d.own)
    /\ UNCHANGED <<family, share>>

Next == \E d \in NewDays(family) : Day(d)

Spec == Init /\ [][Next]_vars

-----------------------------------------------------------------------------
(* Properties                                                               *)

TypeOK ==
    /\ family \in Families
    /\ age \in [Assets -> Nat]
    /\ avail \in [Assets -> Seq(BOOLEAN)] /\ \A a \in Assets : Len(avail[a]) = Window + 1
    /\ books \in [1 .. Tranches -> [Assets -> Int]]
    /\ share \in Nat
    /\ weights \in [Assets -> Int]

\* Whatever the family, no target is above the asset's cap and no book above the
\* gross cap: the families that mix two capped books do not cap the mix again.
WithinTheCaps ==
    /\ \A a \in Assets : Abs(weights[a]) <= MaxAsset
    /\ Gross(weights) <= MaxGross

\* The families that carry a tradability mask hold nothing that has stopped
\* quoting, although a tranche keeps its weights between its rebalances.
DelistedNotHeld ==
    family \in {"breadth", "dual", "top", "ls", "rank", "residual"} =>
        \A a \in Assets : weights[a] # 0 => Fresh(a)

\* "Dollar-neutral: long the top k residual-momentum names, short the bottom k":
\* every tranche is worth nothing.
DollarNeutral == \A j \in 1 .. Tranches : Total(books[j], Assets) = 0

\* The target is one the desk may hold.
BooksDeliverable == WithinTheCaps /\ DelistedNotHeld

\* The last day of the mask is today.
MaskIsCurrent == \A a \in Assets : avail[a][Window + 1] <=> Fresh(a)
PortfolioInv == MaskIsCurrent /\ BooksDeliverable
=============================================================================
