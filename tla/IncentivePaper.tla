-------------------------- MODULE IncentivePaper ---------------------------
(***************************************************************************)
(* The shadow book of the incentive program                                *)
(* (scripts/kalshi_incentive_paper.py): an hourly tick, which the scheduler*)
(* may drop, accrues what the held markets would have paid since the last  *)
(* one, refills the free slots and gives the go/no-go verdict.             *)
(*                                                                         *)
(* A market's rate is what its slot earns in an hour at the book the tick  *)
(* sees; thresholds are rates too.                                         *)
(***************************************************************************)
EXTENDS Integers, Sequences, FiniteSets, FiniteSetsExt, Functions, SequencesExt

CONSTANTS
    PaperMarkets, Slots,
    Rates,                  \* what a slot may earn in an hour, 0 under target size
    MaxInterval,            \* MAX_INTERVAL_H
    MinHours, StaleHours,   \* MIN_HOURS, STALE_HOURS
    Window,                 \* the trailing window, 24 hours in the code; the long one is twice it
    GoRate, BoardRate,      \* GO_PER_DAY, BOARD_AVG_PER_DAY
    MaxHour

VARIABLES
    hour,     \* the clock
    paper     \* kalshi_incentive_paper.json

PaperAssumption ==
    /\ IsFiniteSet(PaperMarkets) /\ Rates \subseteq Int
    /\ MaxInterval \in Nat /\ Window \in Nat

paperVars == <<hour, paper>>

Codes == {"INSUFFICIENT", "STALLED", "FALLING", "GO", "MARGINAL", "NO"}

-----------------------------------------------------------------------------
\* trailing_rate: earned and hours over the last hours, or nothing if the log
\* covers less than half of them.
Recent(rows, hours, now) == {i \in DOMAIN rows : rows[i].at >= now - hours}
Trailing(rows, hours, now) ==
    LET in == Recent(rows, hours, now)
    IN [earned |-> SumFunction([i \in in |-> rows[i].earned]),
        span |-> SumFunction([i \in in |-> rows[i].span])]
Trusted(t, hours) == 2 * t.span >= hours /\ t.span > 0

\* verdict, in the order of its returns; rates compare by cross products.
Verdict(rows, started, now) ==
    LET short == Trailing(rows, Window, now)
        long == Trailing(rows, 2 * Window, now)
        fading == /\ Trusted(long, 2 * Window) /\ long.earned > 0
                  /\ 10 * short.earned * long.span < 7 * long.earned * short.span
    IN IF rows = <<>> THEN "INSUFFICIENT"
       ELSE IF now - Last(rows).at > StaleHours THEN "STALLED"
       ELSE IF now - started < MinHours \/ ~Trusted(short, Window) THEN "INSUFFICIENT"
       ELSE IF fading THEN "FALLING"
       ELSE IF short.earned >= GoRate * short.span THEN "GO"
       ELSE IF short.earned >= BoardRate * short.span THEN "MARGINAL"
       ELSE "NO"

\* A tick that bills the whole gap since the last one.
IntervalWhole(last) == IF last = 0 THEN 0 ELSE hour - last

\* The hours a tick bills at the rate it sees: a gap is capped, not extrapolated.
Interval(last) == IF last = 0 THEN 0 ELSE Min({hour - last, MaxInterval})

Init ==
    /\ hour = 1
    /\ paper = [held |-> {}, started |-> 0, last |-> 0, accrued |-> 0, rows |-> <<>>,
                verdict |-> "INSUFFICIENT"]

\* The free slots take the best of a random sample of the programs that end late
\* enough, price and pay: any pool of the markets that pay.
Refills(kept, rate) ==
    UNION {{bought \in kSubset(Min({Slots - Cardinality(kept), Cardinality(pool)}), pool) :
               \A m \in bought, n \in pool \ bought : rate[m] >= rate[n]} :
           pool \in SUBSET {m \in PaperMarkets \ kept : rate[m] > 0}}

\* One tick: held markets accrue, or are closed because the program ended or
\* the book cannot be read, and free slots are filled.
Tick ==
    /\ paper.last < hour
    /\ \E kept \in SUBSET paper.held, rate \in [PaperMarkets -> Rates] :
          LET span == Interval(paper.last)
              earned == span * SumFunction([m \in kept |-> rate[m]])
              started == IF paper.started = 0 THEN hour ELSE paper.started
              rows == Append(paper.rows, [at |-> hour, earned |-> earned, span |-> span])
          IN \E bought \in Refills(kept, rate) :
                paper' = [held |-> kept \cup bought, started |-> started, last |-> hour,
                          accrued |-> paper.accrued + earned, rows |-> rows,
                          verdict |-> Verdict(rows, started, hour)]
    /\ UNCHANGED hour

NextHour ==
    /\ hour < MaxHour
    /\ hour' = hour + 1
    /\ UNCHANGED paper

Next == Tick \/ NextHour

Spec == Init /\ [][Next]_paperVars

-----------------------------------------------------------------------------
(* Properties *)

\* A GO rests on a window that was watched: ticks no further apart than the cap
\* cover at least half of it, however many hours the scheduler dropped.
GoIsMeasured ==
    paper.verdict = "GO" =>
        2 * MaxInterval * Cardinality(Recent(paper.rows, Window, paper.last)) >= Window

-----------------------------------------------------------------------------
(* What makes this hold, as an inductive invariant.                         *)

TypeOK ==
    /\ hour \in Nat
    /\ paper \in [held : SUBSET PaperMarkets, started : Nat, last : Nat, accrued : Int,
                  rows : Seq([at : Nat, earned : Int, span : 0 .. MaxInterval]), verdict : Codes]

\* No tick bills more than the cap (by its type), and the verdict is that of the last tick.
PaperInv ==
    /\ paper.last <= hour
    /\ paper.verdict = Verdict(paper.rows, paper.started, paper.last)
=============================================================================
