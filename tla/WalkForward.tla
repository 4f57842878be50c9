----------------------------- MODULE WalkForward -----------------------------
(***************************************************************************)
(* Out-of-sample scoring on the three desks: walk_forward of the crypto,   *)
(* equity and perps backtesters.  One asset; a bar is its return.  The     *)
(* same evaluation is run on two panels, ours and theirs, that agree on    *)
(* the first `agree` bars and on nothing after, so that what a fold may    *)
(* depend on can be stated.  One step scores one fold.                     *)
(* Bars are numbered from 0 as in the code.  A score is the net return of  *)
(* the window; the Sharpe ratio the code takes of it adds no dependence.   *)
(***************************************************************************)
EXTENDS Integers, Sequences, Functions

CONSTANTS
    Bars,           \* length of a panel
    Returns,        \* what a bar may return
    Folds, Warmup, MinFold, Embargo,
    Cost            \* per unit of position traded

WalkAssumption ==
    /\ Bars \in Nat \ {0} /\ Warmup \in 0 .. Bars /\ Folds \in Nat \ {0}
    /\ Returns \subseteq Int /\ Embargo \in Nat /\ MinFold \in Int /\ Cost \in Int

Rules == {"follow", "fade", "best"}     \* external strategies; "best" looks at its whole window
Causal == {"follow", "fade"}
Kinds == {"crypto", "equity", "perps"}

VARIABLES kind, rule, ours, theirs, agree, fold, scores
vars == <<kind, rule, ours, theirs, agree, fold, scores>>

Abs(x) == IF x < 0 THEN -x ELSE x
R(panel, i) == panel[i + 1]

\* What a strategy holds at the close of bar i when it is given n bars: 0 or 1.
Position(s, panel, n, i) ==
    CASE s = "follow" -> IF R(panel, i) > 0 THEN 1 ELSE 0
      [] s = "fade"   -> IF R(panel, i) < 0 THEN 1 ELSE 0
      [] OTHER        -> IF \A j \in 0 .. n - 1 : R(panel, j) <= R(panel, i) THEN 1 ELSE 0

\* np.linspace(warmup, len, folds + 1, dtype=int)
Edge(f) == Warmup + (f * (Bars - Warmup)) \div Folds

-----------------------------------------------------------------------------
(* The net return of bar i when the strategy saw n bars.                    *)

\* crypto: decided at the close of i-1, earns bar i; costs on |change| at i.
CryptoNet(s, panel, n, i) ==
    LET at(j) == IF j < 0 THEN 0 ELSE Position(s, panel, n, j)
    IN  at(i - 1) * R(panel, i) - (IF i = 0 THEN 0 ELSE Cost * Abs(at(i) - at(i - 1)))

\* equities: decided at i-1, traded at the close of i, earns bar i+1.
EquityNet(s, panel, n, i) ==
    LET held(j) == IF j < 2 THEN 0 ELSE Position(s, panel, n, j - 2)
    IN  IF i = 0 THEN 0
        ELSE held(i) * R(panel, i) - Cost * Abs(Position(s, panel, n, i - 1) - held(i))

\* perps: a window starts flat; the first decision executes one bar later.
PerpsNet(s, panel, n, from, i) ==
    LET held(j) == IF j <= from THEN 0 ELSE Position(s, panel, n, j - 1)
    IN  IF i = from THEN 0
        ELSE held(i) * R(panel, i) - Cost * Abs(held(i) - held(i - 1))

PerpsWindow(s, panel, from, to) ==
    SumFunction([i \in from .. to - 1 |-> PerpsNet(s, panel, Bars, from, i)])
PerpsTurnover(s, panel, from, to) ==
    SumFunction([i \in from + 1 .. to - 1 |->
        Abs(Position(s, panel, Bars, i - 1)
            - (IF i - 1 <= from THEN 0 ELSE Position(s, panel, Bars, i - 2)))])

Net(s, panel, n, i) ==
    IF kind = "crypto" THEN CryptoNet(s, panel, n, i) ELSE EquityNet(s, panel, n, i)

-----------------------------------------------------------------------------
(* The fold                                                                 *)

\* What the signals of a fold are computed on: the history to its end.
WindowAll(f) == Bars                                       \* mutant
Window(f) == Edge(f + 1)

InSampleEnd(f) == Edge(f) - Embargo

\* The grid point with the best in-sample score, ties to the one that trades less.
Grid == <<"follow", "fade">>
Better(panel, f, s, t) ==
    LET a == PerpsWindow(s, panel, 0, InSampleEnd(f))
        b == PerpsWindow(t, panel, 0, InSampleEnd(f))
    IN  \/ a > b
        \/ a = b /\ PerpsTurnover(s, panel, 0, InSampleEnd(f))
                    < PerpsTurnover(t, panel, 0, InSampleEnd(f))
Pick(panel, f) == IF Better(panel, f, Grid[2], Grid[1]) THEN Grid[2] ELSE Grid[1]

Scored(panel, f) ==
    LET lo == Edge(f)
        hi == Edge(f + 1)
        n  == Window(f)
    IN  CASE kind = "perps" -> [pick |-> Pick(panel, f), net |-> PerpsWindow(Pick(panel, f), panel, lo, hi)]
          [] kind # "perps" /\ hi - lo < MinFold -> [pick |-> "skipped", net |-> 0]
          [] OTHER -> [pick |-> rule, net |-> SumFunction([i \in lo .. hi - 1 |-> Net(rule, panel, n, i)])]

-----------------------------------------------------------------------------

Init ==
    /\ kind \in Kinds /\ rule \in Rules
    /\ kind = "perps" => rule \in Causal
    /\ ours \in [1 .. Bars -> Returns] /\ theirs \in [1 .. Bars -> Returns]
    /\ agree \in 1 .. Bars - 1
    /\ \A i \in 1 .. Bars : (ours[i] = theirs[i]) <=> i <= agree
    /\ fold = 0 /\ scores = <<>>

Next ==
    /\ fold < Folds
    /\ scores' = Append(scores, [ours |-> Scored(ours, fold), theirs |-> Scored(theirs, fold)])
    /\ fold' = fold + 1
    /\ UNCHANGED <<kind, rule, ours, theirs, agree>>

Spec == Init /\ [][Next]_vars

-----------------------------------------------------------------------------
(* Properties                                                               *)

\* A fold is scored on nothing that came after it, even when the strategy
\* normalises over everything it is given: the crypto and equity desks cut the
\* history at the fold's end.
FoldIgnoresFuture ==
    \A f \in DOMAIN scores : Edge(f) <= agree => scores[f].ours = scores[f].theirs

\* The point a perps fold is scored with was chosen without any bar of the
\* fold, nor of the embargo before it.
PickIsBlind ==
    kind = "perps" => \A f \in DOMAIN scores : Edge(f - 1) - Embargo <= agree
                                  => scores[f].ours.pick = scores[f].theirs.pick

\* The folds of the crypto and equity desks, put end to end, are the track of
\* one account that ran through all of them: no bar is scored twice, none is
\* lost, and no cost of a change at an edge is dropped.
FoldsAreOneTrack ==
    (fold = Folds /\ rule \in Causal /\ kind \in {"crypto", "equity"}
        /\ \A f \in 0 .. Folds - 1 : Edge(f + 1) - Edge(f) >= MinFold)
    => SumFunction([f \in DOMAIN scores |-> scores[f].ours.net])
       = SumFunction([i \in Warmup .. Bars - 1 |-> Net(rule, ours, Bars, i)])

\* What the folds scored so far are, and what is given.
WalkInv ==
    /\ kind \in Kinds /\ rule \in Rules /\ (kind = "perps" => rule \in Causal)
    /\ ours \in [1 .. Bars -> Returns] /\ theirs \in [1 .. Bars -> Returns] /\ agree \in 1 .. Bars - 1
    /\ \A i \in 1 .. Bars : (ours[i] = theirs[i]) <=> i <= agree
    /\ fold \in 0 .. Folds
    /\ scores = [f \in 1 .. fold |-> [ours |-> Scored(ours, f - 1), theirs |-> Scored(theirs, f - 1)]]

\* A walk-forward report is honest: no fold and no pick saw what came later, and
\* the folds together are one track.
FoldsHonest == FoldIgnoresFuture /\ PickIsBlind /\ FoldsAreOneTrack
=============================================================================
