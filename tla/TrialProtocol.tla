---------------------------- MODULE TrialProtocol ----------------------------
(***************************************************************************)
(* The research protocol of the perps desk: every backtest on the dev      *)
(* window is a trial, the deflated Sharpe of a tournament is measured      *)
(* against all of them, and the holdout is opened once per strategy by the *)
(* judge (quantfirm/perps/registry.py, tournament.py, cli.py).             *)
(* A configuration is a <<strategy, parameters>> pair.  Several commands   *)
(* run side by side: a tournament takes hours, ad-hoc backtests seconds.   *)
(***************************************************************************)
EXTENDS Integers, FiniteSets, FiniteSetsExt

CONSTANTS
    Strategies,
    Points,         \* parameter settings
    Declared,       \* the frozen trial set, a set of configurations
    MaxCommands     \* bound: commands started

Configs == Strategies \X Points
ProtocolAssumption == IsFiniteSet(Strategies) /\ IsFiniteSet(Points) /\ Declared \subseteq Configs

Splits == {"dev", "holdout", "all"}

VARIABLES
    registry,       \* trial_registry.jsonl: rows [cfg, split], append-only
    marker,         \* holdout_<strategy>.json: openings recorded, 0 = no file
    contest,        \* the tournament that runs: its N and what it has left
    judge,          \* the holdout command that runs
    verdicts,       \* observer: published N with what had been tried when it was taken
    opened,         \* observer: holdout numbers seen, [cfg, by]
    commands
vars == <<registry, marker, contest, judge, verdicts, opened, commands>>

Idle == [at |-> "idle"]
Window(split) == CASE split = "dev" -> {"dev"} [] split = "holdout" -> {"holdout"}
                   [] OTHER -> {"dev", "holdout"}

-----------------------------------------------------------------------------
(* registry.py                                                              *)

Row(c, split) == [cfg |-> c, split |-> split]
Uniques(rows, split) == {r.cfg : r \in {x \in rows : x.split = split}}

-----------------------------------------------------------------------------
(* cli.py: the ad-hoc commands                                              *)

Start == commands < MaxCommands /\ commands' = commands + 1

\* backtest --split: the holdout alone needs --i-am-the-judge.
Sealed(split, isJudge) == split = "holdout" /\ ~isJudge
Backtest(c, split, isJudge) ==
    /\ Start /\ ~Sealed(split, isJudge)
    /\ registry' = registry \cup {Row(c, split)}
    /\ opened' = IF "holdout" \in Window(split)
                 THEN opened \cup {[cfg |-> c, by |-> IF isJudge THEN "judge" ELSE "anyone"]}
                 ELSE opened
    /\ UNCHANGED <<marker, contest, judge, verdicts>>

\* walkforward: the point picked in each fold is printed and recorded.
WalkForward(s, picks) ==
    /\ Start /\ picks # {}
    /\ registry' = registry \cup {Row(<<s, p>>, "dev") : p \in picks}
    /\ UNCHANGED <<marker, contest, judge, verdicts, opened>>

\* robust: the perturbed settings it scores are not recorded.
Robust ==
    /\ Start
    /\ UNCHANGED <<registry, marker, contest, judge, verdicts, opened>>

-----------------------------------------------------------------------------
(* tournament.py: N is taken first, then every declared point is run and    *)
(* recorded, then the verdicts are published against that N.                *)

NTrialsOwn(declared) == Cardinality(declared)                     \* mutant: this run's grid
NTrials(declared) == Max({Cardinality(declared),
                          Cardinality(Uniques(registry, "dev")) + Cardinality(declared)})
Enter(families) ==
    LET declared == {c \in Declared : c[1] \in families}
    IN  /\ Start /\ contest = Idle /\ declared # {}
        /\ contest' = [at |-> "runs", n |-> NTrials(declared), left |-> declared,
                       tried |-> Uniques(registry, "dev") \cup declared]
        /\ UNCHANGED <<registry, marker, judge, verdicts, opened>>
Score ==
    /\ contest.at = "runs"
    /\ \E c \in contest.left :
          /\ registry' = registry \cup {Row(c, "dev")}
          /\ contest' = [contest EXCEPT !.left = @ \ {c}]
    /\ UNCHANGED <<marker, judge, verdicts, opened, commands>>
Publish ==
    /\ contest.at = "runs" /\ contest.left = {}
    /\ verdicts' = verdicts \cup {[n |-> contest.n, tried |-> Cardinality(contest.tried)]}
    /\ contest' = Idle
    /\ UNCHANGED <<registry, marker, judge, opened, commands>>
Abort ==                                                \* killed half-way: the rows stay
    /\ contest.at = "runs"
    /\ contest' = Idle
    /\ UNCHANGED <<registry, marker, judge, verdicts, opened, commands>>

-----------------------------------------------------------------------------
(* cli.py: holdout                                                          *)

OpenHoldout(c, force) ==
    /\ Start /\ judge = Idle
    /\ marker[c[1]] = 0 \/ force
    /\ judge' = [at |-> "scored", cfg |-> c]
    /\ UNCHANGED <<registry, marker, contest, verdicts, opened>>
Mark ==
    /\ judge.at = "scored"
    /\ marker' = [marker EXCEPT ![judge.cfg[1]] = @ + 1]
    /\ judge' = [judge EXCEPT !.at = "marked"]
    /\ UNCHANGED <<registry, contest, verdicts, opened, commands>>
Reveal ==
    /\ judge.at = "marked"
    /\ opened' = opened \cup {[cfg |-> judge.cfg, by |-> "holdout"]}
    /\ judge' = Idle
    /\ UNCHANGED <<registry, marker, contest, verdicts, commands>>
JudgeDies ==
    /\ judge # Idle
    /\ judge' = Idle
    /\ UNCHANGED <<registry, marker, contest, verdicts, opened, commands>>

-----------------------------------------------------------------------------

Init ==
    /\ registry = {} /\ marker = [s \in Strategies |-> 0]
    /\ contest = Idle /\ judge = Idle
    /\ verdicts = {} /\ opened = {} /\ commands = 0

Next ==
    \/ \E c \in Configs, split \in Splits, isJudge \in BOOLEAN : Backtest(c, split, isJudge)
    \/ \E s \in Strategies, picks \in SUBSET Points : WalkForward(s, picks)
    \/ Robust
    \/ \E families \in SUBSET Strategies : Enter(families)
    \/ Score \/ Publish \/ Abort
    \/ \E c \in Configs, force \in BOOLEAN : OpenHoldout(c, force)
    \/ Mark \/ Reveal \/ JudgeDies

Spec == Init /\ [][Next]_vars

-----------------------------------------------------------------------------
(* Properties                                                               *)

\* "N for the deflated Sharpe = everything ever tried, not just this run's
\* grid": no verdict is published against fewer trials than had been recorded
\* when it was taken, whatever else ran and however often it was restarted.
NCountsEverything == \A v \in verdicts : v.n >= v.tried

\* The judge's command never shows a holdout number that left no marker, even
\* when it is killed: a second opening is always refused or counted.
OpeningsLeaveMarker == \A o \in opened : o.by = "holdout" => marker[o.cfg[1]] > 0

\* What the protocol keeps whatever is killed: the count of trials, and the mark
\* of every opening of the holdout.
ProtocolKept == NCountsEverything /\ OpeningsLeaveMarker

-----------------------------------------------------------------------------
(* What makes these hold, as an inductive invariant.                        *)

TypeOK ==
    /\ registry \in SUBSET [cfg : Configs, split : Splits]
    /\ marker \in [Strategies -> Nat]
    /\ contest \in {Idle} \cup [at : {"runs"}, n : Nat, left : SUBSET Configs, tried : SUBSET Configs]
    /\ judge \in {Idle} \cup [at : {"scored", "marked"}, cfg : Configs]
    /\ verdicts \in SUBSET [n : Nat, tried : Nat]
    /\ opened \in SUBSET [cfg : Configs, by : {"judge", "anyone", "holdout"}]
    /\ commands \in Nat

\* The count of a running tournament covers what it was taken from, and a judge
\* that may show its number has left the mark.
ProtocolInv ==
    /\ contest # Idle => Cardinality(contest.tried) <= contest.n
    /\ judge # Idle /\ judge.at = "marked" => marker[judge.cfg[1]] > 0
    /\ ProtocolKept
=============================================================================
