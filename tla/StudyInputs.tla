----------------------------- MODULE StudyInputs ----------------------------
(***************************************************************************)
(* The days and bars that the small instances of the backtests and of the  *)
(* signals are given.                                                      *)
(***************************************************************************)
EXTENDS Integers

(* PerpsBacktest: closes of 8 and 10, a gap at the open, a fall to 5.      *)

Bar(o, l, c) == [o |-> o, h |-> 10, l |-> l, c |-> c]
BacktestBars == [c \in {8, 10} |-> {Bar(c, 8, 18 - c), Bar(18 - c, 8, 18 - c), Bar(c, 5, 18 - c)}]
BacktestAsked == {[btc |-> 0, gold |-> 0], [btc |-> 100, gold |-> 100], [btc |-> -60, gold |-> 60]}

(* PerpsSignals: each family gets the days on which its rule can turn.     *)

SignalDays(f) ==
    LET both == {"btc", "gold"}
        Day(b, g, n, x) == [c |-> [btc |-> b, gold |-> g], n |-> n, x |-> x]
    IN  CASE f \in {"basis_crowding", "macro_gold", "vrp_options"} ->
                {Day(p, 5, both, v) : p \in {5, 8}, v \in 1 .. 3}
          [] f = "gold_silver_ratio" -> {Day(5, p, both, 0) : p \in {3, 5, 8}}
          [] f \in {"rs_weekend_half", "rs_turn_of_month"} -> {Day(5, 5, both, 0)}
          [] OTHER -> {Day(p, 5, both, 0) : p \in {5, 6, 8}} \cup {Day(5, 5, {"gold"}, 0)}

(* PerpsPortfolios: every ranking of three coins around a metal that stays *)
(* in the middle.                                                          *)

Coins == {"btc", "eth", "sol"}
PortfolioScores ==
    {s \in [Coins \cup {"gold"} -> {-4, 2, 3, 5}] :
        s["gold"] = 3 /\ \A a, b \in Coins : s[a] # 3 /\ (a = b \/ s[a] # s[b])}
PortfolioDays(f) ==
    LET all == Coins \cup {"gold"}
        some == {all, all \ {"btc"}, all \ {"sol"}}
        Days(bars, scores, scales, own) ==
            [bar : bars, score : scores, k : scales, own : own]
        any == CHOOSE s \in PortfolioScores : TRUE
    IN  CASE f \in {"residual", "core_sleeve"} -> Days(some, PortfolioScores, {1}, {1, 4})
          [] f \in {"hold", "breadth"} -> Days(some, {any}, {0, 1, 4}, {0})
          [] f \in {"dual", "top", "ls", "rank"} -> Days(some, PortfolioScores, {1, 4}, {0})
          [] OTHER -> Days({all}, PortfolioScores, {1, 4}, {0, 4})

(* EquitySelection: every ranking of four names, one of which may have no  *)
(* score (-100).                                                           *)

Names == {"aa", "bb", "cc", "dd"}
NameScores == {s \in [Names -> {-2, 1, 2, 3}] : \A a, b \in Names : a = b \/ s[a] # s[b]}
NameScoresOrNone == NameScores \cup {[s EXCEPT !["aa"] = -100] : s \in {t \in NameScores : t["aa"] = 1}}
SelectionDays(f) ==
    LET vols == {[aa |-> 3, bb |-> 4, cc |-> 2, dd |-> 1]}
        Haven(ief, gld) == [ief |-> ief, gld |-> gld]
        Days(havens, risks, canaries) ==
            {[score |-> s, mom |-> s, iv |-> v, safe |-> g, risk |-> r, canary |-> c] :
                s \in NameScoresOrNone, v \in vols, g \in havens, r \in risks, c \in canaries}
    IN  CASE f = "refined" -> Days({Haven(2, -1)}, {2}, {TRUE})
          [] f = "canary"  -> Days({Haven(2, -1)}, {0, 2}, BOOLEAN)
          [] f \in {"residmom", "lowvol"} -> Days({Haven(2, -1)}, {0, 1}, {TRUE})
          [] OTHER -> Days({Haven(-100, -100), Haven(-1, -2), Haven(2, 1)}, 0 .. 2, BOOLEAN)
SelectionDates(f) == IF f \in {"refined", "residmom", "lowvol", "canary"} THEN 2 ELSE 1
=============================================================================
