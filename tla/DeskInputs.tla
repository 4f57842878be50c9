----------------------------- MODULE DeskInputs -----------------------------
(***************************************************************************)
(* What the small instances of the options desk, the incentive quoter and  *)
(* the market studies of the Kalshi desk are given to look at.             *)
(***************************************************************************)
EXTENDS Integers

(* OptionsDesk: three expiries of an index, one of a name.                 *)

Contract(u, k, x, e) == [under |-> u, kind |-> k, strike |-> x, expiry |-> e]
OptionChain ==
    [p1 |-> Contract("index", "put", 100, 3), p2 |-> Contract("index", "put", 80, 3),
     p3 |-> Contract("index", "put", 60, 3),  q1 |-> Contract("index", "put", 100, 6),
     q2 |-> Contract("index", "put", 80, 6),  r1 |-> Contract("index", "call", 80, 6),
     r2 |-> Contract("index", "call", 100, 6), c1 |-> Contract("name", "call", 90, 4)]
OptionQuotes ==
    LET all == DOMAIN OptionChain
        Day(spot, slip, fresh, settle) ==
            [spot |-> spot, time |-> 4, slip |-> slip, fresh |-> fresh, settle |-> settle, rising |-> TRUE]
    IN  {Day(92, 1, all, TRUE), Day(70, 1, all, TRUE), Day(50, 3, all, FALSE), Day(110, 3, all, TRUE),
         Day(90, 1, {"p1", "p2", "c1"}, FALSE), Day(72, 0, all \ {"p1"}, FALSE)}

(* KalshiStrategies: what the engine sees when it first looks at a window, *)
(* and where the book may go from there.  -1 is a quote that is not there. *)

Pair(b, a) == [bid |-> b, ask |-> a]
Poly(b, a, d) == [bid |-> b, ask |-> a, down |-> d]
Snapshot(metal, x, poly) ==
    [metal |-> metal, bid |-> 58, ask |-> 61, tau |-> 870, open |-> x.open, volume |-> x.volume, blackout |-> FALSE,
     hour |-> x.hour, spot |-> x.spot, fair |-> x.fair, ivRich |-> x.fair > 60, impulse |-> x.impulse,
     move |-> x.move, fairMove |-> 0, poly |-> poly, peer |-> x.peer, bankroll |-> x.bankroll]
Usual == [open |-> 0, volume |-> 100, hour |-> 13, spot |-> "above", fair |-> 95, impulse |-> "up", move |-> 0,
          peer |-> Pair(76, 79), bankroll |-> 25000]
Views == {Usual, [Usual EXCEPT !.spot = "below", !.fair = 4, !.impulse = "down", !.hour = 22],
          [Usual EXCEPT !.spot = "none", !.fair = 68, !.impulse = "none", !.peer = Pair(20, 22)],
          [Usual EXCEPT !.open = 6, !.volume = -1, !.bankroll = 9000],
          [Usual EXCEPT !.open = 1, !.volume = 30, !.bankroll = 3300], [Usual EXCEPT !.move = 9, !.fair = 80]}
Polys == {Poly(-1, -1, -1), Poly(60, 62, -1), Poly(31, 35, 68), Poly(70, -1, -1)}
WindowSnapshots == {Snapshot("gold", x, Poly(-1, -1, -1)) : x \in Views}
                   \cup {Snapshot("btc", x, y) : x \in Views, y \in Polys}
                   \cup {Snapshot("eth", x, Poly(31, 35, 68)) : x \in Views}
WindowRequotes ==
    {<<73, 78>>, <<86, 89>>, <<92, 94>>, <<42, 48>>, <<20, 24>>, <<4, 7>>, <<40, 84>>, <<15, 62>>, <<-1, 83>>,
     <<14, -1>>, <<80, 70>>}

(* KalshiReplay: two windows of one metal, a long one of another.          *)

Candle(bid, ask, bo, ao, bl, ah, lo, hi, v, r) ==
    [bid |-> bid, ask |-> ask, bidOpen |-> bo, askOpen |-> ao, bidLow |-> bl, askHigh |-> ah,
     low |-> lo, high |-> hi, volume |-> v, recent |-> r]
ReplayWindows == [g1 |-> [open |-> 0, close |-> 3, group |-> "gold"],
                  s1 |-> [open |-> 0, close |-> 8, group |-> "silver"],
                  g2 |-> [open |-> 3, close |-> 6, group |-> "gold"]]
ReplayCandles == {Candle(60, 62, 60, 62, 60, 62, 60, 61, 2, 3), Candle(64, 66, 60, 62, 58, 68, 57, 68, 4, 6),
                  Candle(61, 62, 61, 62, 61, 62, 61, 61, 0, 3)}

(* KalshiLadder: a bracket ladder and a ladder of thresholds.  -1000 is a  *)
(* strike that is not there.                                               *)

Rung(t, f, c) == [type |-> t, floor |-> f, cap |-> c]
Top(b, a, bs, as) == [bid |-> b, ask |-> a, bidSize |-> bs, askSize |-> as]
LadderEvents ==
    [weather |-> <<Rung("less", -1000, 70), Rung("between", 70, 71), Rung("greater", 71, -1000)>>,
     cpi |-> <<Rung("greater", 71, -1000), Rung("greater_or_equal", 70, -1000), Rung("greater", 68, -1000)>>]
LadderQuotes == {Top(20, 24, 3, 3), Top(33, 34, 2, 9), Top(60, 62, 1, 4), Top(0, 30, 0, 5), Top(44, 0, 3, 0),
                 Top(2, 3, 9, 7), Top(35, 37, 50, 4)}
LadderEnsembles == {<<>>, <<695, 705, 715, 712>>, <<690, 698, 702>>, <<725>>, <<702, 705, 717, 699, 684, 708>>}

(* OwnerConfig: three releases of two profiles, one of which changes. *)

Block(strategy, params) == [strategy |-> strategy, params |-> params, bankroll |-> 250]
ShippedBlocks ==
    << [steady |-> Block("allweather", [window |-> 35]), bold |-> Block("refined", [window |-> 55, top |-> 4])],
       [steady |-> Block("allweather", [window |-> 35]), bold |-> Block("refined", [window |-> 55, top |-> 2])],
       [steady |-> Block("allweather", [window |-> 40]), bold |-> Block("refined", [window |-> 55, top |-> 2])] >>

(* PerpsWatch: a thin history, a quiet one, and live ones next to the line.*)

Reading(n, zero, carry) == [n |-> n, zero |-> zero, carry |-> carry]
FundingReadings == {Reading(20, 10, 9), Reading(90, 90, 1), Reading(90, 55, 4), Reading(90, 45, 5),
                    Reading(90, 40, 12)}
=============================================================================
