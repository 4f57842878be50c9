-------------------------- MODULE KalshiStrategies --------------------------
(***************************************************************************)
(* The registered 15-minute strategies (quantfirm/kalshi/strategies.py,    *)
(* strategy.py), their fee and size (fair.py), Polymarket's favourite      *)
(* (poly.py) and the replayed cash-out rule (cashout.py): pure functions   *)
(* of what the engine sees of one market at one instant.                   *)
(*                                                                         *)
(* Prices, money and probabilities are whole cents and percents.  The      *)
(* snapshot carries what is computed from the underlying's bars: the model *)
(* probability, on which side of the strike spot is, whether the book's    *)
(* implied volatility is rich, the opening impulse and recent moves.       *)
(***************************************************************************)
EXTENDS Integers, FiniteSetsExt

CONSTANTS
    Snapshots,   \* what the engine may see when a window is first looked at
    Requotes     \* <<yes bid, yes ask>> the book may move to

VARIABLE m       \* the snapshot

\* What is known of a market.  A quote that is not there is Absent.
Snapshot ==
    [metal : STRING, bid : Int, ask : Int, tau : Int, open : Int, volume : Int, blackout : BOOLEAN,
     hour : Int, spot : STRING, fair : Int, ivRich : BOOLEAN, impulse : STRING, move : Int, fairMove : Int,
     poly : [bid : Int, ask : Int, down : Int], peer : [bid : Int, ask : Int], bankroll : Nat]

StrategyAssumption == Snapshots \subseteq Snapshot /\ Requotes \subseteq Int \X Int

Absent == -1
Sit == [side |-> "none", count |-> 0, price |-> 0]

CryptoLive == {"btc", "eth"}
CryptoOverlay == CryptoLive \cup {"sol", "doge", "xrp", "near"}

-----------------------------------------------------------------------------
(* Fees, sizes and gates *)

CeilDiv(a, b) == (a + b - 1) \div b

\* The quadratic fee of an order, up to the next cent.
TakerFee(n, price) == CeilDiv(7 * n * price * (100 - price), 10000)

Clamp(fair) == Max({2, Min({98, fair})})

\* What may be bought: a side at its price, with the probability it is sized on.
Buy(side, cost, q) == [side |-> side, cost |-> cost, q |-> q]
Edge(c) == c.q - c.cost - TakerFee(1, c.cost)

\* The first of the best, YES before NO as in the lists of candidates.
Best(cands, key) ==
    CHOOSE c \in cands : \A d \in cands : \/ key[d] < key[c]
                                          \/ key[d] = key[c] /\ (c.side = "yes" \/ d = c)
Dearest(cands) == Best(cands, [c \in cands |-> c.cost])

\* The stake cap leaves room for n lots and their fee.
Fits(n, cost, p) == 100 * (n * cost + TakerFee(n, cost)) <= p.stake * m.bankroll

\* The most lots up to want that fit, or none if that is under the minimum.
Lots(want, cost, p) ==
    LET fitting == {n \in p.count .. want : Fits(n, cost, p)} IN
    IF fitting = {} THEN 0 ELSE Max(fitting)

Order(c, n) == IF n = 0 THEN Sit ELSE [side |-> c.side, count |-> n, price |-> c.cost]

\* Kelly's share of the bankroll at the all-in cost, in lots.
KellyLots(c, p) ==
    LET allin == c.cost + TakerFee(1, c.cost) IN
    IF allin >= 100 \/ c.q <= allin THEN 0
    ELSE (p.kelly * (c.q - allin) * m.bankroll) \div (4 * (100 - allin) * c.cost)
CapLots(cost, p) == (p.stake * m.bankroll) \div (100 * cost)

\* _size: Kelly under the cap, or the whole cap; a thin edge may take the minimum lot.
Size(c, p, fillCap) ==
    LET want == IF fillCap THEN CapLots(c.cost, p) ELSE Min({KellyLots(c, p), CapLots(c.cost, p)})
    IN IF c.cost <= 0 \/ c.cost >= 100 THEN Sit
       ELSE Order(c, Lots(Max({want, p.count}), c.cost, p))

\* A one-cent fee on a small payday: the favourite is too rich to buy.
FeeEatsPayout(cost) ==
    \/ 100 * TakerFee(1, cost) > 15 * (100 - cost)
    \/ 100 - cost - TakerFee(1, cost) < 7

\* _size_lock: a win is about target percent of the bankroll.
SizeLock(c, p, target) ==
    LET want == (target * m.bankroll) \div (100 * (100 - c.cost)) IN
    IF c.cost <= 0 \/ c.cost > 97 \/ FeeEatsPayout(c.cost) THEN Sit
    ELSE Order(c, Lots(Min({CapLots(c.cost, p), Max({p.count, want})}), c.cost, p))

Quoted(price) == price # Absent
Timely(p) ==
    /\ m.tau \in p.first .. p.last
    /\ m.open < p.open /\ ~m.blackout
    /\ m.volume = Absent \/ m.volume >= p.volume

\* _gates: a two-sided book as well, no wider than allowed.
Gates(p) ==
    /\ Timely(p)
    /\ Quoted(m.bid) /\ Quoted(m.ask)
    /\ m.ask - m.bid \in 0 .. p.spread

Yes(q) == IF Quoted(m.ask) THEN {Buy("yes", m.ask, q)} ELSE {}
No(q) == IF Quoted(m.bid) THEN {Buy("no", 100 - m.bid, q)} ELSE {}
InBand(cands, p) == {c \in cands : c.cost \in p.low .. p.high}

-----------------------------------------------------------------------------
(* Favourites *)

\* An assumed bias of three points, not a forecast.
Bias(cands) == {[c EXCEPT !.q = Min({97, c.cost + 3})] : c \in cands}

FavoriteBlind(p, fillCap) ==
    LET cands == {c \in InBand(Bias(Yes(0) \cup No(0)), p) : ~FeeEatsPayout(c.cost)} IN
    IF \/ ~Timely(p) \/ cands = {}
       \/ Quoted(m.bid) /\ Quoted(m.ask) /\ m.ask < m.bid
    THEN Sit
    ELSE Size(Dearest(cands), p, fillCap)

\* crypto_params: a quarter of Kelly, four percent, at least 75 cents.
CryptoParams(p) ==
    [p EXCEPT !.low = 75, !.high = 92, !.stake = 4, !.kelly = 1, !.first = 0, !.last = 900,
              !.count = 4, !.spread = 100, !.volume = 0]

\* The side a venue's quotes favour at min cents or more.
Favorite(yes, no, min) ==
    LET cands == {c \in {Buy("yes", yes, 0), Buy("no", no, 0)} : Quoted(c.cost) /\ c.cost >= min} IN
    IF cands = {} THEN "none" ELSE Dearest(cands).side

HasPoly == Quoted(m.poly.bid) \/ Quoted(m.poly.ask)
PolyFavorite(min) ==
    Favorite(m.poly.ask,
             CASE Quoted(m.poly.down) -> m.poly.down
               [] ~Quoted(m.poly.down) /\ Quoted(m.poly.bid) -> 100 - m.poly.bid
               [] OTHER -> Absent,
             min)

Unless(sit, order) == IF sit THEN Sit ELSE order

\* desk_book and its overrides.
Plain == [wait |-> 180, spread |-> 100, move |-> 100, low |-> Absent, high |-> Absent,
          first |-> Absent, noEth |-> FALSE]
Or(value, default) == IF value = Absent THEN default ELSE value
DeskBook(p, over) ==
    LET crypto == m.metal \in CryptoOverlay
        base == IF crypto THEN CryptoParams(p) ELSE p
        own == [base EXCEPT !.last = 900 - over.wait, !.low = Or(over.low, @),
                            !.high = Or(over.high, @), !.first = Or(over.first, @)]
        order == FavoriteBlind(own, crypto)
    IN Unless(\/ over.noEth /\ m.metal = "eth"
              \/ Quoted(m.bid) /\ Quoted(m.ask) /\ m.ask - m.bid > over.spread
              \/ m.move > over.move \/ -m.move > over.move
              \/ crypto /\ HasPoly /\ PolyFavorite(55) # order.side,
              order)

\* settle_ride, longshot_no, same_side_book, spot_desk, poly_confirm, poly_book.
SettleRide(p) ==
    LET base == IF m.metal \in CryptoLive THEN CryptoParams(p) ELSE p IN
    FavoriteBlind([base EXCEPT !.first = 60, !.last = 300, !.low = 70], m.metal \in CryptoLive)

LongshotNo(p) ==
    LET cands == {c \in Bias(No(0)) : c.cost >= 81 /\ ~FeeEatsPayout(c.cost)} IN
    IF m.tau \notin p.first .. p.last \/ m.ask \notin 2 .. 19 \/ cands = {} THEN Sit
    ELSE Size(CHOOSE c \in cands : TRUE, p, TRUE)

SameSideBook(p) ==
    LET order == DeskBook(p, Plain)
        peer == Favorite(m.peer.ask, IF Quoted(m.peer.bid) THEN 100 - m.peer.bid ELSE Absent, 60)
    IN Unless(m.metal \in CryptoLive /\ peer # order.side, order)

Agrees(side) == (side = "yes" /\ m.spot = "above") \/ (side = "no" /\ m.spot = "below")
SpotDesk(p) ==
    LET order == DeskBook(p, Plain) IN Unless(~Agrees(order.side), order)

PolyConfirm(p) ==
    LET order == DeskBook(p, Plain) IN
    Unless(m.metal \in CryptoLive /\ HasPoly /\ PolyFavorite(55) # order.side, order)

PolyBook(p) ==
    LET order == FavoriteBlind([CryptoParams(p) EXCEPT !.low = p.low], TRUE) IN
    Unless(m.metal \notin CryptoLive \/ ~HasPoly \/ PolyFavorite(60) # order.side, order)

-----------------------------------------------------------------------------
(* Locks, models and controls *)

\* one_pct: spot agrees, or there is no spot.
OnePct(p, target) ==
    LET cands == {c \in InBand(Yes(0) \cup No(0), p) : m.spot = "none" \/ Agrees(c.side)} IN
    IF ~Gates(p) \/ cands = {} THEN Sit
    ELSE SizeLock(Dearest(cands), p, target)

\* favorite_confirmed, late_lock and model_fav: the model is sure of a side
\* that is still cheap enough.
ModelAgrees(p, sure, theta) ==
    LET fair == Clamp(m.fair)
        cands == {c \in InBand(Yes(fair) \cup No(100 - fair), p) : c.q >= sure /\ Edge(c) >= theta}
    IN IF ~Gates(p) \/ cands = {} THEN Sit ELSE Size(CHOOSE c \in cands : TRUE, p, FALSE)

\* open_fade and open_follow: 55 percent against or with the first three minutes.
OpenImpulse(p, with) ==
    LET up == IF with THEN m.impulse = "up" ELSE m.impulse = "down"
        cands == {c \in InBand(IF up THEN Yes(55) ELSE No(55), p) : Edge(c) >= 0}
    IN IF ~Gates(p) \/ m.impulse = "none" \/ m.tau > 660 \/ cands = {} THEN Sit
       ELSE Size(CHOOSE c \in cands : TRUE, p, FALSE)

\* always_yes, always_no and coin_flip: one minute of the window, no opinion.
Control(p, cands, band, minute) ==
    LET taken == {c \in cands : c.cost \in band} IN
    IF ~Gates(p) \/ m.tau \notin minute .. minute + 59 \/ taken = {} THEN Sit
    ELSE Size(CHOOSE c \in taken : TRUE, p, FALSE)

Longshot(p) ==
    LET cands == {[c EXCEPT !.q = Min({40, c.cost + 8})] : c \in InBand(Yes(0) \cup No(0), p)} IN
    IF ~Gates(p) \/ cands = {} THEN Sit ELSE Size(Best(cands, [c \in cands |-> -c.cost]), p, FALSE)

\* decide: the better edge if it reaches theta; no minimum lot and no fee in the cap.
Oracle(p) ==
    LET fair == Clamp(m.fair)
        flow == m.move \notin -3 .. 3 /\ m.fairMove \in -1 .. 1
        cands == InBand(Yes(fair) \cup No(100 - fair), p)
        c == Best(cands, [b \in cands |-> Edge(b)])
        n == Min({KellyLots(c, p), CapLots(c.cost, p)})
    IN IF ~Gates(p) \/ (p.flowOnly /\ ~flow) \/ cands = {} THEN Sit
       ELSE IF Edge(c) < p.theta \/ n < p.count THEN Sit ELSE Order(c, n)

\* yolo_book: a lock in the last 90 seconds, a rich favourite, then the impulse.
YoloBook(p) ==
    LET part(first, last, low, high, spread) ==
            [p EXCEPT !.first = first, !.last = last, !.low = low, !.high = high, !.spread = spread]
        sprint == OnePct(part(8, 90, 88, 97, 6), 4)
        rich == FavoriteBlind(part(180, 660, 88, 94, 6), FALSE)
    IN CASE sprint # Sit -> sprint
         [] sprint = Sit /\ rich # Sit -> rich
         [] OTHER -> OpenImpulse(part(120, 660, 20, 85, 8), TRUE)

-----------------------------------------------------------------------------
(* The registry *)

\* _p: the defaults, then tau, price band and theta.
P(fn, first, last, low, high, theta) ==
    [fn |-> fn, first |-> first, last |-> last, low |-> low, high |-> high, theta |-> theta,
     kelly |-> 1, stake |-> 8, count |-> 5, open |-> 2, spread |-> 6, volume |-> 80, flowOnly |-> FALSE]
Lock(fn, first, last) ==
    [P(fn, first, last, 88, 94, 0) EXCEPT !.open = 6, !.stake = 4, !.count = 4, !.spread = 4, !.volume = 40]
Overlay(fn, low) ==
    [P(fn, 0, 900, low, 94, 0) EXCEPT !.open = 7, !.count = 4, !.spread = 100, !.volume = 0, !.kelly = 2]
Risky(fn, first, last, low, high, stake, kelly) ==
    [P(fn, first, last, low, high, 0) EXCEPT !.open = 7, !.stake = stake, !.count = 4, !.volume = 20, !.kelly = kelly]

Priors ==
    [ctrl_always_yes |-> P("always_yes", 120, 780, 5, 99, 0),
     ctrl_always_no |-> P("always_no", 120, 780, 5, 99, 0),
     ctrl_coin_flip |-> [P("coin_flip", 120, 780, 40, 60, 0) EXCEPT !.spread = 8],
     oracle_lag |-> P("oracle", 300, 600, 35, 92, 7),
     oracle_flow |-> [P("oracle", 180, 720, 30, 92, 5) EXCEPT !.flowOnly = TRUE],
     favorite_blind |-> P("favorite_blind", 180, 720, 72, 94, 0),
     favorite_div |-> [P("favorite_blind", 180, 720, 72, 94, 0) EXCEPT !.open = 5, !.stake = 4, !.count = 4],
     one_pct |-> [P("one_pct", 8, 90, 90, 97, 0) EXCEPT !.open = 6, !.count = 4, !.spread = 4, !.volume = 40],
     mid_lock |-> Lock("one_pct", 180, 300), spot_lock |-> Lock("one_pct", 180, 660),
     offhours_lock |-> Lock("offhours_lock", 180, 660)]

Overlays ==
    [rich_fav |-> [Overlay("favorite_blind", 60) EXCEPT !.open = 6],
     crypto_fav |-> [Overlay("crypto_fav", 75) EXCEPT !.high = 92, !.open = 6, !.stake = 4, !.kelly = 1],
     desk_book |-> Overlay("desk_book", 75),
     wait7_book |-> Overlay("wait7_book", 60), persist_book |-> Overlay("persist_book", 60),
     tight_book |-> Overlay("tight_book", 60), late_sit_book |-> Overlay("late_sit_book", 60),
     richer_wait |-> Overlay("richer_wait", 68), no_eth_book |-> Overlay("no_eth_book", 60),
     settle_ride |-> [Overlay("settle_ride", 70) EXCEPT !.first = 60, !.last = 300],
     longshot_no |-> [Overlay("longshot_no", 81) EXCEPT !.first = 180, !.last = 720, !.high = 98,
                                                         !.stake = 4, !.kelly = 1],
     dir_zone |-> [Overlay("dir_zone", 25) EXCEPT !.high = 58, !.stake = 4, !.kelly = 1],
     same_side_book |-> Overlay("same_side_book", 60), spot_desk |-> Overlay("spot_desk", 60),
     poly_confirm |-> Overlay("poly_confirm", 60),
     poly_book |-> [Overlay("poly_book", 60) EXCEPT !.high = 92, !.open = 2, !.stake = 4, !.kelly = 1]]

Models ==
    [model_fav |-> [P("model_fav", 120, 360, 80, 94, 3) EXCEPT !.open = 6, !.stake = 4, !.count = 4, !.volume = 40],
     favorite_confirmed |-> P("favorite_confirmed", 180, 720, 68, 94, 0),
     late_lock |-> [P("late_lock", 90, 360, 50, 96, 3) EXCEPT !.spread = 8],
     open_fade |-> P("open_fade", 120, 660, 20, 85, 0), open_follow |-> P("open_follow", 120, 660, 20, 85, 0),
     session_favorite |-> P("session_favorite", 180, 720, 68, 94, 0),
     iv_rich_favorite |-> P("iv_rich_favorite", 180, 600, 60, 94, 0),
     sprint |-> Risky("one_pct", 8, 90, 88, 97, 15, 1),
     yolo_lock |-> Risky("favorite_blind", 180, 660, 88, 94, 18, 4),
     nuke_lock |-> Risky("favorite_blind", 180, 660, 88, 94, 35, 12),
     longshot |-> [Risky("longshot", 120, 720, 8, 22, 10, 1) EXCEPT !.spread = 8],
     yolo_follow |-> [Risky("open_follow", 120, 660, 20, 85, 15, 1) EXCEPT !.spread = 8],
     yolo_book |-> [Risky("yolo_book", 8, 780, 5, 97, 15, 4) EXCEPT !.spread = 8]]

Registry ==
    LET priors == Priors
        overlays == Overlays
        models == Models
    IN [s \in (DOMAIN priors) \cup (DOMAIN overlays) \cup (DOMAIN models) |->
           CASE s \in DOMAIN priors -> priors[s]
             [] s \in DOMAIN overlays -> overlays[s]
             [] s \in DOMAIN models -> models[s]]

\* What a strategy with parameters p would order now.
Chosen(p) ==
    CASE p.fn = "always_yes" -> Control(p, Yes(50), 1 .. 98, 600)
      [] p.fn = "always_no" -> Control(p, No(50), 1 .. 98, 600)
      [] p.fn = "coin_flip" -> Control(p, Yes(50), 45 .. 55, 540)
      [] p.fn = "oracle" -> Oracle(p)
      [] p.fn = "favorite_blind" -> FavoriteBlind(p, FALSE)
      [] p.fn = "crypto_fav" -> FavoriteBlind(p, TRUE)
      [] p.fn = "one_pct" -> OnePct(p, 1)
      [] p.fn = "offhours_lock" -> Unless(m.hour \in 12 .. 20, OnePct(p, 1))
      [] p.fn = "desk_book" -> DeskBook(p, Plain)
      [] p.fn = "wait7_book" -> DeskBook(p, [Plain EXCEPT !.wait = 420])
      [] p.fn = "persist_book" -> DeskBook(p, [Plain EXCEPT !.move = 8])
      [] p.fn = "tight_book" -> DeskBook(p, [Plain EXCEPT !.spread = 3])
      [] p.fn = "late_sit_book" -> DeskBook(p, [Plain EXCEPT !.first = 120])
      [] p.fn = "richer_wait" -> DeskBook(p, [Plain EXCEPT !.low = 68])
      [] p.fn = "no_eth_book" -> DeskBook(p, [Plain EXCEPT !.noEth = TRUE])
      [] p.fn = "dir_zone" -> DeskBook(p, [Plain EXCEPT !.wait = 420, !.low = 25, !.high = 58])
      [] p.fn = "settle_ride" -> SettleRide(p)
      [] p.fn = "longshot_no" -> LongshotNo(p)
      [] p.fn = "same_side_book" -> SameSideBook(p)
      [] p.fn = "spot_desk" -> SpotDesk(p)
      [] p.fn = "poly_confirm" -> PolyConfirm(p)
      [] p.fn = "poly_book" -> PolyBook(p)
      [] p.fn = "model_fav" -> ModelAgrees(p, 88, p.theta)
      [] p.fn = "late_lock" -> ModelAgrees([p EXCEPT !.low = 0], 88, p.theta)
      [] p.fn = "favorite_confirmed" -> ModelAgrees(p, 62, 0)
      [] p.fn = "session_favorite" -> Unless(m.hour \notin 12 .. 16, ModelAgrees(p, 62, 0))
      [] p.fn = "iv_rich_favorite" -> Unless(~m.ivRich, ModelAgrees(p, 62, 0))
      [] p.fn = "open_fade" -> OpenImpulse(p, FALSE)
      [] p.fn = "open_follow" -> OpenImpulse(p, TRUE)
      [] p.fn = "longshot" -> Longshot(p)
      [] p.fn = "yolo_book" -> YoloBook(p)

\* What strategy s would order now.
Decide(s) == Chosen(Registry[s])

-----------------------------------------------------------------------------
(* The cash-out rule of the replays *)

HeldEntry(side) ==
    CASE side = "yes" /\ Quoted(m.ask) -> m.ask
      [] side = "yes" /\ ~Quoted(m.ask) -> m.bid
      [] side = "no" /\ Quoted(m.bid) -> 100 - m.bid
      [] OTHER -> Absent
HeldExit(side) ==
    CASE side = "yes" -> m.bid
      [] side = "no" /\ Quoted(m.ask) -> 100 - m.ask
      [] OTHER -> Absent

\* A cash-out that looks at what the position would sell for.
CashOutAtBid(side) ==
    /\ Quoted(HeldExit(side))
    /\ \/ HeldExit(side) < 60
       \/ m.metal \in CryptoLive /\ HasPoly /\ PolyFavorite(55) # side

\* The signal is dead: the book, or Poly's favourite, would not take this side.
CashOut(side) ==
    /\ Quoted(HeldEntry(side))
    /\ \/ HeldEntry(side) < 60
       \/ m.metal \in CryptoLive /\ HasPoly /\ PolyFavorite(55) # side

-----------------------------------------------------------------------------
Init == m \in Snapshots

\* The book moves, or goes on to the next minute of the window.
Requote == \E r \in Requotes : m' = [m EXCEPT !.bid = r[1], !.ask = r[2]]
Minute == m.tau > 60 /\ m' = [m EXCEPT !.tau = @ - 60]

Next == Requote \/ Minute

Spec == Init /\ [][Next]_m

-----------------------------------------------------------------------------
(* Properties *)

Affordable(order, p) ==
    order # Sit /\ p.fn # "oracle" =>
        /\ order.count >= p.count
        /\ 100 * (order.count * order.price + TakerFee(order.count, order.price)) <= p.stake * m.bankroll

\* Whatever path a size took (Kelly, the whole cap, a minimum lot, a lock's
\* target), its cost and the order's fee are within the strategy's share of the
\* bankroll; strategy.decide, whose cap is documented without the fee, aside.
StakeCapped == \A s \in DOMAIN Registry : Affordable(Decide(s), Registry[s])

Alive(order) == order # Sit => ~CashOut(order.side)

\* What desk_book would buy now is not a position that the cash-out rule sells
\* at once, in one-sided and wide books too ("same as desk_book entry").
EntryIsAlive == Alive(Decide("desk_book"))

TypeOK == m \in Snapshot

\* An entry is affordable and worth holding.
EntriesSound == StakeCapped /\ EntryIsAlive
=============================================================================
