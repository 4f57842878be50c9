---------------------------- MODULE KalshiLadder ----------------------------
(***************************************************************************)
(* Strike ladders (quantfirm/kalshi/ladder.py) as the nowcast study uses   *)
(* them (scripts/kalshi_div_nowcast.py): the quotes of one event change,   *)
(* the study looks for books that lock a profit and for legs its ensemble  *)
(* disagrees with, and in the end a value is printed and every leg pays.   *)
(*                                                                         *)
(* Prices and money are cents, strikes and prints whole degrees or dollars,*)
(* ensemble members tenths of them.                                        *)
(***************************************************************************)
EXTENDS Integers, FiniteSets, Sequences, FiniteSetsExt, Functions

CONSTANTS
    Events,     \* event -> sequence of legs [type, floor, cap]
    Ladders,    \* quotes a leg may have: [bid, ask, bidSize, askSize]
    Ensembles,  \* sequences of members
    Prints      \* values the event may settle on

VARIABLES
    event,     \* the event looked at
    quotes,    \* leg number -> its top of book
    members,   \* the ensemble for the event's day
    print      \* the settlement value, once it is known

ladderVars == <<event, quotes, members, print>>

Absent == -1000
LegNumbers == DOMAIN Events[event]
Leg(i) == Events[event][i]

CeilDiv(a, b) == (a + b - 1) \div b
TakerFee(n, price) == CeilDiv(7 * n * price * (100 - price), 10000)

\* The nested strike of a leg: the bound of its open side.
Threshold(leg) ==
    CASE leg.type \in {"greater", "greater_or_equal"} -> leg.floor
      [] leg.type \in {"less", "less_or_equal"} -> leg.cap
      [] OTHER -> Absent

\* The prints a leg pays on, by its strike type, or by its bounds if it has none.
Holds(leg, x) ==
    CASE leg.type = "less" -> leg.cap # Absent /\ x < leg.cap
      [] leg.type = "less_or_equal" -> leg.cap # Absent /\ x <= leg.cap
      [] leg.type = "greater" -> leg.floor # Absent /\ x > leg.floor
      [] leg.type = "greater_or_equal" -> leg.floor # Absent /\ x >= leg.floor
      [] OTHER -> CASE leg.floor # Absent /\ leg.cap # Absent -> x \in leg.floor .. leg.cap
                    [] leg.floor # Absent /\ leg.cap = Absent -> x >= leg.floor
                    [] OTHER -> leg.cap # Absent /\ x < leg.cap
\* The first leg of the ladder that does; 0 if none does.
MatchLeg(x) ==
    LET matched == {i \in LegNumbers : Holds(Leg(i), x)}
    IN IF matched = {} THEN 0 ELSE Min(matched)

-----------------------------------------------------------------------------
(* Books that lock a profit *)

NoBook == [complete |-> FALSE, count |-> 0, edge |-> 0]

DutchFees(n, price) == SumFunction([i \in LegNumbers |-> TakerFee(n, price[i])])

\* The lots and the edge of buying, or selling, one YES of every leg.
Dutch(price, depth, gross) ==
    IF (\E i \in LegNumbers : price[i] <= 0) \/ depth < 1 THEN NoBook
    ELSE [complete |-> TRUE, count |-> depth, edge |-> depth * gross - DutchFees(depth, price)]

Ask(i) == quotes[i].ask
Bid(i) == quotes[i].bid
Asks == [i \in LegNumbers |-> Ask(i)]
Bids == [i \in LegNumbers |-> Bid(i)]
DutchBuy == Dutch(Asks, Min({quotes[i].askSize : i \in LegNumbers}), 100 - SumFunction(Asks))
DutchSell == Dutch(Bids, Min({quotes[i].bidSize : i \in LegNumbers}), SumFunction(Bids) - 100)

\* Ladder order, ties in the order listed.
Before(i, j) ==
    LET k == Threshold(Leg(i))  l == Threshold(Leg(j)) IN k < l \/ (k = l /\ i < j)

\* Neighbours with the higher strike taken for the easier one.
NeighboursReversed ==
    LET ranked == {i \in LegNumbers : Threshold(Leg(i)) # Absent}
    IN {p \in ranked \X ranked : Before(p[2], p[1]) /\ ~\E k \in ranked : Before(p[2], k) /\ Before(k, p[1])}

Neighbours ==
    LET ranked == {i \in LegNumbers : Threshold(Leg(i)) # Absent}
    IN {p \in ranked \X ranked : Before(p[1], p[2]) /\ ~\E k \in ranked : Before(p[1], k) /\ Before(k, p[2])}

\* nested_monotone: of two neighbours, buy the outer and sell the inner where
\* one lot of that makes money after fees.
Nested ==
    LET edge(p) == Bid(p[2]) - Ask(p[1]) - TakerFee(1, Ask(p[1])) - TakerFee(1, Bid(p[2]))
    IN {[outer |-> p[1], inner |-> p[2], edge |-> edge(p),
         count |-> Min({quotes[p[1]].askSize, quotes[p[2]].bidSize})] :
           p \in {q \in Neighbours : Ask(q[1]) > 0 /\ Bid(q[2]) > 0 /\ edge(q) > 0}}

-----------------------------------------------------------------------------
(* The ensemble against the book *)

\* Members are rounded to whole degrees, halves to the even one.
Rounded(t) ==
    LET low == t \div 10 IN
    IF t % 10 > 5 \/ (t % 10 = 5 /\ low % 2 = 1) THEN low + 1 ELSE low
Hits(i) == Cardinality({k \in DOMAIN members : MatchLeg(Rounded(members[k])) = i})

\* Edges of count lots, times the number of members.
YesEdge(i, count) ==
    count * (100 * Hits(i) - Ask(i) * Len(members)) - TakerFee(count, Ask(i)) * Len(members)
NoEdge(i, count) ==
    count * (Bid(i) * Len(members) - 100 * Hits(i)) - TakerFee(count, 100 - Bid(i)) * Len(members)

NoTake == [side |-> "none", price |-> 0]

\* The side with the better positive edge; a price out of range has no edge.
FeeAwareEdge(i, count, prices) ==
    LET yes == IF Ask(i) \in prices THEN YesEdge(i, count) ELSE 0
        no == IF 100 - Bid(i) \in prices THEN NoEdge(i, count) ELSE 0
    IN CASE yes > 0 /\ yes >= no -> [side |-> "yes", price |-> Ask(i)]
         [] no > 0 /\ yes < no -> [side |-> "no", price |-> 100 - Bid(i)]
         [] OTHER -> NoTake

\* The live study takes any price, that of settled events (takeable_edge) no
\* leftover under 5 and no last tick over 92.
Takes(i) == IF members = <<>> THEN {}
            ELSE {FeeAwareEdge(i, 5, 1 .. 99), FeeAwareEdge(i, 5, 5 .. 92)} \ {NoTake}

\* What a take makes at a print.
TakePnl(i, take, count, x) ==
    count * ((IF Holds(Leg(i), x) = (take.side = "yes") THEN 100 ELSE 0) - take.price)
        - TakerFee(count, take.price)

\* What the venue lists and the feeds deliver: every strike of an event once,
\* prints that include what the ensemble says.
LadderAssumption ==
    /\ \A e \in DOMAIN Events :
          /\ Events[e] \in Seq([type : STRING, floor : Int, cap : Int]) /\ Events[e] # <<>>
          /\ \A i, j \in DOMAIN Events[e] :
                Threshold(Events[e][i]) = Threshold(Events[e][j]) /\ Threshold(Events[e][i]) # Absent
                    => Events[e][i].type = Events[e][j].type
    /\ Ladders \subseteq [bid : Nat, ask : Nat, bidSize : Nat, askSize : Nat]
    /\ Prints \subseteq Int
    /\ Ensembles \subseteq Seq({t \in Int : Rounded(t) \in Prints})

-----------------------------------------------------------------------------
Init ==
    /\ event \in DOMAIN Events
    /\ quotes \in [LegNumbers -> Ladders]
    /\ members \in Ensembles
    /\ print = Absent

\* The study looks again, at one leg's new quote.
Requote(i, q) ==
    /\ print = Absent
    /\ quotes' = [quotes EXCEPT ![i] = q]
    /\ UNCHANGED <<event, members, print>>

Settle(x) ==
    /\ print = Absent
    /\ print' = x
    /\ UNCHANGED <<event, quotes, members>>

Next ==
    \/ \E i \in LegNumbers, q \in Ladders : Requote(i, q)
    \/ \E x \in Prints : Settle(x)

Spec == Init /\ [][Next]_ladderVars

-----------------------------------------------------------------------------
(* Properties *)

Pays(i) == IF Holds(Leg(i), print) THEN 100 ELSE 0

\* What a locked pair makes at the print, with the fees of its whole orders.
PairPnl(l) ==
    l.count * (Bid(l.inner) - Ask(l.outer) + Pays(l.outer) - Pays(l.inner))
        - TakerFee(l.count, Ask(l.outer)) - TakerFee(l.count, Bid(l.inner))

\* "above X" ladders: whatever is printed, a locked pair makes at least the edge
\* reported for its lots, although the fee is rounded up once per order.
NestedLockPays ==
    (print # Absent /\ \A i \in LegNumbers : Leg(i).type \notin {"less", "less_or_equal"})
        => \A l \in Nested : PairPnl(l) >= l.edge * l.count

\* Brackets of which exactly one pays on every print: whichever it is, a book
\* called tradeable made money on the legs that had a quote to trade on.
DutchPays ==
    LET bought == {i \in LegNumbers : Ask(i) > 0}
        sold == {i \in LegNumbers : Bid(i) > 0}
    IN (print # Absent /\ \A x \in Prints : Cardinality({i \in LegNumbers : Holds(Leg(i), x)}) = 1) =>
          /\ DutchBuy.edge > 0 =>
                DutchBuy.count * SumFunction([i \in bought |-> Pays(i) - Ask(i)]) > DutchFees(DutchBuy.count, Asks)
          /\ DutchSell.edge > 0 =>
                DutchSell.count * SumFunction([i \in sold |-> Bid(i) - Pays(i)]) > DutchFees(DutchSell.count, Bids)

\* Of brackets that exclude each other, a leg is taken only if the take makes
\* money, fee and all, averaged over what every member says will be printed.
TakesPayOnAverage ==
    (\A x \in Prints : Cardinality({i \in LegNumbers : Holds(Leg(i), x)}) <= 1) =>
        \A i \in LegNumbers : \A take \in Takes(i) :
            SumFunction([k \in DOMAIN members |-> TakePnl(i, take, 5, Rounded(members[k]))]) > 0

\* The study looks at one event of the venue's, with a quote for every leg, and
\* no price, size or member is missing when it is compared.
TypeOK ==
    /\ event \in DOMAIN Events /\ quotes \in [LegNumbers -> Ladders]
    /\ members \in Ensembles /\ print \in Prints \cup {Absent}

\* What the scanners call an edge is one at the print.
LadderEdgesPay == NestedLockPays /\ DutchPays /\ TakesPayOnAverage
=============================================================================
