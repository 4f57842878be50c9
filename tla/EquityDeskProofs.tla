-------------------------- MODULE EquityDeskProofs --------------------------
(***************************************************************************)
(* Theorems about the equity desk, for every set of symbols and prices,    *)
(* any number of days, deaths and deposits; and, at the end, about what    *)
(* EquitySelection asks the desk to hold.                                  *)
(***************************************************************************)
EXTENDS EquityDesk, SumTheorems

-----------------------------------------------------------------------------
(* Orders and what they come to.                                           *)

\* A finite set of orders comes to a number of dollars, one more order adds its
\* own, and one order less takes them off.
LEMMA DollarsNat ==
    ASSUME NEW T \in SUBSET Order, IsFiniteSet(T)
    PROVE  Dollars(T) \in Nat
<1> DEFINE f == [o \in T |-> o.dollars]
<1>1. \A o \in T : f[o] \in Nat
    BY DEF Order
<1>2. DOMAIN f = T
    OBVIOUS
<1>3. SumFunctionOnSet(f, T) \in Nat
    <2> HIDE DEF f
    <2> QED BY <1>1, SumNat
<1> QED
    BY <1>2, <1>3 DEF Dollars, SumFunction

LEMMA DollarsNone == Dollars({}) = 0
BY SumEmpty DEF Dollars, SumFunction

LEMMA DollarsAdd ==
    ASSUME NEW T \in SUBSET Order, IsFiniteSet(T), NEW o \in Order, o \notin T
    PROVE  Dollars(T \cup {o}) = Dollars(T) + o.dollars
<1> DEFINE f == [x \in T |-> x.dollars]
           g == [x \in T \cup {o} |-> x.dollars]
<1>1. /\ DOMAIN f = T /\ DOMAIN g = T \cup {o}
      /\ \A x \in T : f[x] \in Int /\ g[x] = f[x]
      /\ g[o] \in Int
    BY DEF Order
<1>2. Dollars(T) = SumFunction(f) /\ Dollars(T \cup {o}) = SumFunction(g)
    BY DEF Dollars
<1>3. g[o] = o.dollars
    OBVIOUS
<1> HIDE DEF f, g
<1>4. SumFunction(g) = SumFunction(f) + g[o] /\ SumFunction(f) \in Int
    BY <1>1, SumGrows, ZenonT(60)
<1> QED
    BY <1>2, <1>3, <1>4

LEMMA DollarsRemove ==
    ASSUME NEW T \in SUBSET Order, IsFiniteSet(T), NEW o \in T
    PROVE  Dollars(T) = Dollars(T \ {o}) + o.dollars
<1>1. IsFiniteSet(T \ {o}) /\ T = (T \ {o}) \cup {o} /\ o \notin T \ {o}
    BY FS_RemoveElement
<1>2. Dollars((T \ {o}) \cup {o}) = Dollars(T \ {o}) + o.dollars
    BY <1>1, DollarsAdd
<1> QED
    BY <1>1, <1>2

\* What is bought of a name is a number of dollars within what is left.
LEMMA AmountFits ==
    ASSUME NumberAssumption, NEW w \in Int, NEW p \in Prices, NEW left \in Int
    PROVE  Amount(w, p, left) \in Nat /\ Amount(w, p, left) <= Larger(0, left)
<1> DEFINE x == Smaller(w, Larger(0, left))
           whole == (x \div p) * p
<1>1. x \in Int /\ x <= Larger(0, left) /\ Larger(0, left) \in Nat
    BY DEF Smaller, Larger
<1>2. p \in Nat /\ p > 0 /\ MinOrder \in Nat
    BY DEF NumberAssumption
<1>3. whole \in Int /\ whole <= x
    <2> HIDE DEF x
    <2>1. x \div p \in Int /\ x % p \in 0 .. p - 1 /\ x = p * (x \div p) + (x % p)
        BY <1>1, <1>2
    <2> QED BY <1>1, <1>2, <2>1
<1> HIDE DEF x
<1>4. Amount(w, p, left) = IF whole < MinOrder THEN 0 ELSE whole
    BY DEF Amount, x
<1> HIDE DEF whole
<1> QED
    BY <1>1, <1>2, <1>3, <1>4

\* What is spent is the recursion's, and never more than the budget.
LEMMA SpentFits ==
    ASSUME NumberAssumption, price \in [Symbols -> Prices],
           NEW want \in [Symbols -> Int], NEW rank \in [1 .. Cardinality(Symbols) -> Symbols],
           NEW budget \in Int
    PROVE  LET N == Cardinality(Symbols)
               spent == Spent(want, rank, budget)
           IN  /\ spent \in [0 .. N -> Nat] /\ spent[0] = 0
               /\ \A n \in 0 .. N : spent[n] <= Larger(0, budget)
               /\ \A n \in 1 .. N : spent[n] >= spent[n - 1]
<1> DEFINE N == Cardinality(Symbols)
           V == 0 .. Larger(0, budget)
           Bought(n, x) == Amount(want[rank[n]], price[rank[n]], budget - x)
           step == [n \in 1 .. N |-> [x \in V |-> x + Bought(n, x)]]
<1>0. N \in Nat
    BY FS_CardinalityType DEF NumberAssumption
<1>1. Larger(0, budget) \in Nat /\ (budget > 0 => Larger(0, budget) = budget)
      /\ (budget <= 0 => Larger(0, budget) = 0)
    BY DEF Larger
<1>2. ASSUME NEW n \in 1 .. N, NEW x \in V
      PROVE  Bought(n, x) \in Nat /\ x + Bought(n, x) \in V
    <2>1. x \in Nat /\ x <= Larger(0, budget) /\ budget - x \in Int
        BY <1>1
    <2>2. want[rank[n]] \in Int /\ price[rank[n]] \in Prices
        OBVIOUS
    <2>3. Bought(n, x) \in Nat /\ Bought(n, x) <= Larger(0, budget - x)
        BY <2>1, <2>2, AmountFits
    <2>4. Larger(0, budget - x) = IF 0 >= budget - x THEN 0 ELSE budget - x
        BY DEF Larger
    <2> HIDE DEF Bought
    <2> QED
        BY <1>1, <2>1, <2>3, <2>4
<1> HIDE DEF Bought
<1>3. step \in [1 .. N -> [V -> V]]
    <2> HIDE DEF V, N
    <2> QED BY <1>2
<1>4. 0 \in V /\ \A n \in 1 .. N, x \in V : step[n][x] = x + Bought(n, x)
    BY <1>1
<1> HIDE DEF step
<1>5. PICK f \in [0 .. N -> V] : Unrolls(f, 0, step, N)
    <2> HIDE DEF V, N
    <2> QED BY <1>0, <1>3, <1>4, FiniteRecursion
<1>6. f = [n \in 0 .. N |-> IF n = 0 THEN 0 ELSE f[n - 1] + Bought(n, f[n - 1])]
    <2> DEFINE g == [n \in 0 .. N |-> IF n = 0 THEN 0 ELSE f[n - 1] + Bought(n, f[n - 1])]
    <2>1. ASSUME NEW n \in 0 .. N PROVE f[n] = g[n]
        <3>1. CASE n = 0
            BY <1>5, <3>1 DEF Unrolls
        <3>2. CASE n # 0
            <4>1. n \in 1 .. N /\ f[n - 1] \in V
                BY <1>0, <3>2
            <4> HIDE DEF V, N
            <4> QED BY <1>4, <1>5, <3>2, <4>1 DEF Unrolls
        <3> QED BY <3>1, <3>2
    <2>2. DOMAIN f = 0 .. N
        OBVIOUS
    <2> HIDE DEF V, N
    <2> QED BY <2>1, <2>2
<1> DEFINE spent == Spent(want, rank, budget)
<1>7. spent = [n \in 0 .. N |-> IF n = 0 THEN 0 ELSE spent[n - 1] + Bought(n, spent[n - 1])]
    BY <1>6, Zenon DEF Spent, Bought
<1> HIDE DEF spent
<1> DEFINE G == {n \in Nat : n <= N => spent[n] \in V}
<1>8. 0 \in G
    BY <1>1, <1>7
<1>9. \A n \in Nat : n \in G => n + 1 \in G
    <2> SUFFICES ASSUME NEW n \in Nat, n \in G, n + 1 <= N PROVE spent[n + 1] \in V
        OBVIOUS
    <2>1. spent[n + 1] = spent[n] + Bought(n + 1, spent[n])
        BY <1>0, <1>7
    <2> QED BY <1>0, <1>2, <2>1
<1>10. \A n \in 0 .. N : spent[n] \in V
    <2> HIDE DEF G
    <2>1. Nat \subseteq G
        BY <1>8, <1>9, NatSetInduction
    <2> QED BY <1>0, <2>1 DEF G
<1>11. ASSUME NEW n \in 1 .. N PROVE spent[n] >= spent[n - 1]
    <2>1. n - 1 \in 0 .. N /\ n \in 0 .. N
        BY <1>0
    <2>2. spent[n - 1] \in V /\ spent[n] = spent[n - 1] + Bought(n, spent[n - 1])
        BY <1>7, <1>10, <2>1
    <2>3. Bought(n, spent[n - 1]) \in Nat
        BY <1>2, <2>2
    <2>4. spent[n - 1] \in Nat
        BY <1>1, <2>2
    <2> QED BY <2>2, <2>3, <2>4
<1>12. spent \in [0 .. N -> Nat] /\ spent[0] = 0
    <2>1. spent[0] = 0
        BY <1>0, <1>7
    <2>2. \A n \in 0 .. N : spent[n] \in Nat
        BY <1>1, <1>10
    <2>3. spent = [n \in 0 .. N |-> spent[n]]
        <3> HIDE DEF N
        <3> QED BY <1>7
    <2> QED BY <2>1, <2>2, <2>3
<1> QED
    BY <1>1, <1>10, <1>11, <1>12 DEF spent
\* Buys are finitely many orders that come to no more than the budget.
LEMMA BuysFit ==
    ASSUME NumberAssumption, price \in [Symbols -> Prices],
           NEW want \in [Symbols -> Int], NEW target, NEW rank \in Rankings(target),
           NEW budget \in Int
    PROVE  LET buys == Buys(want, rank, budget)
           IN  /\ buys \in SUBSET Order /\ IsFiniteSet(buys)
               /\ \A o \in buys : o.side = "buy"
               /\ Dollars(buys) <= Larger(0, budget)
<1> DEFINE N == Cardinality(Symbols)
           spent == Spent(want, rank, budget)
           order(n) == [symbol |-> rank[n], side |-> "buy", dollars |-> spent[n] - spent[n - 1]]
           Upto(k) == {order(n) : n \in {n \in 1 .. k : spent[n] > spent[n - 1]}}
<1>0. N \in Nat
    BY FS_CardinalityType DEF NumberAssumption
<1>1. /\ rank \in [1 .. N -> Symbols]
      /\ \A m, n \in 1 .. N : rank[m] = rank[n] => m = n
    BY DEF Rankings, IsInjective
<1>2. /\ spent \in [0 .. N -> Nat] /\ spent[0] = 0
      /\ \A n \in 0 .. N : spent[n] <= Larger(0, budget)
      /\ \A n \in 1 .. N : spent[n] >= spent[n - 1]
    BY <1>1, SpentFits
<1>3. Buys(want, rank, budget) = Upto(N)
    BY <1>1 DEF Buys
<1> HIDE DEF spent
<1>4. ASSUME NEW n \in 1 .. N
      PROVE  /\ spent[n] \in Nat /\ spent[n - 1] \in Nat /\ order(n) \in Order
             /\ order(n).dollars = spent[n] - spent[n - 1]
             /\ order(n).symbol = rank[n] /\ order(n).side = "buy"
    <2>1. n \in 0 .. N /\ n - 1 \in 0 .. N
        BY <1>0
    <2>2. spent[n] \in Nat /\ spent[n - 1] \in Nat /\ spent[n] - spent[n - 1] \in Nat
        BY <1>2, <2>1
    <2> QED
        BY <1>1, <2>2 DEF Order
<1> HIDE DEF order
<1> DEFINE Right(T, k) == T \in SUBSET Order /\ IsFiniteSet(T) /\ Dollars(T) = spent[k]
           G == {k \in Nat : k <= N => Right(Upto(k), k)}
<1>5. 0 \in G
    <2>1. Upto(0) = {}
        OBVIOUS
    <2> QED
        BY <1>2, <2>1, DollarsNone, FS_EmptySet
<1>6. \A k \in Nat : k \in G => k + 1 \in G
    <2> SUFFICES ASSUME NEW k \in Nat, k \in G
                 PROVE  k + 1 <= N => Right(Upto(k + 1), k + 1)
        <3> HIDE DEF Right, Upto
        <3> QED OBVIOUS
    <2> SUFFICES ASSUME k + 1 <= N PROVE Right(Upto(k + 1), k + 1)
        OBVIOUS
    <2>1. Right(Upto(k), k) /\ k + 1 \in 1 .. N
        BY <1>0
    <2>2. CASE ~(spent[k + 1] > spent[k])
        <3>1. Upto(k + 1) = Upto(k)
            BY <2>2
        <3>2. spent[k + 1] = spent[k]
            BY <1>2, <1>4, <2>1, <2>2
        <3> QED BY <2>1, <3>1, <3>2
    <2>3. CASE spent[k + 1] > spent[k]
        <3>1. Upto(k + 1) = Upto(k) \cup {order(k + 1)}
            BY <2>3
        <3>2. order(k + 1) \notin Upto(k)
            <4>1. ASSUME NEW n \in 1 .. k, order(n) = order(k + 1) PROVE FALSE
                <5>1. n \in 1 .. N /\ n # k + 1
                    BY <1>0, <2>1
                <5> QED BY <1>1, <1>4, <2>1, <4>1, <5>1
            <4> QED BY <4>1
        <3> DEFINE T == Upto(k)
                   o == order(k + 1)
        <3>3. T \in SUBSET Order /\ IsFiniteSet(T) /\ o \in Order /\ o \notin T
            BY <1>4, <2>1, <3>2
        <3>4. o.dollars = spent[k + 1] - spent[k] /\ spent[k + 1] \in Nat /\ spent[k] \in Nat
            BY <1>4, <2>1
        <3>5. Upto(k + 1) = T \cup {o} /\ Dollars(T) = spent[k]
            BY <2>1, <3>1
        <3> HIDE DEF T, o, Upto
        <3>6. Dollars(T \cup {o}) = Dollars(T) + o.dollars /\ IsFiniteSet(T \cup {o})
            BY <3>3, DollarsAdd, FS_AddElement
        <3>7. T \cup {o} \in SUBSET Order /\ Dollars(T \cup {o}) = spent[k + 1]
            BY <3>3, <3>4, <3>5, <3>6
        <3> QED BY <3>5, <3>6, <3>7
    <2> QED
        BY <2>2, <2>3
<1>7. Right(Upto(N), N)
    <2> HIDE DEF G
    <2>1. Nat \subseteq G
        BY <1>5, <1>6, NatSetInduction
    <2> QED BY <1>0, <2>1 DEF G
<1>8. \A o \in Upto(N) : o.side = "buy"
    BY <1>4
<1> QED
    BY <1>0, <1>2, <1>3, <1>7, <1>8

\* Shares are worth a number of dollars.
LEMMA ValueNat ==
    ASSUME NumberAssumption, price \in [Symbols -> Prices], NEW s \in Symbols, NEW n \in Nat
    PROVE  Value(s, n) \in Nat
<1>1. \A i, j \in Nat : i * j \in Nat
    OBVIOUS
<1>2. price[s] \in Nat
    <2>1. Prices \subseteq Nat
        BY DEF NumberAssumption
    <2> QED BY <2>1
<1> QED
    BY <1>1, <1>2 DEF Value

\* Sales of some of the symbols are finitely many orders.
LEMMA SellsFit ==
    ASSUME NumberAssumption, NEW S \in SUBSET Symbols, NEW d, \A s \in S : d[s] \in Nat
    PROVE  LET sells == {[symbol |-> s, side |-> "sell", dollars |-> d[s]] : s \in S}
           IN  /\ sells \in SUBSET Order /\ IsFiniteSet(sells)
               /\ \A o \in sells : o.side = "sell"
<1> DEFINE sells == {[symbol |-> s, side |-> "sell", dollars |-> d[s]] : s \in S}
           f == [s \in S |-> [symbol |-> s, side |-> "sell", dollars |-> d[s]]]
<1>1. IsFiniteSet(S)
    BY FS_Subset DEF NumberAssumption
<1>2. f \in Surjection(S, sells)
    BY DEF Surjection
<1>3. IsFiniteSet(sells)
    <2> HIDE DEF f, sells
    <2> QED BY <1>1, <1>2, FS_Surjection
<1>4. sells \in SUBSET Order /\ \A o \in sells : o.side = "sell"
    BY DEF Order
<1> QED
    BY <1>3, <1>4

\* A plan is finitely many orders, and what it buys is within the settled cash and
\* what it sells.
LEMMA OrdersFit ==
    ASSUME NumberAssumption, price \in [Symbols -> Prices],
           NEW b, b.positions \in [Symbols -> Nat], b.settled \in Int,
           NEW target \in [Symbols -> Int], NEW rank \in Rankings(target)
    PROVE  LET plan == Orders(b, target, rank)
           IN  /\ plan \in SUBSET Order /\ IsFiniteSet(plan)
               /\ Dollars(Side(plan, "buy")) <= Larger(0, b.settled + Dollars(Side(plan, "sell")))
<1> DEFINE delta == [s \in Symbols |-> target[s] - Value(s, b.positions[s])]
           short == {s \in Symbols : WorthTrading(-delta[s], target[s])}
           sells == {[symbol |-> s, side |-> "sell", dollars |-> -delta[s]] : s \in short}
           want == [s \in Symbols |-> IF WorthTrading(delta[s], target[s]) THEN delta[s] ELSE 0]
           budget == b.settled + Dollars(sells)
           buys == Buys(want, rank, budget)
<1>1. \A s \in Symbols : Value(s, b.positions[s]) \in Int
    <2> SUFFICES ASSUME NEW s \in Symbols PROVE Value(s, b.positions[s]) \in Int
        OBVIOUS
    <2>1. b.positions[s] \in Nat
        OBVIOUS
    <2> QED BY <2>1, ValueNat
<1>2. delta \in [Symbols -> Int] /\ want \in [Symbols -> Int]
    BY <1>1
<1>3. sells \in SUBSET Order /\ IsFiniteSet(sells) /\ \A o \in sells : o.side = "sell"
    <2> DEFINE d == [s \in Symbols |-> -delta[s]]
    <2>1. \A s \in short : d[s] \in Nat
        BY <1>2 DEF WorthTrading, NumberAssumption
    <2>2. sells = {[symbol |-> s, side |-> "sell", dollars |-> d[s]] : s \in short}
        OBVIOUS
    <2>3. short \in SUBSET Symbols
        OBVIOUS
    <2> HIDE DEF d, short, sells
    <2> QED BY <2>1, <2>2, <2>3, SellsFit
<1>4. Orders(b, target, rank) = sells \cup buys
    BY DEF Orders
<1> HIDE DEF delta, short, sells, want
<1>5. budget \in Int
    BY <1>3, DollarsNat
<1>6. /\ buys \in SUBSET Order /\ IsFiniteSet(buys) /\ \A o \in buys : o.side = "buy"
      /\ Dollars(buys) <= Larger(0, budget)
    BY <1>2, <1>5, BuysFit
<1>7. Orders(b, target, rank) \in SUBSET Order /\ IsFiniteSet(Orders(b, target, rank))
    <2> HIDE DEF buys, budget
    <2>1. IsFiniteSet(sells \cup buys)
        BY <1>3, <1>6, FS_Union
    <2>2. sells \cup buys \in SUBSET Order
        BY <1>3, <1>6
    <2> QED BY <1>4, <2>1, <2>2
<1>8. /\ Side(Orders(b, target, rank), "buy") = buys
      /\ Side(Orders(b, target, rank), "sell") = sells
    BY <1>3, <1>4, <1>6 DEF Side
<1> QED
    BY <1>6, <1>7, <1>8

-----------------------------------------------------------------------------
(* Types.                                                                  *)

\* What settle does to the books.
LEMMA SettledKeeps ==
    ASSUME NEW b \in Books
    PROVE  /\ Settled(b) \in Books
           /\ Settled(b).positions = b.positions /\ Settled(b).lastPlan = b.lastPlan
           /\ Settled(b).settled + Settled(b).unsettled = b.settled + b.unsettled
<1>1. CASE b.unsettledDate \notin {0, today}
    <2>1. Settled(b) = [b EXCEPT !.settled = b.settled + b.unsettled, !.unsettled = 0,
                                 !.unsettledDate = 0]
        BY <1>1 DEF Settled
    <2>2. b.settled \in Int /\ b.unsettled \in Nat /\ b.settled + b.unsettled \in Int
        BY DEF Books
    <2>3. Settled(b) \in Books
        <3> DEFINE sum == b.settled + b.unsettled
        <3>1. Settled(b) = [[[b EXCEPT !.settled = sum] EXCEPT !.unsettled = 0]
                               EXCEPT !.unsettledDate = 0]
            BY <2>1 DEF Books
        <3>2. sum \in Int
            BY <2>2
        <3> HIDE DEF sum
        <3>3. [b EXCEPT !.settled = sum] \in Books
            BY <3>2 DEF Books
        <3>4. \A c \in Books : [c EXCEPT !.unsettled = 0] \in Books
            BY DEF Books
        <3>5. \A c \in Books : [c EXCEPT !.unsettledDate = 0] \in Books
            BY DEF Books
        <3> QED BY <3>1, <3>3, <3>4, <3>5
    <2>4. /\ Settled(b).positions = b.positions /\ Settled(b).lastPlan = b.lastPlan
          /\ Settled(b).settled = b.settled + b.unsettled /\ Settled(b).unsettled = 0
        BY <2>1 DEF Books
    <2> QED BY <2>2, <2>3, <2>4
<1>2. CASE b.unsettledDate \in {0, today}
    BY <1>2 DEF Settled, Books
<1> QED
    BY <1>1, <1>2

\* Books are worth a number of dollars.
LEMMA EquityInt ==
    ASSUME NumberAssumption, price \in [Symbols -> Prices], NEW b \in Books
    PROVE  Equity(b) \in Int
<1> DEFINE f == [s \in Symbols |-> Value(s, b.positions[s])]
<1>1. \A s \in Symbols : f[s] \in Int
    <2>1. \A s \in Symbols : b.positions[s] \in Nat
        BY DEF Books
    <2>2. \A s \in Symbols : Value(s, b.positions[s]) \in Nat
        BY <2>1, ValueNat
    <2> QED BY <2>2
<1>2. DOMAIN f = Symbols /\ IsFiniteSet(Symbols)
    BY DEF NumberAssumption
<1>3. Equity(b) = b.settled + b.unsettled + SumFunction(f)
    BY DEF Equity
<1> HIDE DEF f
<1>4. SumFunction(f) \in Int
    BY <1>1, <1>2, SumInt DEF SumFunction
<1> QED
    BY <1>3, <1>4 DEF Books

\* A plan under the kill switch only sells.
LEMMA KillPlanFits ==
    ASSUME NumberAssumption, TypeOK, PlanKill
    PROVE  /\ session' = [todo |-> session'.todo, fills |-> session.fills]
           /\ session'.todo \in SUBSET Order /\ IsFiniteSet(session'.todo)
           /\ \A o \in session'.todo : o.side = "sell"
<1> DEFINE b == Settled(books)
           S == {s \in Symbols : Value(s, b.positions[s]) >= 2 /\ b.hold[s] < today}
           d == [s \in Symbols |-> Value(s, b.positions[s])]
           sells == {[symbol |-> s, side |-> "sell", dollars |-> d[s]] : s \in S}
<1>1. session' = [todo |-> sells, fills |-> session.fills]
    BY DEF PlanKill, TypeOK
<1>2. \A s \in S : d[s] \in Nat
    <2>1. b.positions \in [Symbols -> Nat] /\ price \in [Symbols -> Prices]
        BY SettledKeeps DEF TypeOK, Books
    <2>2. \A s \in Symbols : Value(s, b.positions[s]) \in Nat
        BY <2>1, ValueNat
    <2> QED BY <2>2
<1>3. S \in SUBSET Symbols
    OBVIOUS
<1>4. sells \in SUBSET Order /\ IsFiniteSet(sells) /\ \A o \in sells : o.side = "sell"
    <2> HIDE DEF S, d
    <2> QED BY <1>2, <1>3, SellsFit
<1> HIDE DEF sells
<1> QED
    BY <1>1, <1>4

\* A rebalance buys within the settled cash of the books and what it sells.
LEMMA RebalanceFits ==
    ASSUME NumberAssumption, TypeOK, PlanRebalance
    PROVE  LET plan == session'.todo
           IN  /\ session' = [todo |-> plan, fills |-> session.fills]
               /\ plan \in SUBSET Order /\ IsFiniteSet(plan)
               /\ Dollars(Side(plan, "buy"))
                     <= Larger(0, Settled(books).settled + Dollars(Side(plan, "sell")))
<1> DEFINE b == Settled(books)
<1>0. PICK target \in Targets(b) : \E rank \in Rankings(target) :
          session' = [session EXCEPT !.todo = Orders(b, target, rank)]
    BY DEF PlanRebalance
<1>1. PICK rank \in Rankings(target) :
          session' = [session EXCEPT !.todo = Orders(b, target, rank)]
    BY <1>0
<1>2. b.positions \in [Symbols -> Nat] /\ b.settled \in Int /\ price \in [Symbols -> Prices]
    BY SettledKeeps DEF TypeOK, Books
<1>3. target \in [Symbols -> Int]
    <2>1. \A s \in Symbols, n \in 0 .. MaxShares : Value(s, n) \in Int
        BY <1>2, ValueNat DEF NumberAssumption
    <2> QED BY <2>1 DEF Targets
<1> DEFINE plan == Orders(b, target, rank)
<1>4. session' = [todo |-> plan, fills |-> session.fills]
    BY <1>1 DEF TypeOK
<1> HIDE DEF b
<1>5. /\ plan \in SUBSET Order /\ IsFiniteSet(plan)
      /\ Dollars(Side(plan, "buy")) <= Larger(0, b.settled + Dollars(Side(plan, "sell")))
    BY <1>2, <1>3, OrdersFit
<1> HIDE DEF plan
<1> QED
    BY <1>4, <1>5 DEF b

LEMMA PlanType ==
    ASSUME NumberAssumption, TypeOK, PlanNothing \/ PlanKill \/ PlanRebalance
    PROVE  TypeOK'
<1>1. Settled(books) \in Books
    BY SettledKeeps DEF TypeOK
<1>2. CASE PlanNothing
    BY <1>1, <1>2 DEF PlanNothing, TypeOK
<1>3. CASE PlanKill
    BY <1>1, <1>3, KillPlanFits DEF PlanKill, TypeOK
<1>4. CASE PlanRebalance
    <2>1. session' \in [todo : SUBSET Order, fills : SUBSET Fill]
        BY <1>4, RebalanceFits DEF TypeOK
    <2>2. books' = [Settled(books) EXCEPT !.lastPlan = today]
          /\ UNCHANGED <<today, price, kill, venue, deaths, gfv>>
        BY <1>4 DEF PlanRebalance
    <2>3. books' \in Books
        BY <1>1, <2>2 DEF Books, TypeOK
    <2> QED BY <2>1, <2>2, <2>3 DEF TypeOK
<1> QED
    BY <1>2, <1>3, <1>4

\* An order placed is a fill of the account's: what it does, with its numbers.
PlacedSell(o, n) ==
    /\ o.side = "sell" /\ n <= venue.positions[o.symbol]
    /\ venue' = [venue EXCEPT !.positions[o.symbol] = @ - n, !.unsettled = @ + o.dollars]
    /\ gfv' = (gfv \/ venue.onCredit[o.symbol])

PlacedBuy(o, n, credit) ==
    /\ o.side = "buy" /\ credit <= venue.unsettled
    /\ venue' = [venue EXCEPT !.positions[o.symbol] = @ + n,
                              !.settled = @ - (o.dollars - credit),
                              !.unsettled = @ - credit,
                              !.onCredit[o.symbol] = @ \/ credit > 0]
    /\ UNCHANGED gfv

LEMMA PlaceDoes ==
    ASSUME NumberAssumption, TypeOK, NEW o \in session.todo, Place(o)
    PROVE  \E n \in Nat, credit \in Nat :
              /\ o \in Order
              /\ credit <= o.dollars /\ o.dollars - credit <= venue.settled
              /\ PlacedSell(o, n) \/ PlacedBuy(o, n, credit)
              /\ session.fills = {} /\ (o.side = "buy" => Side(session.todo, "sell") = {})
              /\ session' = [todo |-> session.todo \ {o},
                             fills |-> {[symbol |-> o.symbol, side |-> o.side, shares |-> n,
                                         dollars |-> o.dollars]}]
              /\ UNCHANGED <<today, price, books, kill, deaths>>
<1> DEFINE n == o.dollars \div price[o.symbol]
           credit == Larger(0, o.dollars - Larger(0, venue.settled))
<1>1. o \in Order /\ o.dollars \in Nat /\ venue.settled \in Nat
    BY DEF TypeOK, Order, Account
<1>2. n \in Nat
    <2>1. price[o.symbol] \in Nat /\ price[o.symbol] > 0
        <3>1. o.symbol \in Symbols
            BY <1>1 DEF Order
        <3>2. price[o.symbol] \in Prices
            BY <3>1 DEF TypeOK
        <3>3. \A p \in Prices : p \in Nat /\ p > 0
            BY DEF NumberAssumption
        <3> QED BY <3>2, <3>3
    <2> QED BY <1>1, <2>1
<1>3. credit \in Nat /\ credit <= o.dollars /\ o.dollars - credit <= venue.settled
    BY <1>1 DEF Larger
<1>4. PlacedSell(o, n) \/ PlacedBuy(o, n, credit)
    BY DEF Place, PlacedSell, PlacedBuy
<1>5. /\ session.fills = {} /\ (o.side = "buy" => Side(session.todo, "sell") = {})
      /\ session' = [todo |-> session.todo \ {o},
                     fills |-> {[symbol |-> o.symbol, side |-> o.side, shares |-> n,
                                 dollars |-> o.dollars]}]
      /\ UNCHANGED <<today, price, books, kill, deaths>>
    BY DEF Place
<1> HIDE DEF n, credit
<1> QED
    BY <1>1, <1>2, <1>3, <1>4, <1>5

LEMMA PlaceType ==
    ASSUME NumberAssumption, TypeOK, NEW o \in session.todo, Place(o)
    PROVE  TypeOK'
<1>1. PICK n \in Nat, credit \in Nat :
              /\ o \in Order
              /\ credit <= o.dollars /\ o.dollars - credit <= venue.settled
              /\ PlacedSell(o, n) \/ PlacedBuy(o, n, credit)
              /\ session' = [todo |-> session.todo \ {o},
                             fills |-> {[symbol |-> o.symbol, side |-> o.side, shares |-> n,
                                         dollars |-> o.dollars]}]
              /\ UNCHANGED <<today, price, books, kill, deaths>>
    BY PlaceDoes
<1>2. session' \in [todo : SUBSET Order, fills : SUBSET Fill]
    BY <1>1 DEF TypeOK, Order, Fill
<1>3. o.symbol \in Symbols /\ o.dollars \in Nat /\ venue \in Account /\ gfv \in BOOLEAN
    BY <1>1 DEF Order, TypeOK
<1>4. /\ venue.positions \in [Symbols -> Nat] /\ venue.settled \in Nat /\ venue.unsettled \in Nat
      /\ venue.onCredit \in [Symbols -> BOOLEAN]
    BY <1>3 DEF Account
<1>5. CASE PlacedSell(o, n)
    <2>1. venue.positions[o.symbol] - n \in Nat /\ venue.unsettled + o.dollars \in Nat
        BY <1>3, <1>4, <1>5 DEF PlacedSell
    <2>2. venue' \in Account
        BY <1>3, <1>4, <1>5, <2>1 DEF PlacedSell, Account
    <2>3. gfv' \in BOOLEAN
        BY <1>3, <1>4, <1>5 DEF PlacedSell
    <2> QED BY <1>1, <1>2, <2>2, <2>3 DEF TypeOK
<1>6. CASE PlacedBuy(o, n, credit)
    <2>1. /\ venue.positions[o.symbol] + n \in Nat /\ venue.settled - (o.dollars - credit) \in Nat
          /\ venue.unsettled - credit \in Nat
        BY <1>1, <1>3, <1>4, <1>6 DEF PlacedBuy
    <2>2. venue' \in Account
        BY <1>3, <1>4, <1>6, <2>1 DEF PlacedBuy, Account
    <2>3. gfv' \in BOOLEAN
        BY <1>3, <1>6 DEF PlacedBuy
    <2> QED BY <1>1, <1>2, <2>2, <2>3 DEF TypeOK
<1> QED
    BY <1>1, <1>5, <1>6

LEMMA RecordType ==
    ASSUME NumberAssumption, TypeOK, NEW f \in session.fills, Record(f)
    PROVE  TypeOK'
<1>1. f \in Fill /\ f.symbol \in Symbols /\ f.shares \in Nat /\ f.dollars \in Nat /\ books \in Books
    BY DEF TypeOK, Fill
<1>2. /\ books.positions[f.symbol] \in Nat /\ books.settled \in Int /\ books.unsettled \in Nat
      /\ books.positions \in [Symbols -> Nat] /\ books.hold \in [Symbols -> Nat] /\ today \in Nat
    BY <1>1 DEF Books, TypeOK
<1>3. books' \in Books
    <2>1. CASE f.side = "buy"
        <3>1. books.positions[f.symbol] + f.shares \in Nat /\ books.settled - f.dollars \in Int
            BY <1>1, <1>2
        <3>2. books' = [books EXCEPT !.positions[f.symbol] = @ + f.shares,
                            !.settled = @ - f.dollars,
                            !.hold[f.symbol] = IF books.unsettled > 0 THEN today ELSE @]
            BY <2>1 DEF Record
        <3> QED BY <1>1, <1>2, <3>1, <3>2 DEF Books
    <2>2. CASE f.side # "buy"
        <3>1. Larger(0, books.positions[f.symbol] - f.shares) \in Nat
              /\ books.unsettled + f.dollars \in Nat
            BY <1>1, <1>2 DEF Larger
        <3>2. books' = [books EXCEPT !.positions[f.symbol] = Larger(0, @ - f.shares),
                            !.unsettled = @ + f.dollars,
                            !.unsettledDate = today]
            BY <2>2 DEF Record
        <3> QED BY <1>1, <1>2, <3>1, <3>2 DEF Books
    <2> QED BY <2>1, <2>2
<1>4. session' \in [todo : SUBSET Order, fills : SUBSET Fill]
      /\ UNCHANGED <<today, price, kill, venue, deaths, gfv>>
    BY DEF Record, TypeOK
<1> QED
    BY <1>3, <1>4 DEF TypeOK

LEMMA OtherType ==
    ASSUME NumberAssumption, TypeOK,
           \/ \E o \in session.todo : Reject(o)
           \/ Die \/ Mark \/ Deposit \/ ReconcileCash \/ Resume \/ NextDay
    PROVE  TypeOK'
<1>1. books \in Books /\ venue \in Account /\ today \in Nat /\ deaths \in Nat
      /\ session \in [todo : SUBSET Order, fills : SUBSET Fill]
    BY DEF TypeOK
<1>2. /\ venue.settled \in Nat /\ venue.unsettled \in Nat /\ venue.deposited \in Nat
      /\ books.peak \in Int /\ books.history \in Int
    BY <1>1 DEF Books, Account
<1>3. CASE \E o \in session.todo : Reject(o)
    BY <1>3 DEF Reject, TypeOK
<1>4. CASE Die
    BY <1>4 DEF Die, TypeOK
<1>5. CASE Mark
    <2>1. Equity(books) \in Int
        BY <1>1, EquityInt DEF TypeOK
    <2>2. Larger(books.peak, Equity(books)) \in Int /\ Larger(0, Equity(books)) \in Int
        BY <1>2, <2>1 DEF Larger
    <2>3. books' = [books EXCEPT !.peak = Larger(books.peak, Equity(books)),
                                 !.history = Larger(0, Equity(books))]
        BY <1>5 DEF Mark
    <2>4. books' \in Books
        BY <1>1, <2>2, <2>3 DEF Books
    <2> QED BY <1>5, <2>4 DEF Mark, TypeOK
<1>6. CASE Deposit
    <2>0. venue.settled + 1 \in Nat /\ venue.deposited + 1 \in Nat
        BY <1>2
    <2>1. venue' \in Account
        BY <1>1, <1>6, <2>0 DEF Deposit, Account
    <2> QED BY <1>6, <2>1 DEF Deposit, TypeOK
<1>7. CASE ReconcileCash
    <2>1. books' \in Books
        BY <1>1, <1>2, <1>7 DEF ReconcileCash, Books
    <2> QED BY <1>7, <2>1 DEF ReconcileCash, TypeOK
<1>8. CASE Resume
    <2>1. books' \in Books
        BY <1>1, <1>2, <1>8 DEF Resume, Books
    <2> QED BY <1>8, <2>1 DEF Resume, TypeOK
<1>9. CASE NextDay
    <2>0. venue.settled + venue.unsettled \in Nat /\ [s \in Symbols |-> FALSE] \in [Symbols -> BOOLEAN]
        BY <1>2
    <2>1. venue' \in Account
        BY <1>1, <1>9, <2>0 DEF NextDay, Account
    <2> QED BY <1>9, <2>1 DEF NextDay, TypeOK
<1> QED
    BY <1>3, <1>4, <1>5, <1>6, <1>7, <1>8, <1>9

\* Every variable of the equity desk keeps its type: the account never goes below
\* zero and the books hold no negative position.
THEOREM TypeCorrect == ASSUME NumberAssumption PROVE Spec => []TypeOK
<1>1. Init => TypeOK
    <2> SUFFICES ASSUME Init PROVE TypeOK
        OBVIOUS
    <2>1. InitCash \in Nat
        BY DEF NumberAssumption
    <2>2. books \in Books
        BY <2>1 DEF Init, Books
    <2>3. venue \in Account
        BY <2>1 DEF Init, Account
    <2>4. session \in [todo : SUBSET Order, fills : SUBSET Fill]
        BY DEF Init
    <2>5. today \in Nat \ {0} /\ price \in [Symbols -> Prices] /\ deaths \in Nat
        BY DEF Init
    <2>6. kill \in BOOLEAN /\ gfv \in BOOLEAN
        BY Zenon DEF Init
    <2> QED BY <2>2, <2>3, <2>4, <2>5, <2>6 DEF TypeOK
<1>2. TypeOK /\ [Next]_vars => TypeOK'
    <2> SUFFICES ASSUME TypeOK, [Next]_vars PROVE TypeOK'
        OBVIOUS
    <2>1. CASE UNCHANGED vars
        BY <2>1 DEF vars, TypeOK
    <2>2. CASE Next
        BY <2>2, PlanType, PlaceType, RecordType, OtherType DEF Next
    <2> QED BY <2>1, <2>2
<1> QED
    BY <1>1, <1>2, PTL DEF Spec

-----------------------------------------------------------------------------
(* Books, account, credit and budget.                                      *)

\* What one fill that is not recorded is worth, and none.
LEMMA NoneUnrecorded ==
    ASSUME NEW s
    PROVE  Unrecorded({}, s) = 0 /\ UnrecordedCash({}) = 0
BY SumEmpty DEF Unrecorded, UnrecordedCash, SumFunction

LEMMA OneUnrecorded ==
    ASSUME NEW f \in Fill, NEW s
    PROVE  /\ Unrecorded({f}, s) = IF f.symbol # s THEN 0
                                   ELSE IF f.side = "buy" THEN f.shares ELSE -f.shares
           /\ UnrecordedCash({f}) = IF f.side = "buy" THEN -f.dollars ELSE f.dollars
<1> DEFINE g == [x \in {f} |-> IF x.symbol # s THEN 0
                               ELSE IF x.side = "buy" THEN x.shares ELSE -x.shares]
           h == [x \in {f} |-> IF x.side = "buy" THEN -x.dollars ELSE x.dollars]
<1>1. /\ DOMAIN g = {} \cup {f} /\ DOMAIN h = {} \cup {f}
      /\ g[f] \in Int /\ h[f] \in Int
      /\ g[f] = IF f.symbol # s THEN 0 ELSE IF f.side = "buy" THEN f.shares ELSE -f.shares
      /\ h[f] = IF f.side = "buy" THEN -f.dollars ELSE f.dollars
    BY DEF Fill
<1>2. Unrecorded({f}, s) = SumFunction(g) /\ UnrecordedCash({f}) = SumFunction(h)
    BY DEF Unrecorded, UnrecordedCash
<1> HIDE DEF g, h
<1>3. IsFiniteSet({}) /\ f \notin {}
    BY FS_EmptySet
<1>4. SumFunctionOnSet(g, {} \cup {f}) = SumFunctionOnSet(g, {}) + g[f]
    BY <1>1, <1>3, SumAdd
<1>5. SumFunctionOnSet(h, {} \cup {f}) = SumFunctionOnSet(h, {}) + h[f]
    BY <1>1, <1>3, SumAdd
<1>6. SumFunctionOnSet(g, {}) = 0 /\ SumFunctionOnSet(h, {}) = 0
    BY SumEmpty
<1>7. SumFunction(g) = 0 + g[f] /\ SumFunction(h) = 0 + h[f]
    BY <1>1, <1>4, <1>5, <1>6 DEF SumFunction
<1> QED
    BY <1>1, <1>2, <1>7

\* With at most one fill, what is not recorded is a number.
LEMMA UnrecordedInt ==
    ASSUME NEW fills \in SUBSET Fill, \A f, g \in fills : f = g, NEW s
    PROVE  Unrecorded(fills, s) \in Int /\ UnrecordedCash(fills) \in Int
<1>1. CASE fills = {}
    BY <1>1, NoneUnrecorded
<1>2. CASE fills # {}
    <2>1. PICK f \in fills : fills = {f}
        BY <1>2
    <2>2. f \in Fill /\ f.shares \in Int /\ f.dollars \in Int
        BY DEF Fill
    <2> QED BY <2>1, <2>2, OneUnrecorded
<1> QED
    BY <1>1, <1>2

\* A step that moves neither fills nor positions, and no cash but into the account,
\* keeps the books in step with it.
LEMMA MatchKept ==
    ASSUME TypeOK, TypeOK', OneFill, BooksMatchVenue, session'.fills = session.fills,
           books'.positions = books.positions, venue'.positions = venue.positions,
           books'.settled + books'.unsettled = books.settled + books.unsettled,
           venue'.settled + venue'.unsettled >= venue.settled + venue.unsettled
    PROVE  OneFill' /\ BooksMatchVenue'
<1>1. OneFill'
    BY DEF OneFill
<1>2. \A s \in Symbols :
          books'.positions[s] + Unrecorded(session'.fills, s) = venue'.positions[s]
    BY DEF BooksMatchVenue
<1>3. UnrecordedCash(session.fills) \in Int
    BY UnrecordedInt DEF TypeOK, OneFill
<1>4. /\ books.settled \in Int /\ books.unsettled \in Int /\ books'.settled \in Int
      /\ books'.unsettled \in Int /\ venue.settled \in Int /\ venue.unsettled \in Int
      /\ venue'.settled \in Int /\ venue'.unsettled \in Int
    BY DEF TypeOK, Books, Account
<1>5. books.settled + books.unsettled + UnrecordedCash(session.fills)
          <= venue.settled + venue.unsettled
    BY DEF BooksMatchVenue
<1>6. books'.settled + books'.unsettled + UnrecordedCash(session'.fills)
          <= venue'.settled + venue'.unsettled
    BY <1>3, <1>4, <1>5
<1> QED
    BY <1>1, <1>2, <1>6 DEF BooksMatchVenue

\* The broker fills an order: what the books lack is this fill.
LEMMA PlaceMatches ==
    ASSUME NumberAssumption, TypeOK, TypeOK', BooksMatchVenue, NEW o \in session.todo, Place(o)
    PROVE  OneFill' /\ BooksMatchVenue'
<1>1. PICK n \in Nat, credit \in Nat :
              /\ o \in Order
              /\ credit <= o.dollars /\ o.dollars - credit <= venue.settled
              /\ PlacedSell(o, n) \/ PlacedBuy(o, n, credit)
              /\ session.fills = {}
              /\ session' = [todo |-> session.todo \ {o},
                             fills |-> {[symbol |-> o.symbol, side |-> o.side, shares |-> n,
                                         dollars |-> o.dollars]}]
              /\ UNCHANGED <<today, price, books, kill, deaths>>
    BY PlaceDoes
<1> DEFINE f == [symbol |-> o.symbol, side |-> o.side, shares |-> n, dollars |-> o.dollars]
<1>2. /\ o.symbol \in Symbols /\ o.dollars \in Nat /\ o.side \in {"buy", "sell"} /\ f \in Fill
      /\ f.symbol = o.symbol /\ f.side = o.side /\ f.shares = n /\ f.dollars = o.dollars
    BY <1>1 DEF Order, Fill
<1>3. session'.fills = {f} /\ books' = books
    BY <1>1
<1> HIDE DEF f
<1>4. /\ venue.positions \in [Symbols -> Nat] /\ venue.settled \in Nat /\ venue.unsettled \in Nat
      /\ books.positions \in [Symbols -> Nat] /\ books.settled \in Int /\ books.unsettled \in Nat
      /\ venue \in Account
    BY DEF TypeOK, Account, Books
<1>5. /\ \A s \in Symbols : books.positions[s] = venue.positions[s]
      /\ books.settled + books.unsettled <= venue.settled + venue.unsettled
    <2>1. ASSUME NEW s \in Symbols PROVE books.positions[s] = venue.positions[s]
        <3>1. books.positions[s] + Unrecorded(session.fills, s) = venue.positions[s]
            BY DEF BooksMatchVenue
        <3>2. Unrecorded(session.fills, s) = 0 /\ books.positions[s] \in Nat
            BY <1>1, <1>4, NoneUnrecorded
        <3> QED BY <3>1, <3>2
    <2>2. UnrecordedCash(session.fills) = 0
        BY <1>1, NoneUnrecorded
    <2>3. books.settled + books.unsettled + UnrecordedCash(session.fills)
              <= venue.settled + venue.unsettled
        BY DEF BooksMatchVenue
    <2> QED BY <1>4, <2>1, <2>2, <2>3
<1>6. /\ \A s \in Symbols : Unrecorded({f}, s) = IF o.symbol # s THEN 0
                                                 ELSE IF o.side = "buy" THEN n ELSE -n
      /\ UnrecordedCash({f}) = IF o.side = "buy" THEN -o.dollars ELSE o.dollars
    BY <1>2, OneUnrecorded
<1>7. OneFill'
    BY <1>3 DEF OneFill
<1>8. CASE PlacedSell(o, n)
    <2>1. /\ o.side = "sell"
          /\ venue'.positions = [venue.positions EXCEPT ![o.symbol] = venue.positions[o.symbol] - n]
          /\ venue'.settled = venue.settled /\ venue'.unsettled = venue.unsettled + o.dollars
        BY <1>4, <1>8 DEF PlacedSell, Account
    <2>2. ASSUME NEW s \in Symbols
          PROVE  books'.positions[s] + Unrecorded(session'.fills, s) = venue'.positions[s]
        <3>1. venue'.positions[s] = IF s = o.symbol THEN venue.positions[s] - n ELSE venue.positions[s]
            BY <1>2, <1>4, <2>1
        <3>2. /\ books'.positions[s] = venue.positions[s] /\ venue.positions[s] \in Nat
              /\ Unrecorded(session'.fills, s) = IF o.symbol # s THEN 0 ELSE -n
            BY <1>3, <1>4, <1>5, <1>6, <2>1
        <3> QED BY <3>1, <3>2
    <2>3. books'.settled + books'.unsettled + UnrecordedCash(session'.fills)
              <= venue'.settled + venue'.unsettled
        BY <1>2, <1>3, <1>4, <1>5, <1>6, <2>1
    <2> QED BY <1>7, <2>2, <2>3 DEF BooksMatchVenue
<1>9. CASE PlacedBuy(o, n, credit)
    <2>1. /\ o.side = "buy"
          /\ venue'.positions = [venue.positions EXCEPT ![o.symbol] = venue.positions[o.symbol] + n]
          /\ venue'.settled = venue.settled - (o.dollars - credit)
          /\ venue'.unsettled = venue.unsettled - credit
        BY <1>4, <1>9 DEF PlacedBuy, Account
    <2>2. ASSUME NEW s \in Symbols
          PROVE  books'.positions[s] + Unrecorded(session'.fills, s) = venue'.positions[s]
        <3>1. venue'.positions[s] = IF s = o.symbol THEN venue.positions[s] + n ELSE venue.positions[s]
            BY <1>2, <1>4, <2>1
        <3>2. /\ books'.positions[s] = venue.positions[s] /\ venue.positions[s] \in Nat
              /\ Unrecorded(session'.fills, s) = IF o.symbol # s THEN 0 ELSE n
            BY <1>3, <1>4, <1>5, <1>6, <2>1
        <3> QED BY <3>1, <3>2
    <2>3. books'.settled + books'.unsettled + UnrecordedCash(session'.fills)
              <= venue'.settled + venue'.unsettled
        <3>1. books'.settled = books.settled /\ books'.unsettled = books.unsettled
              /\ UnrecordedCash(session'.fills) = -o.dollars
            BY <1>3, <1>6, <2>1
        <3> QED BY <1>2, <1>4, <1>5, <2>1, <3>1
    <2> QED BY <1>7, <2>2, <2>3 DEF BooksMatchVenue
<1> QED
    BY <1>1, <1>8, <1>9

\* Recording it makes the books the account again: the shares it takes off were
\* there, so that the floor at zero never bites.
LEMMA RecordMatches ==
    ASSUME NumberAssumption, TypeOK, TypeOK', OneFill, BooksMatchVenue,
           NEW f \in session.fills, Record(f)
    PROVE  OneFill' /\ BooksMatchVenue'
<1>1. f \in Fill /\ f.symbol \in Symbols /\ f.shares \in Nat /\ f.dollars \in Nat
    BY DEF TypeOK, Fill
<1>2. session.fills = {f} /\ session'.fills = {} /\ venue' = venue
    BY DEF OneFill, Record, TypeOK
<1>3. /\ venue.positions \in [Symbols -> Nat] /\ venue.settled \in Nat /\ venue.unsettled \in Nat
      /\ books.positions \in [Symbols -> Nat] /\ books.settled \in Int /\ books.unsettled \in Nat
      /\ books \in Books
    BY DEF TypeOK, Account, Books
<1>4. /\ \A s \in Symbols : Unrecorded(session.fills, s) =
              IF f.symbol # s THEN 0 ELSE IF f.side = "buy" THEN f.shares ELSE -f.shares
      /\ UnrecordedCash(session.fills) = IF f.side = "buy" THEN -f.dollars ELSE f.dollars
    BY <1>1, <1>2, OneUnrecorded
<1>5. /\ \A s \in Symbols : Unrecorded(session'.fills, s) = 0
      /\ UnrecordedCash(session'.fills) = 0
    BY <1>2, NoneUnrecorded
<1>6. OneFill'
    BY <1>2 DEF OneFill
<1>7. /\ \A s \in Symbols :
             books.positions[s] + Unrecorded(session.fills, s) = venue.positions[s]
      /\ books.settled + books.unsettled + UnrecordedCash(session.fills)
             <= venue.settled + venue.unsettled
    BY DEF BooksMatchVenue
<1>8. CASE f.side = "buy"
    <2>1. /\ books'.positions =
                [books.positions EXCEPT ![f.symbol] = books.positions[f.symbol] + f.shares]
          /\ books'.settled = books.settled - f.dollars /\ books'.unsettled = books.unsettled
        BY <1>3, <1>8 DEF Record, Books
    <2>2. ASSUME NEW s \in Symbols
          PROVE  books'.positions[s] + Unrecorded(session'.fills, s) = venue'.positions[s]
        <3>1. books'.positions[s] = IF s = f.symbol THEN books.positions[s] + f.shares ELSE books.positions[s]
            BY <1>1, <1>3, <1>8, <2>1
        <3>2. /\ venue'.positions[s] = venue.positions[s] /\ books.positions[s] \in Nat
              /\ venue.positions[s] \in Nat /\ Unrecorded(session'.fills, s) = 0
              /\ Unrecorded(session.fills, s) = IF f.symbol # s THEN 0 ELSE f.shares
              /\ books.positions[s] + Unrecorded(session.fills, s) = venue.positions[s]
            BY <1>2, <1>3, <1>4, <1>5, <1>7, <1>8
        <3> QED BY <1>1, <3>1, <3>2
    <2>3. books'.settled + books'.unsettled + UnrecordedCash(session'.fills)
              <= venue'.settled + venue'.unsettled
        BY <1>1, <1>2, <1>3, <1>4, <1>5, <1>7, <1>8, <2>1
    <2> QED BY <1>6, <2>2, <2>3 DEF BooksMatchVenue
<1>9. CASE f.side # "buy"
    <2>0. Larger(0, books.positions[f.symbol] - f.shares) = books.positions[f.symbol] - f.shares
        <3>1. books.positions[f.symbol] + -f.shares = venue.positions[f.symbol]
            BY <1>1, <1>4, <1>7, <1>9
        <3>2. books.positions[f.symbol] \in Nat /\ venue.positions[f.symbol] \in Nat
            BY <1>1, <1>3
        <3> QED BY <1>1, <3>1, <3>2 DEF Larger
    <2>1. /\ books'.positions =
                [books.positions EXCEPT ![f.symbol] = Larger(0, books.positions[f.symbol] - f.shares)]
          /\ books'.settled = books.settled /\ books'.unsettled = books.unsettled + f.dollars
        BY <1>3, <1>9 DEF Record, Books
    <2>2. ASSUME NEW s \in Symbols
          PROVE  books'.positions[s] + Unrecorded(session'.fills, s) = venue'.positions[s]
        <3>1. books'.positions[s] = IF s = f.symbol THEN books.positions[s] - f.shares ELSE books.positions[s]
            BY <1>1, <1>3, <1>9, <2>0, <2>1
        <3>2. /\ venue'.positions[s] = venue.positions[s] /\ books.positions[s] \in Nat
              /\ venue.positions[s] \in Nat /\ Unrecorded(session'.fills, s) = 0
              /\ Unrecorded(session.fills, s) = IF f.symbol # s THEN 0 ELSE -f.shares
              /\ books.positions[s] + Unrecorded(session.fills, s) = venue.positions[s]
            BY <1>2, <1>3, <1>4, <1>5, <1>7, <1>9, <2>0
        <3> QED BY <1>1, <3>1, <3>2
    <2>3. books'.settled + books'.unsettled + UnrecordedCash(session'.fills)
              <= venue'.settled + venue'.unsettled
        BY <1>1, <1>2, <1>3, <1>4, <1>5, <1>7, <1>9, <2>1
    <2> QED BY <1>6, <2>2, <2>3 DEF BooksMatchVenue
<1> QED
    BY <1>8, <1>9

\* One side of a plan is a plan.
LEMMA SideFits ==
    ASSUME NEW T \in SUBSET Order, IsFiniteSet(T), NEW x
    PROVE  Side(T, x) \in SUBSET Order /\ IsFiniteSet(Side(T, x)) /\ Dollars(Side(T, x)) \in Nat
<1>1. Side(T, x) \in SUBSET T
    BY DEF Side
<1>2. Side(T, x) \in SUBSET Order /\ IsFiniteSet(Side(T, x))
    BY <1>1, FS_Subset
<1> QED
    BY <1>2, DollarsNat

\* Nothing to do is covered.
LEMMA NoneCovered ==
    ASSUME TypeOK, session.todo = {}
    PROVE  BudgetCovers
<1>1. Side({}, "buy") = {} /\ Side({}, "sell") = {}
    BY DEF Side
<1>2. venue.settled \in Nat /\ venue.unsettled \in Nat
    BY DEF TypeOK, Account
<1>3. Dollars(Side(session.todo, "buy")) = 0 /\ Dollars(Side(session.todo, "sell")) = 0
    BY <1>1, DollarsNone
<1>4. IsFiniteSet(session.todo)
    BY FS_EmptySet
<1> QED
    BY <1>2, <1>3, <1>4 DEF BudgetCovers

\* A plan is made on a day without one, so nothing of the day was bought on credit;
\* its buys are within what the account has and what it sells.
LEMMA PlanCovered ==
    ASSUME NumberAssumption, TypeOK, TypeOK', DeskInv,
           PlanNothing \/ PlanKill \/ PlanRebalance
    PROVE  DeskInv'
<1>1. /\ session.todo = {} /\ session.fills = {} /\ session'.fills = session.fills
      /\ UNCHANGED <<today, venue, gfv>>
    <2>1. CASE PlanNothing
        BY <2>1 DEF PlanNothing, Idle
    <2>2. CASE PlanKill
        BY <2>2, KillPlanFits DEF PlanKill, Idle
    <2>3. CASE PlanRebalance
        BY <2>3, RebalanceFits DEF PlanRebalance, Idle
    <2> QED BY <2>1, <2>2, <2>3
<1>2. /\ Settled(books) \in Books /\ Settled(books).lastPlan = books.lastPlan
      /\ Settled(books).positions = books.positions
      /\ Settled(books).settled + Settled(books).unsettled = books.settled + books.unsettled
    BY SettledKeeps DEF TypeOK
<1>3. /\ books'.positions = books.positions
      /\ books'.settled + books'.unsettled = books.settled + books.unsettled
    <2>1. CASE PlanNothing \/ PlanKill
        BY <1>2, <2>1 DEF PlanNothing, PlanKill
    <2>2. CASE PlanRebalance
        BY <1>2, <2>2 DEF PlanRebalance, Books
    <2> QED BY <2>1, <2>2
<1>4. /\ venue.settled \in Nat /\ venue.unsettled \in Nat /\ books.settled \in Int
      /\ books.unsettled \in Nat /\ Settled(books).settled \in Int
      /\ Settled(books).unsettled \in Nat
    BY <1>2 DEF TypeOK, Account, Books
<1>5. OneFill' /\ BooksMatchVenue'
    BY <1>1, <1>3, <1>4, MatchKept DEF DeskInv
<1>6. Settled(books).settled <= venue.settled + venue.unsettled
    <2>1. books.settled + books.unsettled + UnrecordedCash({}) <= venue.settled + venue.unsettled
        BY <1>1 DEF DeskInv, BooksMatchVenue
    <2>2. UnrecordedCash({}) = 0
        BY NoneUnrecorded
    <2> QED BY <1>2, <1>4, <2>1, <2>2
<1>7. NoGoodFaithViolation'
    BY <1>1 DEF DeskInv, NoGoodFaithViolation
<1>8. CASE PlanNothing
    <2>1. session' = session /\ books'.lastPlan = books.lastPlan
        BY <1>2, <1>8 DEF PlanNothing
    <2>2. CreditToday'
        BY <1>1, <2>1 DEF DeskInv, CreditToday
    <2>3. BudgetCovers'
        BY <1>1, <2>1 DEF DeskInv, BudgetCovers
    <2> QED BY <1>5, <1>7, <2>2, <2>3 DEF DeskInv
<1>9. ASSUME PlanKill \/ PlanRebalance
      PROVE  \A s \in Symbols : ~venue'.onCredit[s]
    <2>1. books.lastPlan # today
        BY <1>2, <1>9 DEF PlanKill, PlanRebalance, Planned
    <2> QED BY <1>1, <2>1 DEF DeskInv, CreditToday
<1>10. CASE PlanKill
    <2>1. /\ session'.todo \in SUBSET Order /\ IsFiniteSet(session'.todo)
          /\ \A o \in session'.todo : o.side = "sell"
        BY <1>10, KillPlanFits
    <2>2. Side(session'.todo, "buy") = {}
        BY <2>1 DEF Side
    <2>3. Dollars(Side(session'.todo, "sell")) \in Nat
        BY <2>1, SideFits
    <2> DEFINE bought == Dollars(Side(session'.todo, "buy"))
               sold == Dollars(Side(session'.todo, "sell"))
    <2>a. bought = 0
        BY <2>2, DollarsNone
    <2>b. bought <= venue.settled + venue.unsettled + sold
        BY <1>4, <2>3, <2>a
    <2>4. BudgetCovers'
        BY <1>1, <2>1, <2>b DEF BudgetCovers
    <2>5. CreditToday'
        BY <1>9, <1>10, <2>2 DEF CreditToday
    <2> QED BY <1>5, <1>7, <2>4, <2>5 DEF DeskInv
<1>11. CASE PlanRebalance
    <2>1. /\ session'.todo \in SUBSET Order /\ IsFiniteSet(session'.todo)
          /\ Dollars(Side(session'.todo, "buy")) <=
                Larger(0, Settled(books).settled + Dollars(Side(session'.todo, "sell")))
        BY <1>11, RebalanceFits
    <2>2. /\ Dollars(Side(session'.todo, "sell")) \in Nat
          /\ Dollars(Side(session'.todo, "buy")) \in Nat
        BY <2>1, SideFits
    <2>3. Dollars(Side(session'.todo, "buy")) <=
              venue.settled + venue.unsettled + Dollars(Side(session'.todo, "sell"))
        BY <1>4, <1>6, <2>1, <2>2 DEF Larger
    <2>4. BudgetCovers'
        BY <1>1, <2>1, <2>3 DEF BudgetCovers
    <2>5. books'.lastPlan = today'
        BY <1>1, <1>2, <1>11 DEF PlanRebalance, Books
    <2>6. CreditToday'
        BY <1>9, <1>11, <2>5 DEF CreditToday
    <2> QED BY <1>5, <1>7, <2>4, <2>6 DEF DeskInv
<1> QED
    BY <1>8, <1>10, <1>11

\* An order is filled: a sale is of a lot that was paid for, and moves its dollars
\* from what is left to sell to the account; a buy takes them from both sides.
LEMMA PlaceCovered ==
    ASSUME NumberAssumption, TypeOK, TypeOK', DeskInv, NEW o \in session.todo, Place(o)
    PROVE  DeskInv'
<1>1. PICK n \in Nat, credit \in Nat :
              /\ o \in Order
              /\ credit <= o.dollars /\ o.dollars - credit <= venue.settled
              /\ PlacedSell(o, n) \/ PlacedBuy(o, n, credit)
              /\ (o.side = "buy" => Side(session.todo, "sell") = {})
              /\ session' = [todo |-> session.todo \ {o},
                             fills |-> {[symbol |-> o.symbol, side |-> o.side, shares |-> n,
                                         dollars |-> o.dollars]}]
              /\ UNCHANGED <<today, price, books, kill, deaths>>
    BY PlaceDoes
<1>2. OneFill' /\ BooksMatchVenue'
    BY PlaceMatches DEF DeskInv
<1> DEFINE buys == Side(session.todo, "buy")
           sells == Side(session.todo, "sell")
           total == venue.settled + venue.unsettled
<1>3. /\ session.todo \in SUBSET Order /\ IsFiniteSet(session.todo)
      /\ IsFiniteSet(session'.todo) /\ session'.todo = session.todo \ {o}
    BY <1>1, FS_RemoveElement DEF TypeOK, DeskInv, BudgetCovers
<1>4. /\ o.symbol \in Symbols /\ o.dollars \in Nat /\ venue \in Account
      /\ venue.settled \in Nat /\ venue.unsettled \in Nat
      /\ venue.onCredit \in [Symbols -> BOOLEAN]
    BY <1>1 DEF Order, TypeOK, Account
<1>5. Dollars(buys) <= total + Dollars(sells)
    BY DEF DeskInv, BudgetCovers
<1>6. /\ buys \in SUBSET Order /\ IsFiniteSet(buys) /\ Dollars(buys) \in Nat
      /\ sells \in SUBSET Order /\ IsFiniteSet(sells) /\ Dollars(sells) \in Nat
    BY <1>3, SideFits
<1>7. /\ Side(session'.todo, "buy") = buys \ {o} /\ Side(session'.todo, "sell") = sells \ {o}
    BY <1>3 DEF Side
<1>8. /\ IsFiniteSet(buys \ {o}) /\ buys \ {o} \in SUBSET Order
      /\ IsFiniteSet(sells \ {o}) /\ sells \ {o} \in SUBSET Order
    BY <1>6, FS_Subset
<1>9. Dollars(buys \ {o}) \in Nat /\ Dollars(sells \ {o}) \in Nat
    BY <1>8, DollarsNat
<1>10. CASE PlacedSell(o, n)
    <2>1. /\ o.side = "sell" /\ o \in sells /\ o \notin buys
          /\ venue'.settled = venue.settled /\ venue'.unsettled = venue.unsettled + o.dollars
          /\ venue'.onCredit = venue.onCredit /\ gfv' = (gfv \/ venue.onCredit[o.symbol])
        BY <1>4, <1>10 DEF PlacedSell, Account, Side
    <2>2. \A s \in Symbols : ~venue.onCredit[s]
        BY <2>1 DEF DeskInv, CreditToday
    <2>3. NoGoodFaithViolation'
        BY <1>4, <2>1, <2>2 DEF DeskInv, NoGoodFaithViolation
    <2>4. CreditToday'
        BY <1>1, <1>7, <2>1, <2>2 DEF DeskInv, CreditToday
    <2>5. Dollars(sells) = Dollars(sells \ {o}) + o.dollars /\ buys \ {o} = buys
        BY <1>6, <2>1, DollarsRemove
    <2>6. Dollars(buys \ {o}) <= venue'.settled + venue'.unsettled + Dollars(sells \ {o})
        <3>1. Dollars(buys \ {o}) = Dollars(buys) /\ Dollars(sells) = Dollars(sells \ {o}) + o.dollars
            BY <2>5
        <3>2. Dollars(buys) \in Nat /\ Dollars(sells \ {o}) \in Nat /\ o.dollars \in Nat
            BY <1>4, <1>6, <1>9
        <3>3. venue'.settled = venue.settled /\ venue'.unsettled = venue.unsettled + o.dollars
            BY <2>1
        <3> HIDE DEF buys, sells
        <3> QED BY <1>4, <1>5, <3>1, <3>2, <3>3
    <2>7. BudgetCovers'
        BY <1>3, <1>7, <2>6 DEF BudgetCovers
    <2> QED BY <1>2, <2>3, <2>4, <2>7 DEF DeskInv
<1>11. CASE PlacedBuy(o, n, credit)
    <2>1. /\ o.side = "buy" /\ o \in buys /\ o \notin sells /\ sells = {}
          /\ venue'.settled = venue.settled - (o.dollars - credit)
          /\ venue'.unsettled = venue.unsettled - credit /\ gfv' = gfv
        BY <1>1, <1>4, <1>11 DEF PlacedBuy, Account, Side
    <2>2. books'.lastPlan = today'
        BY <1>1, <2>1 DEF DeskInv, CreditToday
    <2>3. NoGoodFaithViolation'
        BY <2>1 DEF DeskInv, NoGoodFaithViolation
    <2>4. CreditToday'
        BY <1>7, <2>1, <2>2 DEF CreditToday
    <2>5. Dollars(buys) = Dollars(buys \ {o}) + o.dollars /\ sells \ {o} = sells
        BY <1>6, <2>1, DollarsRemove
    <2>6. Dollars(buys \ {o}) <= venue'.settled + venue'.unsettled + Dollars(sells \ {o})
        <3>1. Dollars(sells \ {o}) = Dollars(sells) /\ Dollars(buys) = Dollars(buys \ {o}) + o.dollars
            BY <2>5
        <3>2. Dollars(sells) \in Nat /\ Dollars(buys \ {o}) \in Nat /\ o.dollars \in Nat
            BY <1>4, <1>6, <1>9
        <3>3. /\ venue'.settled = venue.settled - (o.dollars - credit)
              /\ venue'.unsettled = venue.unsettled - credit
            BY <2>1
        <3> HIDE DEF buys, sells
        <3> QED BY <1>4, <1>5, <3>1, <3>2, <3>3
    <2>7. BudgetCovers'
        BY <1>3, <1>7, <2>6 DEF BudgetCovers
    <2> QED BY <1>2, <2>3, <2>4, <2>7 DEF DeskInv
<1> QED
    BY <1>1, <1>10, <1>11

\* The rest moves no order but by forgetting all of them, and no cash but into the
\* account.
LEMMA OtherCovered ==
    ASSUME NumberAssumption, Reconciling = "settled", TypeOK, TypeOK', DeskInv,
           \/ \E f \in session.fills : Record(f)
           \/ \E o \in session.todo : Reject(o)
           \/ Die \/ Mark \/ Deposit \/ ReconcileCash \/ Resume \/ NextDay
    PROVE  DeskInv'
<1>1. /\ venue \in Account /\ venue.settled \in Nat /\ venue.unsettled \in Nat
      /\ books \in Books /\ books.settled \in Int /\ books.unsettled \in Nat
      /\ session = [todo |-> session.todo, fills |-> session.fills]
    BY DEF TypeOK, Account, Books
<1>2. CASE \E f \in session.fills : Record(f)
    <2>1. PICK f \in session.fills : Record(f)
        BY <1>2
    <2>2. OneFill' /\ BooksMatchVenue'
        BY <2>1, RecordMatches DEF DeskInv
    <2>3. /\ session'.todo = session.todo /\ UNCHANGED <<today, venue, gfv>>
          /\ books'.lastPlan = books.lastPlan
        BY <1>1, <2>1 DEF Record, Books
    <2>4. CreditToday' /\ BudgetCovers' /\ NoGoodFaithViolation'
        BY <2>3 DEF DeskInv, CreditToday, BudgetCovers, NoGoodFaithViolation
    <2> QED BY <2>2, <2>4 DEF DeskInv
<1>3. CASE (\E o \in session.todo : Reject(o)) \/ Die
    <2>1. /\ session'.todo = {} /\ session'.fills = session.fills
          /\ UNCHANGED <<today, books, venue, gfv>>
        BY <1>1, <1>3 DEF Reject, Die
    <2>2. OneFill' /\ BooksMatchVenue'
        BY <1>1, <2>1, MatchKept DEF DeskInv
    <2>3. BudgetCovers'
        <3>1. Side({}, "buy") = {} /\ Side({}, "sell") = {}
            BY DEF Side
        <3>2. Dollars(Side(session'.todo, "buy")) = 0 /\ Dollars(Side(session'.todo, "sell")) = 0
            BY <2>1, <3>1, DollarsNone
        <3>3. IsFiniteSet(session'.todo)
            BY <2>1, FS_EmptySet
        <3>4. venue' = venue
            BY <2>1
        <3> QED BY <1>1, <3>2, <3>3, <3>4 DEF BudgetCovers
    <2>4. CreditToday' /\ NoGoodFaithViolation'
        BY <2>1 DEF DeskInv, CreditToday, NoGoodFaithViolation, Side
    <2> QED BY <2>2, <2>3, <2>4 DEF DeskInv
<1>4. CASE Mark \/ Resume
    <2>1. /\ session' = session /\ UNCHANGED <<today, venue, gfv>>
          /\ books'.lastPlan = books.lastPlan /\ books'.positions = books.positions
          /\ books'.settled = books.settled /\ books'.unsettled = books.unsettled
        BY <1>1, <1>4 DEF Mark, Resume, Books
    <2>2. OneFill' /\ BooksMatchVenue'
        BY <1>1, <2>1, MatchKept DEF DeskInv
    <2>3. CreditToday' /\ BudgetCovers' /\ NoGoodFaithViolation'
        BY <2>1 DEF DeskInv, CreditToday, BudgetCovers, NoGoodFaithViolation
    <2> QED BY <2>2, <2>3 DEF DeskInv
<1>5. CASE Deposit
    <2>1. /\ session' = session /\ books' = books /\ UNCHANGED <<today, gfv>>
          /\ venue'.positions = venue.positions /\ venue'.onCredit = venue.onCredit
          /\ venue'.settled = venue.settled + 1 /\ venue'.unsettled = venue.unsettled
        BY <1>1, <1>5 DEF Deposit, Account
    <2>2. OneFill' /\ BooksMatchVenue'
        BY <1>1, <2>1, MatchKept DEF DeskInv
    <2>3. CreditToday' /\ NoGoodFaithViolation'
        BY <2>1 DEF DeskInv, CreditToday, NoGoodFaithViolation
    <2>4. BudgetCovers'
        <3>1. session.todo \in SUBSET Order
            BY DEF TypeOK
        <3>2. IsFiniteSet(session.todo)
            BY DEF DeskInv, BudgetCovers
        <3>3. Dollars(Side(session.todo, "buy")) \in Nat /\ Dollars(Side(session.todo, "sell")) \in Nat
            BY <3>1, <3>2, SideFits
        <3>4. Dollars(Side(session.todo, "buy")) <=
                  venue.settled + venue.unsettled + Dollars(Side(session.todo, "sell"))
            BY DEF DeskInv, BudgetCovers
        <3>5. Dollars(Side(session.todo, "buy")) <=
                  venue'.settled + venue'.unsettled + Dollars(Side(session.todo, "sell"))
            BY <1>1, <2>1, <3>3, <3>4
        <3> QED BY <2>1, <3>2, <3>5 DEF BudgetCovers
    <2> QED BY <2>2, <2>3, <2>4 DEF DeskInv
<1>6. CASE ReconcileCash
    <2>1. /\ session.todo = {} /\ session.fills = {} /\ books.unsettled = 0
          /\ session' = session /\ venue' = venue /\ UNCHANGED <<today, gfv>>
          /\ books'.lastPlan = books.lastPlan /\ books'.positions = books.positions
          /\ books'.settled = venue.settled /\ books'.unsettled = books.unsettled
        BY <1>1, <1>6 DEF ReconcileCash, Books, Idle
    <2>2. UnrecordedCash(session'.fills) = 0
        BY <2>1, NoneUnrecorded
    <2>3. \A s \in Symbols :
              books'.positions[s] + Unrecorded(session'.fills, s) = venue'.positions[s]
        BY <2>1 DEF DeskInv, BooksMatchVenue
    <2>4. books'.settled + books'.unsettled + UnrecordedCash(session'.fills)
              <= venue'.settled + venue'.unsettled
        BY <1>1, <2>1, <2>2
    <2>5. BooksMatchVenue'
        BY <2>3, <2>4 DEF BooksMatchVenue
    <2>6. OneFill' /\ CreditToday' /\ BudgetCovers' /\ NoGoodFaithViolation'
        BY <2>1 DEF DeskInv, OneFill, CreditToday, BudgetCovers, NoGoodFaithViolation
    <2> QED BY <2>5, <2>6 DEF DeskInv
<1>7. CASE NextDay
    <2>1. /\ session.todo = {} /\ session' = session /\ books' = books /\ gfv' = gfv
          /\ venue'.positions = venue.positions /\ venue'.onCredit = [s \in Symbols |-> FALSE]
          /\ venue'.settled = venue.settled + venue.unsettled /\ venue'.unsettled = 0
        BY <1>1, <1>7 DEF NextDay, Account
    <2>2. OneFill' /\ BooksMatchVenue'
        BY <1>1, <2>1, MatchKept DEF DeskInv
    <2>3. CreditToday'
        BY <2>1 DEF CreditToday, Side
    <2>4. NoGoodFaithViolation'
        BY <2>1 DEF DeskInv, NoGoodFaithViolation
    <2>5. BudgetCovers'
        <3>1. Side({}, "buy") = {} /\ Side({}, "sell") = {}
            BY DEF Side
        <3>2. Dollars(Side(session'.todo, "buy")) = 0 /\ Dollars(Side(session'.todo, "sell")) = 0
            BY <2>1, <3>1, DollarsNone
        <3>3. IsFiniteSet(session'.todo)
            BY <2>1, FS_EmptySet
        <3> QED BY <1>1, <2>1, <3>2, <3>3 DEF BudgetCovers
    <2> QED BY <2>2, <2>3, <2>4, <2>5 DEF DeskInv
<1> QED
    BY <1>2, <1>3, <1>4, <1>5, <1>6, <1>7

LEMMA DeskInvariant ==
    ASSUME NumberAssumption, Reconciling = "settled"
    PROVE  Spec => []DeskInv
<1>1. Init => DeskInv
    <2> SUFFICES ASSUME Init PROVE DeskInv
        OBVIOUS
    <2>1. /\ session.todo = {} /\ session.fills = {} /\ InitCash \in Nat
          /\ books.settled = InitCash /\ books.unsettled = 0
          /\ venue.settled = InitCash /\ venue.unsettled = 0
          /\ \A s \in Symbols : books.positions[s] = 0 /\ venue.positions[s] = 0
                                /\ ~venue.onCredit[s]
          /\ ~gfv
        BY DEF Init, NumberAssumption
    <2>2. BooksMatchVenue
        <3>1. \A s \in Symbols : Unrecorded(session.fills, s) = 0
            BY <2>1, NoneUnrecorded
        <3>2. UnrecordedCash(session.fills) = 0
            BY <2>1, NoneUnrecorded
        <3> QED BY <2>1, <3>1, <3>2 DEF BooksMatchVenue
    <2>3. BudgetCovers
        <3>1. Side({}, "buy") = {} /\ Side({}, "sell") = {}
            BY DEF Side
        <3>2. Dollars(Side(session.todo, "buy")) = 0 /\ Dollars(Side(session.todo, "sell")) = 0
            BY <2>1, <3>1, DollarsNone
        <3>3. IsFiniteSet(session.todo)
            BY <2>1, FS_EmptySet
        <3> QED BY <2>1, <3>2, <3>3 DEF BudgetCovers
    <2>4. OneFill /\ NoGoodFaithViolation /\ CreditToday
        BY <2>1 DEF OneFill, NoGoodFaithViolation, CreditToday, Side
    <2> QED BY <2>2, <2>3, <2>4 DEF DeskInv
<1>2. TypeOK /\ TypeOK' /\ DeskInv /\ [Next]_vars => DeskInv'
    <2> SUFFICES ASSUME TypeOK, TypeOK', DeskInv, [Next]_vars PROVE DeskInv'
        OBVIOUS
    <2>1. CASE UNCHANGED vars
        BY <2>1 DEF vars, DeskInv, OneFill, BooksMatchVenue, NoGoodFaithViolation,
                    CreditToday, BudgetCovers
    <2>2. CASE Next
        BY <2>2, PlanCovered, PlaceCovered, OtherCovered DEF Next
    <2> QED BY <2>1, <2>2
<1> QED
    BY <1>1, <1>2, TypeCorrect, PTL DEF Spec

\* Cash is reconciled when nothing in the books is unsettled: then the books are
\* the account up to the fill that is not recorded yet, in every symbol, and never
\* hold cash the account does not (record, settle and reconcile_cash of
\* equity_rebalance.py), whatever dies and whatever the broker refuses.
THEOREM BooksAreAccount ==
    ASSUME NumberAssumption, Reconciling = "settled"
    PROVE  Spec => []BooksMatchVenue
<1>1. DeskInv => BooksMatchVenue
    BY DEF DeskInv
<1> QED
    BY <1>1, DeskInvariant, PTL

\* What a plan buys is paid with settled cash or with its own sells, and nothing
\* bought on unsettled proceeds is sold before they settle (plan's budget and the
\* one plan a day).
THEOREM PlansArePaid ==
    ASSUME NumberAssumption, Reconciling = "settled"
    PROVE  Spec => []BuysCovered
<1>1. TypeOK /\ DeskInv => BuysCovered
    <2> SUFFICES ASSUME TypeOK, DeskInv, Side(session.todo, "sell") = {}
                 PROVE  Dollars(Side(session.todo, "buy")) <= venue.settled + venue.unsettled
        BY DEF DeskInv, BuysCovered, BuysAffordable
    <2>1. Dollars(Side(session.todo, "sell")) = 0
        BY DollarsNone
    <2>2. venue.settled \in Nat /\ venue.unsettled \in Nat
        BY DEF TypeOK, Account
    <2> QED BY <2>1, <2>2 DEF DeskInv, BudgetCovers
<1> QED
    BY <1>1, TypeCorrect, DeskInvariant, PTL

-----------------------------------------------------------------------------
(* The equity strategies                                                   *)

CONSTANTS Families, NewDays(_), Band, One, Menu, Safe, Core, Haven, MaxDate(_), TopN, DefK
VARIABLES family, seen, date, held, row, live, seeds, target

Selection == INSTANCE EquitySelection

LEMMA SelectionSums ==
    ASSUME NEW f, NEW S
    PROVE  Selection!Total(f, S) = SumFunctionOnSet(f, S)
<1>1. Selection!SumFunctionOnSet(f, S) = SumFunctionOnSet(f, S)
    BY Zenon DEF Selection!SumFunctionOnSet, SumFunctionOnSet, Selection!FoldFunctionOnSet, FoldFunctionOnSet,
                 Selection!MapThenFoldSet, MapThenFoldSet
<1> QED BY <1>1 DEF Selection!Total

LEMMA SelectionSets ==
    ASSUME NEW S
    PROVE  (Selection!IsFiniteSet(S) <=> IsFiniteSet(S)) /\ Selection!Cardinality(S) = Cardinality(S)
<1>1. Selection!IsFiniteSet(S) <=> IsFiniteSet(S)
    BY Zenon DEF Selection!IsFiniteSet, IsFiniteSet
<1>2. Selection!Cardinality(S) = Cardinality(S)
    BY Zenon DEF Selection!Cardinality, Cardinality
<1> QED BY <1>1, <1>2

LEMMA SelectionLimits ==
    ASSUME Selection!SelectionAssumption
    PROVE  /\ IsFiniteSet(Selection!Assets) /\ IsFiniteSet(Menu) /\ IsFiniteSet(Safe)
           /\ Menu \subseteq Selection!Assets /\ Safe \subseteq Selection!Assets /\ Core \in Selection!Assets
           /\ TopN \in Nat \ {0} /\ DefK \in Nat \ {0} /\ One \in Nat /\ Band \in Nat
           /\ \A S \in SUBSET Selection!Assets : IsFiniteSet(S) /\ Selection!Cardinality(S) \in Nat
<1>1. IsFiniteSet(Menu) /\ IsFiniteSet(Safe)
    BY SelectionSets DEF Selection!SelectionAssumption
<1>2. IsFiniteSet(Selection!Assets)
    BY <1>1, FS_Union, FS_Singleton DEF Selection!Assets
<1>3. \A S \in SUBSET Selection!Assets : IsFiniteSet(S) /\ Selection!Cardinality(S) \in Nat
    BY <1>2, SelectionSets, FS_Subset, FS_CardinalityType
<1>4. TopN \in Nat \ {0} /\ DefK \in Nat \ {0} /\ One \in Nat /\ Band \in Nat
    BY DEF Selection!SelectionAssumption
<1> QED BY <1>1, <1>2, <1>3, <1>4 DEF Selection!Assets

\* A division: the greatest number whose product is not above, so that shares
\* of the parts are within the share of the whole.
LEMMA QuotientGreatest ==
    ASSUME NEW x \in Int, NEW d \in Nat \ {0}, NEW k \in Int, d * k <= x
    PROVE  k <= x \div d
<1> DEFINE q == x \div d
<1>1. q \in Int /\ x < d * (q + 1)
    OBVIOUS
<1> HIDE DEF q
<1>2. SUFFICES ASSUME k >= q + 1 PROVE FALSE
    BY <1>1 DEF q
<1>3. d * (q + 1) <= d * k
    BY <1>1, <1>2, ProductLess
<1>4. d * (q + 1) \in Int /\ d * k \in Int
    BY <1>1
<1> QED BY <1>1, <1>3, <1>4

LEMMA ShareOfParts ==
    ASSUME NEW c \in Nat, NEW w \in Nat, NEW d \in Nat \ {0}
    PROVE  c * (w \div d) \in Nat /\ (w * c) \div d \in Nat /\ c * (w \div d) <= (w * c) \div d
<1> DEFINE q == w \div d
<1>1. q \in Nat /\ d * q <= w
    BY QuotientOfNat
<1> HIDE DEF q
<1>2. c * (d * q) <= c * w
    BY <1>1, ProductLess
<1>3. c * q \in Nat /\ w * c \in Nat /\ d * (c * q) = c * (d * q) /\ c * w = w * c
    BY <1>1
<1>4. d * (c * q) <= w * c
    BY <1>2, <1>3
<1> DEFINE k == c * q
           x == w * c
<1>5. k \in Nat /\ x \in Nat /\ d * k <= x
    BY <1>3, <1>4
<1> HIDE DEF k, x
<1>6. k <= x \div d /\ x \div d \in Nat
    BY <1>5, QuotientGreatest, QuotientOfNat
<1> QED BY <1>5, <1>6 DEF k, x, q

LEMMA SharesAdd ==
    ASSUME NEW x \in Nat, NEW y \in Nat, NEW d \in Nat \ {0}, NEW w \in Nat, x + y <= d * w
    PROVE  x \div d \in Nat /\ y \div d \in Nat /\ (x \div d) + (y \div d) <= w
<1> DEFINE p == x \div d
           q == y \div d
<1>1. p \in Nat /\ d * p <= x /\ q \in Nat /\ d * q <= y
    BY QuotientOfNat
<1> HIDE DEF p, q
<1>2. d * (p + q) = d * p + d * q /\ d * p \in Nat /\ d * q \in Nat /\ d * w \in Nat
    BY <1>1
<1>3. d * (p + q) <= d * w
    BY <1>1, <1>2
<1>4. SUFFICES ASSUME p + q >= w + 1 PROVE FALSE
    BY <1>1 DEF p, q
<1>5. d * (w + 1) <= d * (p + q)
    BY <1>1, <1>4, ProductLess
<1>6. d * (w + 1) = d * w + d
    OBVIOUS
<1> QED BY <1>2, <1>3, <1>5, <1>6

-----------------------------------------------------------------------------
\* Weights that add up to at most b.
AtMost(w, b) == w \in [Selection!Assets -> Nat] /\ Selection!Total(w, Selection!Assets) <= b

LEMMA AtMostMore ==
    ASSUME Selection!SelectionAssumption, NEW w, NEW b \in Nat, NEW c \in Nat, AtMost(w, b), b <= c
    PROVE  AtMost(w, c)
<1>1. Selection!Total(w, Selection!Assets) \in Nat
    BY SelectionLimits, SelectionSums, SumNat DEF AtMost
<1> QED BY <1>1 DEF AtMost

LEMMA EmptyAtMost ==
    ASSUME Selection!SelectionAssumption, NEW b \in Nat
    PROVE  AtMost(Selection!Empty, b)
<1>1. /\ Selection!Empty \in [Selection!Assets -> Nat]
      /\ \A a \in Selection!Assets : Selection!Empty[a] = 0
    BY DEF Selection!Empty
<1>2. SumFunctionOnSet(Selection!Empty, Selection!Assets) = 0 * Cardinality(Selection!Assets)
    BY <1>1, SelectionLimits, SumConstant
<1>3. Cardinality(Selection!Assets) \in Nat
    BY SelectionLimits, FS_CardinalityType
<1> QED
    BY <1>1, <1>2, <1>3, SelectionSums DEF AtMost

LEMMA PlusAtMost ==
    ASSUME Selection!SelectionAssumption, NEW f, NEW g, NEW b \in Nat, NEW c \in Nat, NEW d \in Nat,
           AtMost(f, b), AtMost(g, c), b + c <= d
    PROVE  AtMost(Selection!Plus(f, g), d)
<1> DEFINE h == Selection!Plus(f, g)
<1>0. f \in [Selection!Assets -> Nat] /\ g \in [Selection!Assets -> Nat]
    BY DEF AtMost
<1>1. \A a \in Selection!Assets : f[a] \in Int /\ g[a] \in Int /\ h[a] = f[a] + g[a]
    BY <1>0 DEF Selection!Plus
<1>2. h \in [Selection!Assets -> Nat]
    BY <1>0 DEF Selection!Plus
<1> HIDE DEF h
<1>3. SumFunctionOnSet(h, Selection!Assets) =
          SumFunctionOnSet(f, Selection!Assets) + SumFunctionOnSet(g, Selection!Assets)
    BY <1>1, SelectionLimits, SumPlus
<1>4. SumFunctionOnSet(f, Selection!Assets) \in Nat /\ SumFunctionOnSet(g, Selection!Assets) \in Nat
    BY <1>0, SelectionLimits, SumNat
<1>5. SumFunctionOnSet(f, Selection!Assets) <= b /\ SumFunctionOnSet(g, Selection!Assets) <= c
    BY SelectionSums DEF AtMost
<1>6. AtMost(h, d)
    BY <1>2, <1>3, <1>4, <1>5, SelectionSums DEF AtMost
<1> QED BY <1>6 DEF h

\* Weights that are zero outside S add up to what S has.
LEMMA TotalOver ==
    ASSUME Selection!SelectionAssumption, NEW S \in SUBSET Selection!Assets, NEW f \in [Selection!Assets -> Int],
           \A a \in Selection!Assets \ S : f[a] = 0
    PROVE  Selection!Total(f, Selection!Assets) = SumFunctionOnSet(f, S)
<1> DEFINE R == Selection!Assets \ S
<1>1. IsFiniteSet(Selection!Assets) /\ IsFiniteSet(R) /\ IsFiniteSet(S) /\ Cardinality(R) \in Nat
    BY SelectionLimits, FS_CardinalityType
<1>2. SumFunctionOnSet(f, Selection!Assets) = SumFunctionOnSet(f, S) + SumFunctionOnSet(f, R)
    BY <1>1, SumSplit
<1>3. SumFunctionOnSet(f, R) = 0 * Cardinality(R)
    BY <1>1, SumConstant
<1>4. SumFunctionOnSet(f, S) \in Int
    BY <1>1, SumInt
<1> HIDE DEF R
<1> QED BY <1>1, <1>2, <1>3, <1>4, SelectionSums

\* Equal shares, n ways: of at most n names.
LEMMA EvenAtMost ==
    ASSUME Selection!SelectionAssumption, NEW S \in SUBSET Selection!Assets, NEW w \in Nat, NEW n \in Nat,
           Selection!Cardinality(S) <= n
    PROVE  /\ AtMost(Selection!Even(S, w, n), w)
           /\ n # 0 => /\ (w * Selection!Cardinality(S)) \div n \in 0 .. w
                       /\ AtMost(Selection!Even(S, w, n), (w * Selection!Cardinality(S)) \div n)
<1> DEFINE e == Selection!Even(S, w, n)
           c == Cardinality(S)
<1>0. IsFiniteSet(S) /\ c \in Nat /\ c <= n /\ Selection!Cardinality(S) = c /\ (c = 0 <=> S = {})
    BY SelectionLimits, SelectionSets, FS_CardinalityType, FS_EmptySet
<1>1. CASE n = 0
    <2>1. S = {}
        BY <1>0, <1>1
    <2>2. e = Selection!Empty
        BY <2>1 DEF Selection!Even, Selection!Empty
    <2> QED BY <1>1, <2>2, EmptyAtMost
<1>2. CASE n # 0
    <2> DEFINE q == w \div n
               z == (w * c) \div n
    <2>1. n \in Nat \ {0} /\ q \in Nat
        BY <1>2, QuotientOfNat
    <2>2. e = [a \in Selection!Assets |-> IF a \in S THEN q ELSE 0]
        BY DEF Selection!Even
    <2> HIDE DEF q, e, c
    <2>3. e \in [Selection!Assets -> Nat] /\ e \in [Selection!Assets -> Int]
        BY <2>1, <2>2
    <2>4. (\A a \in S : e[a] = q) /\ \A a \in Selection!Assets \ S : e[a] = 0
        BY <2>2
    <2>5. Selection!Total(e, Selection!Assets) = q * c
        <3>1. SumFunctionOnSet(e, S) = q * c
            BY <1>0, <2>1, <2>4, SumConstant DEF c
        <3> QED BY <2>3, <2>4, <3>1, TotalOver
    <2>6. q * c <= z /\ z \in Nat /\ q * c \in Nat
        BY <1>0, <2>1, ShareOfParts DEF q
    <2>7. z \in 0 .. w
        <3> DEFINE x == w * c
        <3>1. x \in Nat /\ x <= n * w
            <4>1. w * c <= w * n
                BY <1>0, <2>1, ProductLess
            <4>2. w * n = n * w /\ w * c \in Nat
                BY <1>0, <2>1
            <4> QED BY <4>1, <4>2
        <3> HIDE DEF x
        <3>2. x \div n \in 0 .. w
            BY <2>1, <3>1, QuotientNat
        <3> QED BY <3>2 DEF x
    <2> HIDE DEF z
    <2>8. AtMost(e, z)
        BY <2>3, <2>5, <2>6 DEF AtMost
    <2>9. AtMost(e, w)
        BY <2>6, <2>7, <2>8, AtMostMore
    <2> QED BY <1>0, <2>7, <2>8, <2>9 DEF e, z
<1> QED BY <1>1, <1>2

\* Shares by inverse volatility.
LEMMA InvVolAtMost ==
    ASSUME Selection!SelectionAssumption, NEW S \in SUBSET Menu, NEW w \in Nat, NEW iv, \A a \in Menu : iv[a] \in Nat \ {0}
    PROVE  AtMost(Selection!InvVol(S, w, iv), w)
<1> DEFINE e == Selection!InvVol(S, w, iv)
           t == SumFunctionOnSet(iv, S)
<1>0. /\ IsFiniteSet(S) /\ S \in SUBSET Selection!Assets /\ IsFiniteSet(Selection!Assets)
      /\ \A a \in S : iv[a] \in Nat /\ iv[a] \in Int /\ iv[a] > 0
    BY SelectionLimits
<1>1. CASE S = {}
    <2>1. e = Selection!Empty
        BY <1>1 DEF Selection!InvVol, Selection!Empty
    <2> QED BY <2>1, EmptyAtMost
<1>2. CASE S # {}
    <2>1. t \in Nat \ {0}
        <3>1. PICK x \in S : TRUE
            BY <1>2
        <3>2. t = iv[x] + SumFunctionOnSet(iv, S \ {x})
            BY <1>0, SumRemove
        <3>3. SumFunctionOnSet(iv, S \ {x}) \in Nat
            <4>1. IsFiniteSet(S \ {x}) /\ \A a \in S \ {x} : iv[a] \in Nat
                BY <1>0, FS_Subset
            <4> QED BY <4>1, SumNat
        <3>4. iv[x] \in Nat /\ iv[x] > 0
            BY <1>0
        <3> HIDE DEF t
        <3> QED BY <3>2, <3>3, <3>4
    <2>2. e = [a \in Selection!Assets |-> IF a \in S THEN (w * iv[a]) \div t ELSE 0]
        BY SelectionSums DEF Selection!InvVol
    <2> HIDE DEF e, t
    <2>3. ASSUME NEW a \in Selection!Assets
          PROVE  e[a] \in Nat /\ e[a] \in Int /\ (a \in S => t * e[a] <= w * iv[a]) /\ (a \notin S => e[a] = 0)
        <3>1. CASE a \in S
            <4> DEFINE x == w * iv[a]
            <4>1. x \in Nat
                BY <1>0, <3>1
            <4>2. e[a] = x \div t
                BY <2>2, <3>1
            <4> HIDE DEF x
            <4>3. x \div t \in Nat /\ t * (x \div t) <= x
                BY <2>1, <4>1, QuotientOfNat
            <4> QED BY <3>1, <4>2, <4>3 DEF x
        <3>2. CASE a \notin S
            BY <2>2, <3>2
        <3> QED BY <3>1, <3>2
    <2>4. e \in [Selection!Assets -> Nat] /\ e \in [Selection!Assets -> Int]
        BY <2>2, <2>3
    <2>5. Selection!Total(e, Selection!Assets) = SumFunctionOnSet(e, S)
        BY <1>0, <2>3, <2>4, TotalOver
    <2> DEFINE x == [a \in S |-> t * e[a]]
               y == [a \in S |-> w * iv[a]]
    <2>6. ASSUME NEW a \in S
          PROVE  /\ x[a] \in Int /\ y[a] \in Int /\ x[a] <= y[a] /\ e[a] \in Int /\ iv[a] \in Int
                 /\ x[a] = t * e[a] /\ y[a] = w * iv[a]
        <3>1. a \in Selection!Assets
            BY <1>0
        <3>2. e[a] \in Nat /\ iv[a] \in Nat /\ t * e[a] <= w * iv[a]
            BY <1>0, <2>3, <3>1
        <3>3. t * e[a] \in Int /\ w * iv[a] \in Int
            BY <2>1, <3>2
        <3> QED BY <3>2, <3>3
    <2> HIDE DEF x, y
    <2>7. t \in Int /\ w \in Int /\ t = SumFunctionOnSet(iv, S)
        BY <2>1 DEF t
    <2>8. SumFunctionOnSet(x, S) = t * SumFunctionOnSet(e, S)
        BY <1>0, <2>6, <2>7, SumScale
    <2>9. SumFunctionOnSet(y, S) = w * t
        BY <1>0, <2>6, <2>7, SumScale
    <2>10. SumFunctionOnSet(x, S) <= SumFunctionOnSet(y, S)
        BY <1>0, <2>6, SumLess
    <2> DEFINE s == SumFunctionOnSet(e, S)
    <2>11. s \in Int /\ t * s <= w * t
        BY <1>0, <2>6, <2>8, <2>9, <2>10, SumInt
    <2> HIDE DEF s
    <2>12. s <= w
        <3>1. SUFFICES ASSUME s >= w + 1 PROVE FALSE
            BY <2>11
        <3>2. t * (w + 1) <= t * s
            BY <2>1, <2>11, <3>1, ProductLess
        <3>3. t * (w + 1) = w * t + t /\ w * t \in Int /\ t * s \in Int /\ t > 0
            BY <2>1, <2>11
        <3> QED BY <2>7, <2>11, <3>2, <3>3
    <2>13. AtMost(e, w)
        BY <2>4, <2>5, <2>12 DEF AtMost, s
    <2> QED BY <2>13 DEF e
<1> QED BY <1>1, <1>2


-----------------------------------------------------------------------------
\* The best k of names without ties are at most k.
LEMMA BestAreFew ==
    ASSUME Selection!SelectionAssumption, NEW S \in SUBSET Selection!Assets, NEW f, NEW k \in Nat,
           \A a \in S : f[a] \in Int, \A a, b \in S : f[a] = f[b] => a = b
    PROVE  /\ Selection!Best(f, S, k) \subseteq S
           /\ Selection!Cardinality(Selection!Best(f, S, k)) <= k
<1> DEFINE B == Selection!Best(f, S, k)
           above(a) == {b \in S : f[b] > f[a]}
           rank == [a \in B |-> Cardinality(above(a))]
<1>0. B \subseteq S /\ IsFiniteSet(S) /\ IsFiniteSet(B)
    BY SelectionLimits DEF Selection!Best
<1>1. \A a \in S : IsFiniteSet(above(a)) /\ Cardinality(above(a)) \in Nat
    BY <1>0, FS_Subset, FS_CardinalityType
<1>2. ASSUME NEW a \in B
      PROVE  rank[a] \in 0 .. k - 1
    <2>1. a \in S /\ Selection!Above(f, a, S) < k
        BY DEF Selection!Best
    <2>2. Selection!Above(f, a, S) = Cardinality(above(a))
        BY SelectionSets DEF Selection!Above
    <2>3. rank[a] = Cardinality(above(a))
        OBVIOUS
    <2> HIDE DEF above, rank, B
    <2> QED BY <1>1, <2>1, <2>2, <2>3
<1>3. ASSUME NEW a \in B, NEW b \in B, f[a] < f[b]
      PROVE  rank[b] < rank[a]
    <2>1. a \in S /\ b \in S /\ f[a] \in Int /\ f[b] \in Int
        BY <1>0
    <2>2. b \in above(a) /\ b \notin above(b) /\ above(b) \subseteq above(a)
        BY <1>0, <1>3, <2>1
    <2>3. IsFiniteSet(above(a)) /\ IsFiniteSet(above(b)) /\ Cardinality(above(a)) \in Nat /\ Cardinality(above(b)) \in Nat
        BY <1>1, <2>1
    <2>4. Cardinality(above(b)) <= Cardinality(above(a)) /\ (Cardinality(above(b)) = Cardinality(above(a)) => above(a) = above(b))
        BY <2>2, <2>3, FS_Subset
    <2>5. rank[a] = Cardinality(above(a)) /\ rank[b] = Cardinality(above(b))
        OBVIOUS
    <2> HIDE DEF above, rank
    <2> QED BY <2>2, <2>3, <2>4, <2>5
<1>4. rank \in Injection(B, 0 .. k - 1)
    <2>1. rank \in [B -> 0 .. k - 1]
        BY <1>2
    <2>2. ASSUME NEW a \in B, NEW b \in B, rank[a] = rank[b]
          PROVE  a = b
        <3>1. f[a] \in Int /\ f[b] \in Int /\ a \in S /\ b \in S
            BY <1>0
        <3>2. rank[a] \in Int /\ rank[b] \in Int
            BY <1>2
        <3> HIDE DEF rank, B
        <3>3. ~(f[a] < f[b]) /\ ~(f[b] < f[a])
            BY <1>3, <2>2, <3>2
        <3> QED BY <3>1, <3>3
    <2> HIDE DEF rank, B
    <2> QED BY <2>1, <2>2 DEF Injection, IsInjective
<1>5. IsFiniteSet(0 .. k - 1) /\ Cardinality(0 .. k - 1) = k
    BY FS_Interval
<1>6. Cardinality(B) <= Cardinality(0 .. k - 1)
    BY <1>4, <1>5, FS_Injection
<1> QED
    BY <1>0, <1>5, <1>6, SelectionSets DEF B

\* What the windows of a day come out at.
LEMMA DayIs ==
    ASSUME Selection!SelectionAssumption, family \in Families, NEW d \in NewDays(family)
    PROVE  /\ d.score \in [Menu -> Int] /\ d.mom \in [Menu -> Int] /\ d.safe \in [Safe -> Int]
           /\ d.iv \in [Menu -> 1 .. One \div TopN] /\ d.risk \in 0 .. 2 /\ d.canary \in BOOLEAN
           /\ Selection!Strict(d.score, Menu) /\ Selection!Strict(d.safe, Safe)
BY DEF Selection!SelectionAssumption

LEMMA RanksAreFew ==
    ASSUME Selection!SelectionAssumption, family \in Families, NEW d \in NewDays(family), NEW k \in Nat
    PROVE  /\ \A S \in SUBSET Selection!Scored(d.score, Menu) :
                  /\ Selection!Best(d.score, S, k) \subseteq S
                  /\ Selection!Cardinality(Selection!Best(d.score, S, k)) <= k
           /\ \A S \in SUBSET Selection!Scored(d.safe, Safe) :
                  /\ Selection!Best(d.safe, S, k) \subseteq S
                  /\ Selection!Cardinality(Selection!Best(d.safe, S, k)) <= k
<1>0. Menu \subseteq Selection!Assets /\ Safe \subseteq Selection!Assets
    BY SelectionLimits
<1>1. ASSUME NEW S \in SUBSET Selection!Scored(d.score, Menu)
      PROVE  /\ Selection!Best(d.score, S, k) \subseteq S
             /\ Selection!Cardinality(Selection!Best(d.score, S, k)) <= k
    <2>1. S \in SUBSET Selection!Assets /\ \A a \in S : d.score[a] \in Int
        BY <1>0, DayIs DEF Selection!Scored
    <2>2. \A a, b \in S : d.score[a] = d.score[b] => a = b
        BY DayIs DEF Selection!Strict
    <2> QED BY <2>1, <2>2, BestAreFew
<1>2. ASSUME NEW S \in SUBSET Selection!Scored(d.safe, Safe)
      PROVE  /\ Selection!Best(d.safe, S, k) \subseteq S
             /\ Selection!Cardinality(Selection!Best(d.safe, S, k)) <= k
    <2>1. S \in SUBSET Selection!Assets /\ \A a \in S : d.safe[a] \in Int
        BY <1>0, DayIs DEF Selection!Scored
    <2>2. \A a, b \in S : d.safe[a] = d.safe[b] => a = b
        BY DayIs DEF Selection!Strict
    <2> QED BY <2>1, <2>2, BestAreFew
<1> QED BY <1>1, <1>2

\* A part of a set of names is no more of them.
LEMMA PartIsFewer ==
    ASSUME Selection!SelectionAssumption, NEW S \in SUBSET Selection!Assets, NEW T \in SUBSET S, NEW k \in Nat,
           Selection!Cardinality(S) <= k
    PROVE  Selection!Cardinality(T) \in 0 .. k
<1>1. IsFiniteSet(S) /\ Cardinality(S) <= k
    BY SelectionLimits, SelectionSets
<1>2. Cardinality(T) <= Cardinality(S) /\ Cardinality(T) \in Nat /\ Cardinality(S) \in Nat
    BY <1>1, FS_Subset, FS_CardinalityType
<1> QED BY <1>1, <1>2, SelectionSets

-----------------------------------------------------------------------------
(* The ranked books                                                         *)

\* The stocks and the defense are the book.
LEMMA SleevesAre ==
    ASSUME Selection!SelectionAssumption, NEW S \in SUBSET Menu, NEW risk \in 0 .. 2, Selection!Cardinality(S) <= TopN
    PROVE  /\ Selection!Offense(risk, S) \in 0 .. One /\ Selection!Defense(risk, S) \in 0 .. One
           /\ Selection!Offense(risk, S) + Selection!Defense(risk, S) = One
<1> DEFINE c == Selection!Cardinality(S)
           x == One * risk * c
           n == 2 * TopN
<1>1. c \in Nat /\ c <= TopN /\ TopN \in Nat \ {0} /\ One \in Nat /\ n \in Nat \ {0} /\ risk \in Nat /\ risk <= 2
    BY SelectionLimits
<1> HIDE DEF c
<1>2. x \in Nat /\ x <= n * One
    <2>1. risk * c \in Nat /\ risk * c <= 2 * c
        BY <1>1, ProductLess
    <2>2. risk * c <= n
        BY <1>1, <2>1
    <2> DEFINE z == risk * c
    <2> HIDE DEF z
    <2>3. z \in Nat /\ z <= n
        BY <2>1, <2>2 DEF z
    <2>4. One * z <= One * n
        BY <1>1, <2>3, ProductLess
    <2>5. x = One * z
        BY <1>1 DEF z
    <2>6. One * n = n * One /\ One * z \in Nat
        BY <1>1, <2>3
    <2> QED BY <2>4, <2>5, <2>6
<1>3. Selection!Offense(risk, S) = x \div n
    BY DEF Selection!Offense, c
<1> HIDE DEF x, n
<1>4. x \div n \in 0 .. One
    BY <1>1, <1>2, QuotientNat
<1> QED
    BY <1>1, <1>3, <1>4 DEF Selection!Defense

LEMMA StocksAtMost ==
    ASSUME Selection!SelectionAssumption, family \in Families, NEW d \in NewDays(family), NEW S \in SUBSET Menu,
           NEW risk \in 0 .. 2, Selection!Cardinality(S) <= TopN
    PROVE  AtMost(Selection!Stocks(d, S, risk), Selection!Offense(risk, S))
<1>1. Selection!Offense(risk, S) \in Nat
    BY SleevesAre
<1>2. \A a \in Menu : d.iv[a] \in Nat \ {0}
    BY DayIs
<1> QED
    BY <1>1, <1>2, EmptyAtMost, InvVolAtMost DEF Selection!Stocks

\* The defensive funds share what is given to them.
LEMMA RoutedAtMost ==
    ASSUME Selection!SelectionAssumption, family \in Families, NEW d \in NewDays(family), NEW w \in Nat
    PROVE  AtMost(Selection!Routed(d, w), w)
<1> DEFINE B == Selection!Best(d.safe, Selection!Scored(d.safe, Safe), DefK)
<1>0. Safe \subseteq Selection!Assets /\ DefK \in Nat
    BY SelectionLimits
<1>1. B \subseteq Safe /\ Selection!Cardinality(B) <= DefK
    BY <1>0, RanksAreFew DEF Selection!Scored
<1>2. Selection!SafePicks(d) \in SUBSET B
    BY DEF Selection!SafePicks
<1> HIDE DEF B
<1>3. Selection!SafePicks(d) \in SUBSET Selection!Assets /\ Selection!Cardinality(Selection!SafePicks(d)) <= DefK
    BY <1>0, <1>1, <1>2, PartIsFewer
<1> QED
    BY <1>0, <1>3, EvenAtMost DEF Selection!Routed

LEMMA RankedAtMost ==
    ASSUME Selection!SelectionAssumption, family \in Families, NEW d \in NewDays(family), NEW S \in SUBSET Menu,
           Selection!Cardinality(S) <= TopN
    PROVE  /\ AtMost(Selection!Refined(d, S), One) /\ AtMost(Selection!ResidMom(d, S), One)
           /\ AtMost(Selection!LowVol(d, S), One) /\ AtMost(Selection!Canary(d, S), One)
<1>0. One \in Nat /\ d.risk \in 0 .. 2
    BY SelectionLimits, DayIs
<1>1. ASSUME NEW risk \in 0 .. 2
      PROVE  /\ Selection!Offense(risk, S) \in Nat /\ Selection!Defense(risk, S) \in Nat
             /\ Selection!Offense(risk, S) + Selection!Defense(risk, S) <= One
             /\ AtMost(Selection!Stocks(d, S, risk), Selection!Offense(risk, S))
             /\ AtMost(Selection!Routed(d, Selection!Defense(risk, S)), Selection!Defense(risk, S))
    BY <1>0, SleevesAre, StocksAtMost, RoutedAtMost
<1>2. ASSUME NEW risk \in 0 .. 2
      PROVE  AtMost(Selection!Plus(Selection!Stocks(d, S, risk),
                                   Selection!Routed(d, Selection!Defense(risk, S))), One)
    BY <1>0, <1>1, PlusAtMost
<1>3. AtMost(Selection!Refined(d, S), One) /\ AtMost(Selection!ResidMom(d, S), One)
    BY <1>0, <1>2 DEF Selection!Refined, Selection!ResidMom
<1>4. AtMost(Selection!Canary(d, S), One)
    <2> DEFINE risk == IF d.canary THEN d.risk ELSE 0
    <2>1. risk \in 0 .. 2
        BY <1>0
    <2>2. Selection!Canary(d, S) = Selection!Plus(Selection!Stocks(d, S, risk),
                                                  Selection!Routed(d, Selection!Defense(risk, S)))
        BY DEF Selection!Canary
    <2> HIDE DEF risk
    <2> QED BY <1>2, <2>1, <2>2
<1>5. AtMost(Selection!LowVol(d, S), One)
    <2> DEFINE T == Selection!Sleeve(d)
               w == Selection!Defense(d.risk, S)
               idle == IF T = {} THEN Selection!Empty ELSE Selection!Even(T, w, Selection!Cardinality(T))
    <2>1. T \in SUBSET Selection!Assets
        BY SelectionLimits DEF Selection!Sleeve, Selection!Quietest, Selection!Best, Selection!Scored
    <2>2. Selection!Cardinality(T) \in Nat
        BY <2>1, SelectionLimits
    <2>3. Selection!LowVol(d, S) = Selection!Plus(Selection!Stocks(d, S, d.risk), idle)
        BY DEF Selection!LowVol
    <2>4. w \in Nat
        BY <1>0, <1>1
    <2> HIDE DEF T, w
    <2>5. AtMost(Selection!Even(T, w, Selection!Cardinality(T)), w)
        BY <2>1, <2>2, <2>4, EvenAtMost
    <2>6. AtMost(idle, w)
        BY <2>4, <2>5, EmptyAtMost
    <2> HIDE DEF idle
    <2> QED BY <1>0, <1>1, <2>3, <2>4, <2>6, PlusAtMost DEF w
<1> QED BY <1>3, <1>4, <1>5


-----------------------------------------------------------------------------
(* The books without memory                                                 *)

\* The best TopN of some scored names, and those of them in positive momentum;
\* the best defensive fund; the names that are ranked.
LEMMA PicksAre ==
    ASSUME Selection!SelectionAssumption, family \in Families, NEW d \in NewDays(family),
           NEW S \in SUBSET Selection!Scored(d.score, Menu)
    PROVE  LET picks == Selection!Best(d.score, S, TopN)
               up == Selection!Positive(d.mom, picks)
           IN  /\ picks \in SUBSET Menu /\ picks \in SUBSET Selection!Assets /\ Selection!Cardinality(picks) \in 0 .. TopN
               /\ up \in SUBSET Menu /\ up \in SUBSET Selection!Assets /\ Selection!Cardinality(up) \in 0 .. TopN
<1> DEFINE picks == Selection!Best(d.score, S, TopN)
           up == Selection!Positive(d.mom, picks)
<1>0. Menu \subseteq Selection!Assets /\ TopN \in Nat
    BY SelectionLimits
<1>1. picks \subseteq S /\ Selection!Cardinality(picks) <= TopN
    BY <1>0, RanksAreFew
<1>2. S \subseteq Menu
    BY DEF Selection!Scored
<1>3. up \subseteq picks
    BY DEF Selection!Positive
<1> HIDE DEF up, picks
<1>4. picks \in SUBSET Menu /\ picks \in SUBSET Selection!Assets /\ up \in SUBSET Menu /\ up \in SUBSET Selection!Assets
    BY <1>0, <1>1, <1>2, <1>3
<1>5. Selection!Cardinality(picks) \in 0 .. TopN /\ Selection!Cardinality(up) \in 0 .. TopN
    BY <1>0, <1>1, <1>3, <1>4, PartIsFewer
<1> QED BY <1>4, <1>5 DEF up, picks

LEMMA HavenIs ==
    ASSUME Selection!SelectionAssumption, family \in Families, NEW d \in NewDays(family),
           NEW S \in SUBSET Selection!Scored(d.safe, Safe), NEW T \in SUBSET Selection!Best(d.safe, S, 1), NEW w \in Nat
    PROVE  AtMost(Selection!Even(T, w, 1), w)
<1> DEFINE B == Selection!Best(d.safe, S, 1)
<1>1. B \subseteq S /\ Selection!Cardinality(B) <= 1
    BY RanksAreFew
<1>2. B \in SUBSET Selection!Assets
    BY <1>1, SelectionLimits DEF Selection!Scored
<1> HIDE DEF B
<1>3. T \in SUBSET B
    BY DEF B
<1>4. T \in SUBSET Selection!Assets /\ Selection!Cardinality(T) <= 1
    BY <1>1, <1>2, <1>3, PartIsFewer
<1> QED BY <1>4, EvenAtMost

\* One name.
LEMMA NameAtMost ==
    ASSUME Selection!SelectionAssumption, NEW x, NEW w \in Nat
    PROVE  AtMost(Selection!Even({x}, w, 1), w)
<1>1. CASE x \in Selection!Assets
    <2>1. {x} \in SUBSET Selection!Assets /\ Selection!Cardinality({x}) <= 1
        BY <1>1, SelectionSets, FS_Singleton
    <2> QED BY <2>1, EvenAtMost
<1>2. CASE x \notin Selection!Assets
    <2>1. Selection!Even({x}, w, 1) = Selection!Empty
        BY <1>2 DEF Selection!Even, Selection!Empty
    <2> QED BY <2>1, EmptyAtMost
<1> QED BY <1>1, <1>2

LEMMA EtfAtMost ==
    ASSUME Selection!SelectionAssumption, family \in Families, NEW d \in NewDays(family)
    PROVE  AtMost(Selection!EtfAdaptive(d), One)
<1> DEFINE n == Selection!Scored(d.score, Menu)
           passing == Selection!Positive(d.mom, Selection!Best(d.score, n, TopN))
           c == Selection!Cardinality(passing)
           off == IF d.canary THEN (One * c) \div TopN ELSE 0
           scored == Selection!Scored(d.safe, Safe)
           best == Selection!Best(d.safe, scored, 1) \cap Selection!Positive(d.safe, Safe)
           first == IF passing = {} THEN Selection!Empty ELSE Selection!Even(passing, off, c)
           second == Selection!Even(best, One - off, 1)
<1>0. One \in Nat /\ TopN \in Nat \ {0}
    BY SelectionLimits
<1>1. passing \in SUBSET Selection!Assets /\ c \in 0 .. TopN
    BY PicksAre
<1>2. off \in 0 .. One
    <2> HIDE DEF c
    <2> DEFINE x == One * c
    <2>1. x \in Nat /\ x <= TopN * One
        <3>1. One * c <= One * TopN
            BY <1>0, <1>1, ProductLess
        <3>2. One * TopN = TopN * One /\ One * c \in Nat
            BY <1>0, <1>1
        <3> QED BY <3>1, <3>2
    <2> HIDE DEF x
    <2>2. x \div TopN \in 0 .. One
        BY <1>0, <2>1, QuotientNat
    <2>3. off = IF d.canary THEN x \div TopN ELSE 0
        BY DEF x
    <2> HIDE DEF off
    <2> QED BY <1>0, <2>2, <2>3
<1>3. Selection!EtfAdaptive(d) = Selection!Empty \/ Selection!EtfAdaptive(d) = Selection!Plus(first, second)
    BY DEF Selection!EtfAdaptive
<1>4. best \in SUBSET Selection!Best(d.safe, scored, 1) /\ scored \in SUBSET scored
    OBVIOUS
<1> HIDE DEF off, best, scored, passing, c
<1>5. off \in Nat /\ One - off \in Nat /\ off + (One - off) <= One
    BY <1>0, <1>2
<1>6. AtMost(first, off)
    <2>1. AtMost(Selection!Even(passing, off, c), off)
        <3>1. c \in Nat /\ Selection!Cardinality(passing) <= c
            BY <1>1 DEF c
        <3> QED BY <1>1, <1>5, <3>1, EvenAtMost
    <2> QED BY <1>5, <2>1, EmptyAtMost
<1>7. AtMost(second, One - off)
    <2> DEFINE w == One - off
    <2>1. w \in Nat
        BY <1>5
    <2> HIDE DEF w
    <2>2. AtMost(Selection!Even(best, w, 1), w)
        BY <1>4, <2>1, HavenIs DEF scored
    <2> QED BY <2>2 DEF w
<1> HIDE DEF first, second
<1>8. AtMost(Selection!Plus(first, second), One)
    <2> DEFINE w == One - off
    <2>1. w \in Nat /\ off + w <= One /\ AtMost(second, w)
        BY <1>5, <1>7
    <2> HIDE DEF w
    <2> QED BY <1>0, <1>5, <1>6, <2>1, PlusAtMost
<1> QED BY <1>0, <1>3, <1>8, EmptyAtMost

LEMMA SectorAtMost ==
    ASSUME Selection!SelectionAssumption, family \in Families, NEW d \in NewDays(family)
    PROVE  AtMost(Selection!RegimeSector(d), One)
<1> DEFINE whole == (One * d.risk) \div 2
           most == (whole * 4) \div 5
           core == IF d.canary THEN most ELSE 0
           sat == whole - most
           picks == Selection!Positive(d.mom, Selection!Best(d.score, Selection!Scored(d.score, Menu), TopN))
           c == Selection!Cardinality(picks)
           part == (sat * c) \div TopN
           filled == core + part
           gone == IF d.risk = 0 THEN 0 ELSE filled
           rest == ((One - gone) * 3) \div 5
           spread == IF d.risk = 0 THEN Selection!Empty
                     ELSE Selection!Plus(Selection!Even({Core}, core, 1), Selection!Even(picks, sat, TopN))
<1>0. One \in Nat /\ TopN \in Nat \ {0} /\ d.risk \in 0 .. 2 /\ d.canary \in BOOLEAN
    BY SelectionLimits, DayIs
<1>1. picks \in SUBSET Selection!Assets /\ c \in 0 .. TopN
    BY PicksAre
<1>2. Selection!RegimeSector(d) = Selection!Plus(spread, Selection!Routed(d, rest))
    BY DEF Selection!RegimeSector
<1>3. whole \in Nat /\ whole <= One
    <2> DEFINE r == d.risk
    <2> HIDE DEF r
    <2>1. r = 0 \/ r = 1 \/ r = 2
        BY <1>0 DEF r
    <2>2. One * 0 = 0 /\ One * 1 = One /\ One * 2 = 2 * One
        BY <1>0
    <2>3. (One * r) \div 2 \in Nat /\ (One * r) \div 2 <= One
        BY <1>0, <2>1, <2>2
    <2> QED BY <2>3 DEF r
<1> HIDE DEF whole
<1>4. most \in Nat /\ most <= whole
    BY <1>3
<1> HIDE DEF most
<1>5. core \in Nat /\ sat \in Nat /\ core + sat <= One
    <2>1. core = 0 \/ core = most
        OBVIOUS
    <2> HIDE DEF core
    <2> QED BY <1>0, <1>3, <1>4, <2>1
<1> HIDE DEF core, sat
<1>6. AtMost(Selection!Even(picks, sat, TopN), part) /\ part \in 0 .. sat
    <2>1. c <= TopN /\ TopN \in Nat /\ TopN # 0
        BY <1>0, <1>1
    <2> HIDE DEF picks
    <2> QED BY <1>1, <1>5, <2>1, EvenAtMost
<1> HIDE DEF part, picks, c
<1>7. filled \in Nat /\ filled <= One
    BY <1>0, <1>5, <1>6
<1>8. AtMost(Selection!Even({Core}, core, 1), core)
    BY <1>5, NameAtMost
<1>9. AtMost(spread, gone) /\ gone \in Nat /\ gone <= One
    <2>1. part \in Nat /\ core + part <= filled
        BY <1>5, <1>6, <1>7
    <2> HIDE DEF filled
    <2>2. AtMost(Selection!Plus(Selection!Even({Core}, core, 1), Selection!Even(picks, sat, TopN)), filled)
        BY <1>5, <1>6, <1>7, <1>8, <2>1, PlusAtMost
    <2> QED BY <1>0, <1>7, <2>2, EmptyAtMost
<1> HIDE DEF gone, spread, filled
<1>10. rest \in Nat /\ gone + rest <= One
    BY <1>0, <1>9
<1> HIDE DEF rest
<1>11. AtMost(Selection!Routed(d, rest), rest)
    BY <1>10, RoutedAtMost
<1> QED BY <1>0, <1>2, <1>9, <1>10, <1>11, PlusAtMost

LEMMA HybridAtMost ==
    ASSUME Selection!SelectionAssumption, family \in Families, NEW d \in NewDays(family)
    PROVE  AtMost(Selection!Hybrid(d), One)
<1> DEFINE S == {a \in Selection!Scored(d.score, Menu) : Selection!Ok(d, a)}
           roster == Selection!Best(d.score, S, TopN)
           c == Selection!Cardinality(roster)
           n == 2 * TopN
           placed == IF d.risk = 0 THEN 0 ELSE (One * c) \div n
           half == One \div 2
           up == Selection!Positive(d.safe, Safe)
           m2 == Selection!Cardinality(Safe)
           first == IF d.risk = 0 THEN Selection!Empty ELSE Selection!Even(roster, half, TopN)
           second == Selection!Even(up, One - placed, m2)
<1>0. One \in Nat /\ TopN \in Nat \ {0} /\ n \in Nat \ {0}
    BY SelectionLimits
<1>1. roster \in SUBSET Selection!Assets /\ c \in 0 .. TopN
    BY PicksAre
<1>2. Selection!Hybrid(d) = Selection!Plus(first, second)
    BY DEF Selection!Hybrid
<1>3. up \in SUBSET Selection!Assets /\ m2 \in Nat /\ Selection!Cardinality(up) <= m2
    <2>1. Safe \in SUBSET Selection!Assets
        BY SelectionLimits
    <2>2. up \in SUBSET Safe
        BY DEF Selection!Positive
    <2>3. m2 \in Nat
        BY <2>1, SelectionLimits
    <2>4. Selection!Cardinality(up) \in 0 .. m2
        BY <2>1, <2>2, <2>3, PartIsFewer
    <2> QED BY <2>1, <2>2, <2>3, <2>4
<1> HIDE DEF up, m2, roster
<1>4. /\ (One * c) \div n \in 0 .. One
      /\ AtMost(Selection!Even(roster, half, TopN), (One * c) \div n)
    <2>1. half \in Nat /\ 2 * half <= One
        BY <1>0
    <2> HIDE DEF half
    <2>2. c <= TopN /\ TopN \in Nat /\ TopN # 0
        BY <1>0, <1>1
    <2>3. AtMost(Selection!Even(roster, half, TopN), (half * c) \div TopN)
        BY <1>1, <2>1, <2>2, EvenAtMost
    <2> HIDE DEF c
    <2> DEFINE x == half * c
               y == One * c
               q == x \div TopN
    <2>4. x \in Nat /\ y \in Nat /\ 2 * x <= y /\ y <= n * One
        <3>1. (2 * half) * c <= One * c
            BY <1>0, <1>1, <2>1, ProductLess
        <3>2. (2 * half) * c = 2 * (half * c) /\ half * c \in Nat /\ One * c \in Nat
            BY <1>0, <1>1, <2>1
        <3>3. One * c <= One * n
            <4>1. c <= n /\ c \in Nat
                BY <1>0, <1>1
            <4> QED BY <1>0, <4>1, ProductLess
        <3>4. One * n = n * One
            BY <1>0
        <3> QED BY <3>1, <3>2, <3>3, <3>4
    <2> HIDE DEF x, y
    <2>5. q \in Nat /\ TopN * q <= x
        BY <1>0, <2>4, QuotientOfNat
    <2> HIDE DEF q
    <2>6. n * q <= y
        <3>1. n * q = 2 * (TopN * q) /\ TopN * q \in Nat
            BY <1>0, <2>5
        <3> QED BY <2>4, <2>5, <3>1
    <2> HIDE DEF n
    <2>7. q <= y \div n /\ y \div n \in 0 .. One
        BY <1>0, <2>4, <2>5, <2>6, QuotientGreatest, QuotientNat
    <2>8. AtMost(Selection!Even(roster, half, TopN), q)
        BY <2>3 DEF q, x
    <2>9. y \div n \in Nat
        BY <1>0, <2>7
    <2>10. AtMost(Selection!Even(roster, half, TopN), y \div n)
        <3> DEFINE z == y \div n
        <3>1. z \in Nat /\ q <= z
            BY <2>7, <2>9
        <3> HIDE DEF z
        <3>2. AtMost(Selection!Even(roster, half, TopN), z)
            BY <2>5, <2>8, <3>1, AtMostMore
        <3> QED BY <3>2 DEF z
    <2> QED BY <2>7, <2>10 DEF y
<1>5. placed \in 0 .. One /\ AtMost(first, placed)
    BY <1>0, <1>4, EmptyAtMost
<1> HIDE DEF placed, first
<1> DEFINE w == One - placed
<1>6. w \in Nat /\ placed \in Nat /\ placed + w <= One
    BY <1>0, <1>5
<1> HIDE DEF w
<1>7. AtMost(second, w)
    <2>1. AtMost(Selection!Even(up, w, m2), w)
        BY <1>3, <1>6, EvenAtMost
    <2> QED BY <2>1 DEF w
<1> HIDE DEF second
<1> QED BY <1>0, <1>2, <1>5, <1>6, <1>7, PlusAtMost


LEMMA AllWeatherAtMost ==
    ASSUME Selection!SelectionAssumption, family \in Families, NEW d \in NewDays(family)
    PROVE  AtMost(Selection!AllWeather(d), One)
<1> DEFINE base == Selection!InvVol(Menu, One, d.iv)
           half == One \div 2
           on(a) == IF d.score[a] = Selection!NaN THEN 0 ELSE IF Selection!Ok(d, a) THEN 2 ELSE 1
           legs == [a \in Selection!Assets |-> IF a \in Menu THEN (Selection!Lesser(base[a], half) * on(a)) \div 2 ELSE 0]
           up == Selection!Positive(d.safe, Safe)
           park == Selection!Best(d.safe, up, 1)
           t == Selection!Total(legs, Selection!Assets)
           second == Selection!Even(park, One - t, 1)
<1>0. One \in Nat /\ half \in Nat /\ IsFiniteSet(Selection!Assets)
    BY SelectionLimits
<1>1. AtMost(base, One)
    <2>1. Menu \in SUBSET Menu /\ \A a \in Menu : d.iv[a] \in Nat \ {0}
        BY DayIs
    <2> QED BY <1>0, <2>1, InvVolAtMost
<1>2. Selection!AllWeather(d) = Selection!Plus(legs, second)
    BY DEF Selection!AllWeather
<1>3. up \in SUBSET Selection!Scored(d.safe, Safe)
    <2>1. \A a \in Safe : d.safe[a] > 0 => d.safe[a] # Selection!NaN
        BY DayIs DEF Selection!NaN
    <2> QED BY <2>1 DEF Selection!Positive, Selection!Scored
<1>4. ASSUME NEW a \in Selection!Assets
      PROVE  legs[a] \in Nat /\ base[a] \in Nat /\ legs[a] <= base[a]
    <2>1. base[a] \in Nat
        BY <1>1 DEF AtMost
    <2> DEFINE b == base[a]
               o == on(a)
    <2>2. o = 0 \/ o = 1 \/ o = 2
        OBVIOUS
    <2>3. legs[a] = 0 \/ legs[a] = (Selection!Lesser(b, half) * o) \div 2
        OBVIOUS
    <2>4. b \in Nat
        BY <2>1
    <2> HIDE DEF legs, o, b, half
    <2> DEFINE l == Selection!Lesser(b, half)
    <2>5. l \in Nat /\ l <= b
        BY <1>0, <2>4 DEF Selection!Lesser
    <2> HIDE DEF l
    <2>6. l * 0 = 0 /\ l * 1 = l /\ l * 2 = 2 * l
        BY <2>5
    <2>7. (l * o) \div 2 \in Nat /\ (l * o) \div 2 <= b
        BY <2>2, <2>4, <2>5, <2>6
    <2> QED BY <2>3, <2>4, <2>7 DEF b, l
<1>5. legs = [a \in Selection!Assets |-> legs[a]]
    OBVIOUS
<1>6. park \in SUBSET Selection!Best(d.safe, up, 1)
    OBVIOUS
<1> HIDE DEF legs, park, base, up
<1>7. legs \in [Selection!Assets -> Nat]
    BY <1>4, <1>5
<1>8. t \in Nat /\ t <= One
    <2>1. SumFunctionOnSet(legs, Selection!Assets) \in Nat /\ SumFunctionOnSet(base, Selection!Assets) \in Nat
        BY <1>0, <1>4, SumNat
    <2>2. \A a \in Selection!Assets : legs[a] \in Int /\ base[a] \in Int /\ legs[a] <= base[a]
        BY <1>4
    <2>3. SumFunctionOnSet(legs, Selection!Assets) <= SumFunctionOnSet(base, Selection!Assets)
        BY <1>0, <2>2, SumLess
    <2>4. SumFunctionOnSet(base, Selection!Assets) <= One
        BY <1>1, SelectionSums DEF AtMost
    <2> QED BY <1>0, <2>1, <2>3, <2>4, SelectionSums
<1>9. AtMost(legs, t)
    BY <1>7, <1>8 DEF AtMost
<1> HIDE DEF t
<1> DEFINE w == One - t
<1>10. w \in Nat /\ t + w <= One
    BY <1>0, <1>8
<1> HIDE DEF w
<1>11. AtMost(second, w)
    <2>1. AtMost(Selection!Even(park, w, 1), w)
        BY <1>3, <1>6, <1>10, HavenIs
    <2> QED BY <2>1 DEF w
<1> HIDE DEF second
<1> QED BY <1>0, <1>2, <1>8, <1>9, <1>10, <1>11, PlusAtMost

\* Equal slots of the book, and the slots that are forfeited.
LEMMA SlotsAtMost ==
    ASSUME Selection!SelectionAssumption, NEW S \in SUBSET Selection!Assets, Selection!Cardinality(S) \in 0 .. TopN,
           NEW g, LET z == (One * (TopN - Selection!Cardinality(S))) \div TopN IN z \in Nat => AtMost(g, z)
    PROVE  AtMost(Selection!Plus(Selection!Even(S, One, TopN), g), One)
<1> DEFINE c == Selection!Cardinality(S)
           x == One * c
           y == One * (TopN - c)
           p == x \div TopN
           z == y \div TopN
<1>0. One \in Nat /\ TopN \in Nat \ {0} /\ c \in 0 .. TopN
    BY SelectionLimits
<1>1. AtMost(Selection!Even(S, One, TopN), p)
    <2>1. c <= TopN /\ TopN \in Nat /\ TopN # 0
        BY <1>0
    <2> QED BY <1>0, <2>1, EvenAtMost
<1> HIDE DEF c
<1>2. x \in Nat /\ y \in Nat /\ x + y <= TopN * One
    <2>1. TopN - c \in Nat /\ c \in Nat
        BY <1>0
    <2>2. One * c + One * (TopN - c) = TopN * One
        BY <1>0, <2>1
    <2> QED BY <1>0, <2>1, <2>2
<1> HIDE DEF x, y
<1>3. p \in Nat /\ z \in Nat /\ p + z <= One
    BY <1>0, <1>2, SharesAdd
<1>4. AtMost(g, z)
    BY <1>3 DEF y, c
<1> HIDE DEF p, z
<1> QED BY <1>0, <1>1, <1>3, <1>4, PlusAtMost

LEMMA HaaAtMost ==
    ASSUME Selection!SelectionAssumption, family \in Families, NEW d \in NewDays(family)
    PROVE  AtMost(Selection!TaaHaa(d), One)
<1> DEFINE scored == Selection!Scored(d.safe, Safe)
           proxy == Selection!Best(d.safe, scored, 1)
           picks == Selection!Best(d.score, Selection!Scored(d.score, Menu), TopN)
           slots == Selection!Positive(d.mom, picks)
           z == (One * (TopN - Selection!Cardinality(slots))) \div TopN
           g == Selection!Even(proxy, z, 1)
<1>0. One \in Nat
    BY SelectionLimits
<1>1. scored \in SUBSET scored /\ proxy \in SUBSET proxy
    OBVIOUS
<1>2. \A w \in Nat : AtMost(Selection!Even(proxy, w, 1), w)
    BY <1>1, HavenIs
<1>3. slots \in SUBSET Selection!Assets /\ Selection!Cardinality(slots) \in 0 .. TopN
    BY PicksAre
<1>4. \/ Selection!TaaHaa(d) = Selection!Empty
      \/ Selection!TaaHaa(d) = Selection!Even(proxy, One, 1)
      \/ Selection!TaaHaa(d) = Selection!Plus(Selection!Even(slots, One, TopN), g)
    BY DEF Selection!TaaHaa
<1> HIDE DEF proxy, slots
<1>5. z \in Nat => AtMost(g, z)
    BY <1>2
<1>6. AtMost(Selection!Plus(Selection!Even(slots, One, TopN), g), One)
    <2> HIDE DEF g
    <2> QED BY <1>3, <1>5, SlotsAtMost
<1> QED BY <1>0, <1>2, <1>4, <1>6, EmptyAtMost

LEMMA CalendarAtMost ==
    ASSUME Selection!SelectionAssumption, family \in Families, NEW d \in NewDays(family)
    PROVE  AtMost(Selection!Calendar(d), One)
<1> DEFINE S == {a \in Selection!Scored(d.score, Menu) : Selection!Ok(d, a)}
           picks == Selection!Best(d.score, S, TopN)
<1>0. One \in Nat
    BY SelectionLimits
<1>1. picks \in SUBSET Menu
    BY PicksAre
<1>2. \/ Selection!Calendar(d) = Selection!Routed(d, One)
      \/ Selection!Calendar(d) = Selection!InvVol(picks, One, d.iv)
      \/ Selection!Calendar(d) = Selection!Even({Core}, One, 1)
    BY DEF Selection!Calendar
<1> HIDE DEF picks
<1>3. AtMost(Selection!InvVol(picks, One, d.iv), One)
    <2>1. \A a \in Menu : d.iv[a] \in Nat \ {0}
        BY DayIs
    <2> QED BY <1>0, <1>1, <2>1, InvVolAtMost
<1> QED BY <1>0, <1>2, <1>3, RoutedAtMost, NameAtMost

LEMMA BaselineAtMost ==
    ASSUME Selection!SelectionAssumption, family \in Families, NEW d \in NewDays(family)
    PROVE  AtMost(Selection!Baseline(d), One)
<1> DEFINE best == Selection!Best(d.score, Selection!Scored(d.score, Menu), TopN)
           picks == Selection!Positive(d.mom, best)
           z == (One * (TopN - Selection!Cardinality(picks))) \div TopN
           g == Selection!Even({Haven}, z, 1)
<1>0. One \in Nat /\ TopN \in Nat
    BY SelectionLimits
<1>1. picks \in SUBSET Selection!Assets /\ Selection!Cardinality(picks) \in 0 .. TopN
    BY PicksAre
<1>2. \/ Selection!Baseline(d) = Selection!Plus(Selection!Even(picks, One, TopN), g)
      \/ Selection!Baseline(d) = Selection!Even({Core}, One, 1)
      \/ Selection!Baseline(d) = Selection!Even(picks, One, TopN)
    BY DEF Selection!Baseline
<1> HIDE DEF picks
<1>3. z \in Nat => AtMost(g, z)
    BY NameAtMost
<1>4. AtMost(Selection!Plus(Selection!Even(picks, One, TopN), g), One)
    <2> HIDE DEF g
    <2> QED BY <1>1, <1>3, SlotsAtMost
<1>5. AtMost(Selection!Even(picks, One, TopN), One)
    <2>1. Selection!Cardinality(picks) <= TopN
        BY <1>0, <1>1
    <2> QED BY <1>0, <1>1, <2>1, EvenAtMost
<1> QED BY <1>0, <1>2, <1>4, <1>5, NameAtMost

-----------------------------------------------------------------------------
\* A rank keeps no more names than there are slots: the incumbents in the band,
\* and as many others as are vacant.
LEMMA SelectFew ==
    ASSUME Selection!SelectionAssumption, family \in Families, NEW d \in NewDays(family), NEW own \in SUBSET Menu
    PROVE  /\ Selection!Select(d, own) \in SUBSET Menu
           /\ Selection!Cardinality(own) <= TopN => Selection!Cardinality(Selection!Select(d, own)) <= TopN
<1> DEFINE k == Selection!Kept(d, own)
           free == {a \in Selection!Scored(d.score, Menu) : Selection!Ok(d, a)} \ k
           n == TopN - Selection!Cardinality(k)
           B == Selection!Best(d.score, free, n)
<1>0. Menu \subseteq Selection!Assets /\ TopN \in Nat
    BY SelectionLimits
<1>1. k \subseteq own /\ k \subseteq Menu
    BY DEF Selection!Kept
<1>2. free \in SUBSET Selection!Scored(d.score, Menu) /\ free \subseteq Menu
    BY DEF Selection!Scored
<1>3. Selection!Select(d, own) = k \cup B
    BY DEF Selection!Select
<1>4. B \subseteq free
    BY DEF Selection!Best
<1> HIDE DEF k, free
<1>5. ASSUME Selection!Cardinality(own) <= TopN
      PROVE  Selection!Cardinality(k \cup B) <= TopN
    <2>1. Selection!Cardinality(k) \in 0 .. TopN
        <3>1. own \in SUBSET Selection!Assets /\ k \in SUBSET own
            BY <1>0, <1>1
        <3> QED BY <1>0, <1>5, <3>1, PartIsFewer
    <2>2. n \in Nat
        BY <1>0, <2>1
    <2> HIDE DEF n
    <2>3. Selection!Cardinality(B) <= n
        BY <1>2, <2>2, RanksAreFew
    <2> HIDE DEF B
    <2>4. k \in SUBSET Selection!Assets /\ B \in SUBSET Selection!Assets
        BY <1>0, <1>1, <1>2, <1>4
    <2>5. IsFiniteSet(k) /\ IsFiniteSet(B) /\ IsFiniteSet(k \cap B)
        BY <2>4, SelectionLimits, FS_Subset
    <2>6. Cardinality(k \cup B) = Cardinality(k) + Cardinality(B) - Cardinality(k \cap B)
          /\ Cardinality(k) \in Nat /\ Cardinality(B) \in Nat /\ Cardinality(k \cap B) \in Nat
        BY <2>5, FS_Union, FS_CardinalityType
    <2>7. Cardinality(k \cup B) <= Cardinality(k) + Cardinality(B)
        BY <2>6
    <2>8. Cardinality(B) <= n /\ n = TopN - Cardinality(k)
        BY <2>3, SelectionSets DEF n
    <2> QED BY <1>0, <2>6, <2>7, <2>8, SelectionSets
<1> QED BY <1>0, <1>1, <1>2, <1>3, <1>4, <1>5

\* Of what passes the momentum test and has a score, a name that was not held
\* is only bought if everything that is left out ranks below it.
LEMMA VacanciesToTheBest ==
    ASSUME Selection!SelectionAssumption, family \in Families, NEW d \in NewDays(family), NEW own \in SUBSET Menu,
           NEW a \in Selection!Select(d, own) \ own, NEW b \in Menu \ Selection!Select(d, own),
           d.score[b] # Selection!NaN, Selection!Ok(d, b)
    PROVE  d.score[b] < d.score[a]
<1> DEFINE k == Selection!Kept(d, own)
           free == {x \in Selection!Scored(d.score, Menu) : Selection!Ok(d, x)} \ k
           n == TopN - Selection!Cardinality(k)
           up(x) == {y \in free : d.score[y] > d.score[x]}
<1>0. Menu \subseteq Selection!Assets
    BY SelectionLimits
<1>1. Selection!Select(d, own) = k \cup Selection!Best(d.score, free, n)
    BY DEF Selection!Select
<1>2. a \notin k
    BY DEF Selection!Kept
<1>3. b \notin k /\ b \in free
    BY <1>1 DEF Selection!Scored
<1>4. a \in free /\ a \in Menu
    BY <1>1, <1>2 DEF Selection!Best, Selection!Scored
<1>5. Selection!Above(d.score, a, free) < n
    BY <1>1, <1>2 DEF Selection!Best
<1>6. ~(Selection!Above(d.score, b, free) < n)
    BY <1>1, <1>3 DEF Selection!Best
<1>7. Selection!Above(d.score, a, free) = Cardinality(up(a)) /\ Selection!Above(d.score, b, free) = Cardinality(up(b))
    BY SelectionSets DEF Selection!Above
<1>8. n \in Int
    <2>1. k \in SUBSET Selection!Assets
        BY <1>0 DEF Selection!Kept
    <2> HIDE DEF k
    <2> QED BY <2>1, SelectionLimits
<1>9. free \in SUBSET Selection!Assets
    BY <1>0 DEF Selection!Scored
<1>10. a \in Selection!Scored(d.score, Menu) /\ b \in Selection!Scored(d.score, Menu)
    BY <1>3, <1>4
<1> HIDE DEF free, k, n
<1>11. IsFiniteSet(up(a)) /\ IsFiniteSet(up(b)) /\ Cardinality(up(a)) \in Nat /\ Cardinality(up(b)) \in Nat
    <2>1. up(a) \in SUBSET Selection!Assets /\ up(b) \in SUBSET Selection!Assets
        BY <1>9
    <2> HIDE DEF up
    <2> QED BY <2>1, SelectionLimits, FS_CardinalityType
<1>12. \A x \in Menu : d.score[x] \in Int
    BY DayIs
<1>13. SUFFICES ASSUME ~(d.score[b] < d.score[a]) PROVE FALSE
    OBVIOUS
<1>14. d.score[b] >= d.score[a] /\ \A y \in free : d.score[y] \in Int
    BY <1>4, <1>12, <1>13, <1>9, DayIs DEF free, Selection!Scored
<1>15. up(b) \subseteq up(a)
    BY <1>3, <1>4, <1>12, <1>14
<1> HIDE DEF up
<1>16. Cardinality(up(b)) <= Cardinality(up(a))
    BY <1>11, <1>15, FS_Subset
<1> QED BY <1>5, <1>6, <1>7, <1>8, <1>11, <1>16


LEMMA RowsAtMost ==
    ASSUME Selection!SelectionAssumption, family \in Families, NEW d \in NewDays(family), NEW S \in SUBSET Menu,
           Selection!Cardinality(S) <= TopN
    PROVE  AtMost(Selection!Row(d, S), One)
<1> DEFINE r == Selection!Row(d, S)
<1>1. r \in {Selection!Refined(d, S), Selection!ResidMom(d, S), Selection!LowVol(d, S), Selection!Canary(d, S),
             Selection!EtfAdaptive(d), Selection!RegimeSector(d), Selection!Hybrid(d), Selection!AllWeather(d),
             Selection!TaaHaa(d), Selection!Calendar(d), Selection!Baseline(d)}
    BY DEF Selection!Row
<1> HIDE DEF r
<1>2. AtMost(r, One)
    BY <1>1, RankedAtMost, EtfAtMost, SectorAtMost, HybridAtMost, AllWeatherAtMost, HaaAtMost, CalendarAtMost,
       BaselineAtMost
<1> QED BY <1>2 DEF r

\* Where every name has a volatility, a rebuilt book holds every name it picks.
LEMMA SharesAreSeen ==
    ASSUME Selection!SelectionAssumption, family \in Families, NEW d \in NewDays(family), NEW S \in SUBSET Menu
    PROVE  \A a \in Menu : Selection!Stocks(d, S, 2)[a] > 0 <=> a \in S
<1> SUFFICES ASSUME NEW a \in Menu PROVE Selection!Stocks(d, S, 2)[a] > 0 <=> a \in S
    OBVIOUS
<1>0. a \in Selection!Assets /\ TopN \in Nat \ {0} /\ One \in Nat /\ IsFiniteSet(S) /\ S \in SUBSET Selection!Assets
    BY SelectionLimits
<1>1. CASE a \notin S
    <2>1. Selection!Stocks(d, S, 2)[a] = 0
        BY <1>0, <1>1 DEF Selection!Stocks, Selection!Empty, Selection!InvVol
    <2> QED BY <1>1, <2>1
<1>2. CASE a \in S
    <2> DEFINE w == Selection!Offense(2, S)
               t == SumFunctionOnSet(d.iv, S)
               c == Cardinality(S)
               m2 == One \div TopN
               v == d.iv[a]
    <2>1. Selection!Stocks(d, S, 2)[a] = (w * v) \div t
        BY <1>0, <1>2, SelectionSums DEF Selection!Stocks, Selection!InvVol
    <2>2. m2 \in Nat /\ c \in Nat /\ c \in Nat \ {0}
        BY <1>0, <1>2, QuotientOfNat, FS_CardinalityType, FS_EmptySet
    <2>3. \A x \in S : d.iv[x] \in 1 .. m2 /\ d.iv[x] \in 0 .. m2
        BY DayIs, <2>2
    <2>4. t \in Nat /\ t <= m2 * c
        BY <1>0, <2>2, <2>3, SumBounded
    <2>5. v \in Nat \ {0}
        BY <1>2, <2>2, <2>3
    <2>6. t \in Nat \ {0}
        <3>1. t = d.iv[a] + SumFunctionOnSet(d.iv, S \ {a})
            <4>1. \A x \in S : d.iv[x] \in Int
                BY <2>2, <2>3
            <4> QED BY <1>0, <1>2, <4>1, SumRemove
        <3>2. SumFunctionOnSet(d.iv, S \ {a}) \in Nat
            <4>1. IsFiniteSet(S \ {a}) /\ \A x \in S \ {a} : d.iv[x] \in Nat
                BY <1>0, <2>2, <2>3, FS_Subset
            <4> QED BY <4>1, SumNat
        <3> HIDE DEF t
        <3> QED BY <2>5, <3>1, <3>2
    <2>7. w = (One * 2 * c) \div (2 * TopN)
        BY SelectionSets DEF Selection!Offense
    <2> HIDE DEF t, c, m2, v
    <2>8. w \in Nat /\ m2 * c <= w
        <3> DEFINE x == One * 2 * c
                   n == 2 * TopN
        <3>1. n \in Nat \ {0} /\ x \in Nat
            BY <1>0, <2>2
        <3>2. TopN * m2 <= One
            BY <1>0, QuotientOfNat DEF m2
        <3>3. (TopN * m2) * c <= One * c
            BY <1>0, <2>2, <3>2, ProductLess
        <3>4. n * (m2 * c) <= x
            <4>1. n * (m2 * c) = 2 * ((TopN * m2) * c) /\ x = 2 * (One * c)
                  /\ (TopN * m2) * c \in Nat /\ One * c \in Nat
                BY <1>0, <2>2
            <4> QED BY <3>3, <4>1
        <3>5. m2 * c \in Int
            BY <2>2
        <3> HIDE DEF x, n
        <3> DEFINE z == m2 * c
        <3>6. z \in Int /\ n * z <= x
            BY <3>4, <3>5
        <3> HIDE DEF z
        <3>7. z <= x \div n /\ x \div n \in Nat
            BY <3>1, <3>6, QuotientGreatest, QuotientOfNat
        <3> QED BY <2>7, <3>7 DEF x, n, z
    <2> HIDE DEF w
    <2>9. t <= w * v /\ w * v \in Nat
        <3>1. w * 1 <= w * v
            BY <2>5, <2>8, ProductLess
        <3>2. w * 1 = w /\ w * v \in Nat
            BY <2>5, <2>8
        <3>3. m2 * c \in Nat
            BY <2>2
        <3> QED BY <2>4, <2>8, <3>1, <3>2, <3>3
    <2> DEFINE x == w * v
    <2>10. x \in Int /\ t * 1 <= x
        BY <2>6, <2>9
    <2> HIDE DEF x
    <2>11. 1 <= x \div t /\ x \div t \in Int
        BY <2>6, <2>10, QuotientGreatest, Quotient
    <2> QED BY <1>2, <2>1, <2>11 DEF x
<1> QED BY <1>1, <1>2

LEMMA SelectionInitial ==
    ASSUME Selection!SelectionAssumption, Selection!Init
    PROVE  Selection!TypeOK /\ Selection!SelectionInv
<1>0. AtMost(Selection!Empty, One)
    BY SelectionLimits, EmptyAtMost
<1>1. /\ Selection!Empty \in [Selection!Assets -> Int]
      /\ \A a \in Selection!Assets : Selection!Empty[a] = 0
    BY DEF Selection!Empty
<1>2. seen \in NewDays(family)
    <2>1. NewDays(family) # {} /\ seen = CHOOSE d \in NewDays(family) : TRUE
        BY DEF Selection!Init, Selection!SelectionAssumption
    <2> QED BY <2>1
<1>3. Selection!TypeOK
    BY <1>1, <1>2 DEF Selection!Init, Selection!TypeOK
<1>4. Selection!RowsNeverLevered
    BY <1>0, <1>1 DEF Selection!Init, Selection!RowsNeverLevered, AtMost
<1>5. Selection!VacatedGoToTheBest
    BY DEF Selection!Init, Selection!VacatedGoToTheBest
<1>6. Selection!Cardinality(held) <= TopN
    <2>1. Selection!Cardinality({}) = 0
        BY SelectionSets, FS_EmptySet
    <2> QED BY <2>1, SelectionLimits DEF Selection!Init
<1> QED
    BY <1>3, <1>4, <1>5, <1>6 DEF Selection!SelectionInv, Selection!SelectionSound

LEMMA RerankStep ==
    ASSUME Selection!SelectionAssumption, Selection!TypeOK, Selection!SelectionInv,
           NEW d \in NewDays(family), Selection!Rerank(d)
    PROVE  Selection!TypeOK' /\ Selection!SelectionInv'
<1>0. /\ family \in Families /\ family' = family /\ held \in SUBSET Menu /\ date \in Nat
      /\ Selection!Cardinality(held) <= TopN /\ seen' = d /\ date' = date + 1 /\ seeds' = {} /\ target' = Selection!Empty
    BY DEF Selection!TypeOK, Selection!SelectionInv, Selection!Rerank
<1>1. Selection!Cardinality({}) = 0 /\ TopN \in Nat /\ One \in Nat
    BY SelectionSets, FS_EmptySet, SelectionLimits
<1>2. held' \in SUBSET Menu /\ Selection!Cardinality(held') <= TopN
    <2>1. held' = Selection!Select(d, held) \/ held' = {}
        BY DEF Selection!Rerank
    <2> QED BY <1>0, <1>1, <2>1, SelectFew
<1>3. AtMost(row', One)
    <2>1. row' = Selection!Empty \/ row' = Selection!Row(d, held')
        BY DEF Selection!Rerank
    <2>2. AtMost(Selection!Row(d, held'), One)
        BY <1>0, <1>2, RowsAtMost
    <2> QED BY <1>1, <2>1, <2>2, EmptyAtMost
<1>4. live' \in SUBSET Menu
    BY <1>2 DEF Selection!Rerank
<1>5. Selection!Empty \in [Selection!Assets -> Int] /\ \A a \in Selection!Assets : Selection!Empty[a] = 0
    BY DEF Selection!Empty
<1>6. row' \in [Selection!Assets -> Int] /\ Selection!RowsNeverLevered'
    BY <1>3 DEF AtMost, Selection!RowsNeverLevered
<1>7. Selection!TypeOK'
    BY <1>0, <1>2, <1>4, <1>5, <1>6 DEF Selection!TypeOK
<1>8. Selection!VacatedGoToTheBest'
    <2>1. \A a \in Menu : ~(target'[a] > 0)
        BY <1>0, <1>5, SelectionLimits
    <2>2. {a \in Menu : target'[a] > 0} = {}
        BY <2>1
    <2> QED BY <2>2 DEF Selection!VacatedGoToTheBest
<1> QED
    BY <1>2, <1>6, <1>7, <1>8 DEF Selection!SelectionInv, Selection!SelectionSound

LEMMA ReconstructStep ==
    ASSUME Selection!SelectionAssumption, Selection!TypeOK, Selection!SelectionInv,
           NEW d \in NewDays(family), Selection!Reconstruct(d)
    PROVE  Selection!TypeOK' /\ Selection!SelectionInv'
<1> DEFINE S == Selection!Select(d, live)
           now == {a \in Menu : target'[a] > 0}
<1>0. /\ family \in Families /\ family' = family /\ live \in SUBSET Menu /\ date \in Nat
      /\ seen' = d /\ date' = date + 1 /\ seeds' = live /\ held' = held /\ row' = row
      /\ live' = now
    BY DEF Selection!TypeOK, Selection!Reconstruct, Selection!Seeds
<1>1. target' = Selection!Stocks(d, S, 2) \/ target' = Selection!Empty
    BY DEF Selection!Reconstruct, Selection!Seeds
<1>2. S \in SUBSET Menu
    BY <1>0, SelectFew
<1>3. Selection!Empty \in [Selection!Assets -> Int] /\ \A a \in Selection!Assets : Selection!Empty[a] = 0
    BY DEF Selection!Empty
<1>4. Selection!Stocks(d, S, 2) \in [Selection!Assets -> Int]
    <2> DEFINE w == Selection!Offense(2, S)
               c == Selection!Cardinality(S)
               x == One * 2 * c
               n == 2 * TopN
    <2>1. w \in Nat
        <3>1. c \in Nat /\ One \in Nat /\ n \in Nat \ {0}
            BY <1>2, SelectionLimits
        <3>2. w = x \div n
            BY DEF Selection!Offense
        <3> HIDE DEF c
        <3>3. x \in Nat
            BY <3>1
        <3> HIDE DEF w, x, n
        <3> QED BY <3>1, <3>2, <3>3, QuotientOfNat
    <2>2. \A a \in Menu : d.iv[a] \in Nat \ {0}
        BY <1>0, DayIs
    <2> HIDE DEF S
    <2>3. Selection!InvVol(S, w, d.iv) \in [Selection!Assets -> Int]
        BY <1>2, <2>1, <2>2, InvVolAtMost DEF AtMost
    <2>4. Selection!Stocks(d, S, 2) = Selection!Empty \/ Selection!Stocks(d, S, 2) = Selection!InvVol(S, w, d.iv)
        BY DEF Selection!Stocks
    <2> QED BY <1>3, <2>3, <2>4
<1>5. now \subseteq Menu
    OBVIOUS
<1>6. Selection!TypeOK'
    BY <1>0, <1>1, <1>3, <1>4, <1>5 DEF Selection!TypeOK
<1>7. Selection!VacatedGoToTheBest'
    <2> SUFFICES ASSUME NEW a \in now \ live, NEW b \in Menu \ now,
                        d.score[b] # Selection!NaN, Selection!Ok(d, b)
                 PROVE  d.score[b] < d.score[a]
        BY <1>0 DEF Selection!VacatedGoToTheBest, Selection!Ok
    <2>1. now = S
        <3>1. CASE target' = Selection!Empty
            <4>1. a \in Selection!Assets /\ target'[a] > 0
                BY SelectionLimits
            <4> QED BY <1>3, <3>1, <4>1
        <3>2. CASE target' = Selection!Stocks(d, S, 2)
            <4> HIDE DEF S
            <4>1. \A x \in Menu : target'[x] > 0 <=> x \in S
                BY <1>0, <1>2, <3>2, SharesAreSeen
            <4> QED BY <1>2, <4>1
        <3> QED BY <1>1, <3>1, <3>2
    <2>2. a \in S \ live /\ b \in Menu \ S
        BY <2>1
    <2> HIDE DEF now
    <2> QED BY <1>0, <2>2, VacanciesToTheBest
<1>8. Selection!RowsNeverLevered' /\ Selection!Cardinality(held') <= TopN
    BY <1>0 DEF Selection!RowsNeverLevered, Selection!SelectionInv, Selection!SelectionSound
<1> QED
    BY <1>6, <1>7, <1>8 DEF Selection!SelectionInv, Selection!SelectionSound

\* What the equity strategies hold: for any menu, scores without ties, momenta,
\* volatilities and gates, no family's row of weights adds up to more than the
\* book or is negative, whatever part of it is idle, forfeited or defended; and
\* a book rebuilt from a live account fills a vacant slot with the best name that
\* passes the momentum test (SelectionSound).
THEOREM SelectionIsSound ==
    ASSUME Selection!SelectionAssumption
    PROVE  Selection!Spec => []Selection!SelectionSound
<1>1. Selection!Init => Selection!TypeOK /\ Selection!SelectionInv
    BY SelectionInitial
<1>2. Selection!TypeOK /\ Selection!SelectionInv /\ [Selection!Next]_(Selection!vars) =>
          Selection!TypeOK' /\ Selection!SelectionInv'
    <2> SUFFICES ASSUME Selection!TypeOK, Selection!SelectionInv, [Selection!Next]_(Selection!vars)
                 PROVE  Selection!TypeOK' /\ Selection!SelectionInv'
        OBVIOUS
    <2>1. CASE Selection!Next
        BY <2>1, RerankStep, ReconstructStep DEF Selection!Next
    <2>2. CASE UNCHANGED Selection!vars
        <3>1. Selection!TypeOK'
            BY <2>2 DEF Selection!vars, Selection!TypeOK
        <3>2. Selection!SelectionInv'
            BY <2>2 DEF Selection!vars, Selection!SelectionInv, Selection!SelectionSound, Selection!RowsNeverLevered,
                        Selection!VacatedGoToTheBest
        <3> QED BY <3>1, <3>2
    <2> QED BY <2>1, <2>2
<1>3. Selection!SelectionInv => Selection!SelectionSound
    BY DEF Selection!SelectionInv
<1> QED
    BY <1>1, <1>2, <1>3, PTL DEF Selection!Spec
=============================================================================
