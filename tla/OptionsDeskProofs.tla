-------------------------- MODULE OptionsDeskProofs --------------------------
(***************************************************************************)
(* Proofs about the options paper desk: what it holds can lose no more     *)
(* than the bankroll, and its cash is explained.  Positions first, then    *)
(* what each phase of a tick does to a book, then the steps.               *)
(***************************************************************************)
EXTENDS OptionsDesk, SumTheorems

-----------------------------------------------------------------------------
(* Numbers.                                                                *)

LEMMA Limits ==
    ASSUME LimitAssumption
    PROVE  /\ Bankroll \in Nat /\ Ticket \in Nat /\ FeePerLeg \in Nat
           /\ Width \in Nat /\ Width > 0 /\ Width <= Bankroll
BY DEF LimitAssumption

\* A product grows with its first factor.
LEMMA Scaled ==
    ASSUME NEW a \in Int, NEW b \in Int, NEW n \in Nat, a <= b
    PROVE  a * n <= b * n /\ a * n \in Int /\ b * n \in Int
OBVIOUS

\* It is taken apart at a difference.
LEMMA Distributed ==
    ASSUME NEW a \in Int, NEW b \in Int, NEW n \in Nat
    PROVE  (a - b) * n = a * n - b * n /\ a * n \in Int /\ b * n \in Int
OBVIOUS

LEMMA IntrinsicNat ==
    ASSUME MarketAssumption, NEW c \in DOMAIN Chain, NEW spot \in Nat
    PROVE  Intrinsic(c, spot) \in Nat /\ Chain[c].strike \in Nat
<1>1. Chain[c] \in Contract
    BY DEF MarketAssumption
<1> QED
    BY <1>1 DEF Intrinsic, Positive, Contract

-----------------------------------------------------------------------------
(* What one position is worth.                                             *)

\* The value of the two structures.
LEMMA NetBought ==
    ASSUME NEW p, NEW v, NEW c, p.long = {c}, p.short = {}, v[c] \in Int
    PROVE  Net(p, v) = v[c]
<1>1. SumFunctionOnSet(v, {c}) = v[c] /\ SumFunctionOnSet(v, {}) = 0
    BY SumOne, SumEmpty
<1>2. Net(p, v) = SumFunctionOnSet(v, {c}) - SumFunctionOnSet(v, {})
    BY Zenon DEF Net
<1> QED
    BY <1>1, <1>2

LEMMA NetSpread ==
    ASSUME NEW p, NEW v, NEW s, NEW l, p.short = {s} /\ p.long = {l} /\ v[l] \in Int /\ v[s] \in Int
    PROVE  Net(p, v) = v[l] - v[s]
<1>1. SumFunctionOnSet(v, {l}) = v[l] /\ SumFunctionOnSet(v, {s}) = v[s]
    BY SumOne
<1>2. Net(p, v) = SumFunctionOnSet(v, {l}) - SumFunctionOnSet(v, {s})
    BY Zenon DEF Net
<1> QED
    BY <1>1, <1>2

\* A spread is between two contracts.
LEMMA TwoLegs ==
    ASSUME MarketAssumption, LimitAssumption, NEW s \in DOMAIN Chain, NEW l \in DOMAIN Chain,
           Chain[l] = [Chain[s] EXCEPT !.strike = Away(s)]
    PROVE  /\ s # l /\ Cardinality({l} \cup {s}) = 2
           /\ Chain[l].kind = Chain[s].kind /\ Chain[l].strike = Away(s)
           /\ Away(s) \in Nat
<1>1. Chain[s] \in Contract /\ Chain[l] \in Contract
    BY DEF MarketAssumption
<1>2. Chain[l].kind = Chain[s].kind /\ Chain[l].strike = Away(s)
    BY <1>1 DEF Contract
<1>3. Chain[s].strike \in Nat /\ Chain[l].strike \in Nat
    BY <1>1 DEF Contract
<1>4. s # l
    <2>1. Away(s) # Chain[s].strike
        BY <1>3, Limits DEF Away
    <2> QED BY <1>2, <2>1
<1>5. Cardinality({l} \cup {s}) = 2
    <2>1. IsFiniteSet({l}) /\ Cardinality({l}) = 1
        BY FS_Singleton
    <2>2. Cardinality({l} \cup {s}) = Cardinality({l}) + 1
        BY <1>4, <2>1, FS_AddElement
    <2> QED BY <2>1, <2>2
<1> QED
    BY <1>2, <1>3, <1>4, <1>5

\* At any spot a spread is worth no less than its width below nothing.
LEMMA SpreadWorth ==
    ASSUME MarketAssumption, LimitAssumption, NEW spot \in Nat,
           NEW s \in DOMAIN Chain, NEW l \in DOMAIN Chain,
           Chain[l] = [Chain[s] EXCEPT !.strike = Away(s)]
    PROVE  Intrinsic(l, spot) - Intrinsic(s, spot) >= -Width
<1>1. /\ Chain[l].kind = Chain[s].kind /\ Chain[l].strike = Away(s)
      /\ Chain[s].strike \in Nat /\ Width \in Nat
    BY TwoLegs, IntrinsicNat, Limits
<1> QED
    BY <1>1 DEF Intrinsic, Positive, Away

\* A position is one of the two, with its legs.
LEMMA Structure ==
    ASSUME MarketAssumption, LimitAssumption, NEW p \in Position, Bought(p) \/ Spread(p)
    PROVE  /\ \A spot \in Nat : /\ Settle(p, spot) \in Int
                                /\ (p.paid - Settle(p, spot)) * p.qty \in Int
                                /\ (p.paid - Settle(p, spot)) * p.qty <= MaxLoss(p)
           /\ \A q \in Quotes : Price(p, q) \in Int /\ Slippage(p, q) \in Nat
           /\ MaxLoss(p) \in Nat /\ Fees(p) \in Nat /\ Cost(p) \in Int
           /\ Legs(p) # {} /\ Legs(p) \subseteq DOMAIN Chain
           /\ Cardinality(Legs(p)) \in Nat
<1>1. /\ p.paid \in Int /\ p.qty \in Nat /\ Legs(p) \subseteq DOMAIN Chain
      /\ FeePerLeg \in Nat /\ Width \in Nat
    BY Limits DEF Position, Legs
<1>2. ASSUME NEW spot \in Nat PROVE \A c \in Legs(p) : Intrinsic(c, spot) \in Nat
    BY <1>1, IntrinsicNat
<1>3. ASSUME NEW q \in Quotes PROVE q.spot \in Nat /\ q.time \in Nat /\ q.slip \in Nat
    BY DEF MarketAssumption
<1>4. CASE Bought(p)
    <2>1. PICK c \in DOMAIN Chain : p.long = {c} /\ p.short = {} /\ p.paid > 0
        BY <1>4 DEF Bought
    <2>2. Legs(p) = {c} /\ Cardinality(Legs(p)) = 1
        BY <2>1, FS_Singleton DEF Legs
    <2>3. MaxLoss(p) = p.paid * p.qty /\ MaxLoss(p) \in Nat
        BY <2>1, <1>1 DEF MaxLoss
    <2>4. Fees(p) \in Nat
        BY <2>2, <1>1 DEF Fees
    <2>5. Cost(p) \in Int
        BY <2>3, <2>4 DEF Cost
    <2>6. ASSUME NEW spot \in Nat
          PROVE  /\ Settle(p, spot) \in Int
                 /\ (p.paid - Settle(p, spot)) * p.qty \in Int
                 /\ (p.paid - Settle(p, spot)) * p.qty <= MaxLoss(p)
        <3>1. [d \in Legs(p) |-> Intrinsic(d, spot)][c] = Intrinsic(c, spot)
            BY <2>2
        <3>2. Intrinsic(c, spot) \in Nat
            BY <1>2, <2>2
        <3>3. Settle(p, spot) = Intrinsic(c, spot)
            <4> DEFINE v == [d \in Legs(p) |-> Intrinsic(d, spot)]
            <4>1. Settle(p, spot) = Net(p, v) /\ v[c] = Intrinsic(c, spot)
                BY <3>1, Zenon DEF Settle
            <4> HIDE DEF v
            <4> QED BY <2>1, <3>2, <4>1, NetBought
        <3>4. p.paid - Settle(p, spot) <= p.paid /\ p.paid - Settle(p, spot) \in Int
            BY <3>2, <3>3, <1>1
        <3> QED BY <3>2, <3>3, <3>4, <2>3, <1>1, Scaled
    <2>7. ASSUME NEW q \in Quotes PROVE Price(p, q) \in Int /\ Slippage(p, q) \in Nat
        <3>1. [d \in Legs(p) |-> Intrinsic(d, q.spot) + q.time][c] = Intrinsic(c, q.spot) + q.time
            BY <2>2
        <3>2. Intrinsic(c, q.spot) + q.time \in Int
            BY <1>2, <1>3, <2>2
        <3>3. Price(p, q) = Intrinsic(c, q.spot) + q.time
            <4> DEFINE v == [d \in Legs(p) |-> Intrinsic(d, q.spot) + q.time]
            <4>1. Price(p, q) = Net(p, v) /\ v[c] = Intrinsic(c, q.spot) + q.time
                BY <3>1, Zenon DEF Price
            <4> HIDE DEF v
            <4> QED BY <2>1, <3>2, <4>1, NetBought, ZenonT(60)
        <3> QED BY <3>2, <3>3, <2>2, <1>3 DEF Slippage
    <2> QED
        BY <1>1, <2>2, <2>3, <2>4, <2>5, <2>6, <2>7
<1>5. CASE Spread(p)
    <2>1. PICK s \in DOMAIN Chain, l \in DOMAIN Chain :
              /\ p.short = {s} /\ p.long = {l}
              /\ Chain[l] = [Chain[s] EXCEPT !.strike = Away(s)]
        BY <1>5 DEF Spread
    <2>0. -Width <= p.paid /\ p.paid <= 0
        BY <1>5 DEF Spread
    <2>2. Legs(p) = {l} \cup {s} /\ Cardinality(Legs(p)) = 2
        BY <2>1, TwoLegs DEF Legs
    <2>3. MaxLoss(p) = (Width + p.paid) * p.qty /\ MaxLoss(p) \in Nat
        BY <2>0, <1>1 DEF MaxLoss
    <2>4. Fees(p) \in Nat
        BY <2>2, <1>1 DEF Fees
    <2>5. Cost(p) \in Int
        BY <2>4, <1>1 DEF Cost
    <2>6. ASSUME NEW spot \in Nat
          PROVE  /\ Settle(p, spot) \in Int
                 /\ (p.paid - Settle(p, spot)) * p.qty \in Int
                 /\ (p.paid - Settle(p, spot)) * p.qty <= MaxLoss(p)
        <3>1. /\ [d \in Legs(p) |-> Intrinsic(d, spot)][l] = Intrinsic(l, spot)
              /\ [d \in Legs(p) |-> Intrinsic(d, spot)][s] = Intrinsic(s, spot)
            BY <2>2
        <3>2. Intrinsic(l, spot) \in Int /\ Intrinsic(s, spot) \in Int
            BY <1>2, <2>2
        <3>3. Settle(p, spot) = Intrinsic(l, spot) - Intrinsic(s, spot)
            <4> DEFINE v == [d \in Legs(p) |-> Intrinsic(d, spot)]
            <4>1. Settle(p, spot) = Net(p, v) /\ v[l] = Intrinsic(l, spot) /\ v[s] = Intrinsic(s, spot)
                BY <3>1, Zenon DEF Settle
            <4> HIDE DEF v
            <4>2. p.short = {s} /\ p.long = {l} /\ v[l] \in Int /\ v[s] \in Int
                BY <2>1, <3>2, <4>1
            <4>3. Net(p, v) = v[l] - v[s]
                BY <4>2, NetSpread
            <4> QED BY <4>1, <4>3
        <3>4. Settle(p, spot) >= -Width /\ Settle(p, spot) \in Int
            BY <3>2, <3>3, <2>1, SpreadWorth
        <3>5. /\ p.paid - Settle(p, spot) <= Width + p.paid
              /\ p.paid - Settle(p, spot) \in Int /\ Width + p.paid \in Int
            BY <3>4, <1>1
        <3> QED BY <3>4, <3>5, <2>3, <1>1, Scaled
    <2>7. ASSUME NEW q \in Quotes PROVE Price(p, q) \in Int /\ Slippage(p, q) \in Nat
        <3>1. /\ [d \in Legs(p) |-> Intrinsic(d, q.spot) + q.time][l] = Intrinsic(l, q.spot) + q.time
              /\ [d \in Legs(p) |-> Intrinsic(d, q.spot) + q.time][s] = Intrinsic(s, q.spot) + q.time
            BY <2>2
        <3>2. Intrinsic(l, q.spot) + q.time \in Int /\ Intrinsic(s, q.spot) + q.time \in Int
            BY <1>2, <1>3, <2>2
        <3>3. Price(p, q) = (Intrinsic(l, q.spot) + q.time) - (Intrinsic(s, q.spot) + q.time)
            <4> DEFINE v == [d \in Legs(p) |-> Intrinsic(d, q.spot) + q.time]
            <4>1. /\ Price(p, q) = Net(p, v) /\ v[l] = Intrinsic(l, q.spot) + q.time
                  /\ v[s] = Intrinsic(s, q.spot) + q.time
                BY <3>1, Zenon DEF Price
            <4> HIDE DEF v
            <4>2. p.short = {s} /\ p.long = {l} /\ v[l] \in Int /\ v[s] \in Int
                BY <2>1, <3>2, <4>1
            <4>3. Net(p, v) = v[l] - v[s]
                BY <4>2, NetSpread
            <4> QED BY <4>1, <4>3
        <3> QED BY <3>2, <3>3, <2>2, <1>3 DEF Slippage
    <2> QED
        BY <1>1, <2>2, <2>3, <2>4, <2>5, <2>6, <2>7
<1> QED
    BY <1>4, <1>5

-----------------------------------------------------------------------------
(* What is done to a book.                                                 *)

\* What a sound book holds, position by position.
LEMMA Holdings ==
    ASSUME MarketAssumption, LimitAssumption, NEW b \in Book, SoundBook(b)
    PROVE  /\ IsFiniteSet(b.open)
           /\ \A p \in b.open : /\ p \in Position /\ (Bought(p) \/ Spread(p))
                                /\ MaxLoss(p) \in Nat /\ Cost(p) \in Int /\ Fees(p) \in Nat
                                /\ Legs(p) # {}
           /\ \A q \in Quotes : \A p \in b.open : Price(p, q) \in Int /\ Slippage(p, q) \in Nat
           /\ \A spot \in Nat : \A p \in b.open : Settle(p, spot) \in Int
<1>1. IsFiniteSet(b.open) /\ \A p \in b.open : p \in Position /\ (Bought(p) \/ Spread(p))
    BY DEF Book, SoundBook, Structured
<1> QED
    BY <1>1, Structure

\* What is at risk in some of the positions is part of what is at risk in all.
LEMMA PartRisk ==
    ASSUME NEW S, IsFiniteSet(S), NEW T \in SUBSET S, \A p \in S : MaxLoss(p) \in Nat
    PROVE  /\ SumFunction([p \in S \ T |-> MaxLoss(p)]) <= SumFunction([p \in S |-> MaxLoss(p)])
           /\ SumFunction([p \in S \ T |-> MaxLoss(p)]) \in Int
           /\ SumFunction([p \in S |-> MaxLoss(p)]) \in Int
<1> DEFINE loss == [p \in S |-> MaxLoss(p)]
           lost == [p \in T |-> MaxLoss(p)]
           left == [p \in S \ T |-> MaxLoss(p)]
<1>1. DOMAIN loss = S /\ DOMAIN lost = T /\ DOMAIN left = S \ T
    OBVIOUS
<1>2. /\ \A x \in S : loss[x] \in Int
      /\ \A x \in T : lost[x] = loss[x] /\ lost[x] \in Nat
      /\ \A x \in S \ T : left[x] = loss[x] /\ left[x] \in Int
    OBVIOUS
<1>3. IsFiniteSet(T) /\ IsFiniteSet(S \ T)
    BY FS_Subset
<1> HIDE DEF loss, lost, left
<1>4. SumFunction(loss) = SumFunction(lost) + SumFunction(left)
    BY <1>1, <1>2, SumParts
<1>5. SumFunction(lost) \in Nat /\ SumFunction(left) \in Int
    BY <1>1, <1>2, <1>3, SumNat, SumInt DEF SumFunction
<1>6. SumFunction(left) <= SumFunction(loss) /\ SumFunction(left) \in Int /\ SumFunction(loss) \in Int
    BY <1>4, <1>5
<1> QED
    BY <1>6 DEF loss, left

\* Closing positions, at any price and fee.
LEMMA CloseKeeps ==
    ASSUME MarketAssumption, LimitAssumption, NEW b \in Book, SoundBook(b),
           NEW T \in SUBSET b.open, NEW received \in [T -> Int], NEW fee \in [T -> Int]
    PROVE  Close(b, received, fee) \in Book /\ SoundBook(Close(b, received, fee))
<1> DEFINE S == b.open
           gain == [p \in T |-> received[p] * p.qty - fee[p]]
           pnl == [p \in T |-> (received[p] - p.paid) * p.qty - fee[p] - Fees(p)]
           cost == [p \in S |-> Cost(p)]
           gone == [p \in T |-> Cost(p)]
           kept == [p \in S \ T |-> Cost(p)]
           c == Close(b, received, fee)
<1>0. /\ IsFiniteSet(S) /\ IsFiniteSet(T) /\ IsFiniteSet(S \ T)
      /\ \A p \in S : p \in Position /\ MaxLoss(p) \in Nat /\ Cost(p) \in Int /\ Fees(p) \in Nat
    BY Holdings, FS_Subset
<1>1. /\ c.open = S \ T /\ c.cash = b.cash + SumFunction(gain)
      /\ c.realized = b.realized + SumFunction(pnl)
      /\ c = [b EXCEPT !.open = S \ T, !.cash = b.cash + SumFunction(gain),
                       !.realized = b.realized + SumFunction(pnl)]
    BY DEF Close, Book
<1>2. \A p \in T : gain[p] \in Int /\ pnl[p] \in Int /\ gone[p] \in Int /\ gain[p] = pnl[p] + gone[p]
    <2> SUFFICES ASSUME NEW p \in T
                 PROVE  gain[p] \in Int /\ pnl[p] \in Int /\ gone[p] \in Int /\ gain[p] = pnl[p] + gone[p]
        OBVIOUS
    <2>1. received[p] \in Int /\ fee[p] \in Int /\ p.paid \in Int /\ p.qty \in Nat /\ Fees(p) \in Nat
        BY <1>0 DEF Position
    <2>2. /\ (received[p] - p.paid) * p.qty = received[p] * p.qty - p.paid * p.qty
          /\ received[p] * p.qty \in Int /\ p.paid * p.qty \in Int
        BY <2>1, Distributed
    <2> QED BY <2>1, <2>2 DEF Cost
<1>3. /\ SumFunction(gain) = SumFunction(pnl) + SumFunction(gone)
      /\ SumFunction(gain) \in Int /\ SumFunction(pnl) \in Int /\ SumFunction(gone) \in Int
    <2>1. DOMAIN gain = T /\ DOMAIN pnl = T /\ DOMAIN gone = T
        OBVIOUS
    <2> HIDE DEF gain, pnl, gone
    <2> QED BY <1>0, <1>2, <2>1, SumPlus, SumInt DEF SumFunction
<1>4. SumFunction(cost) = SumFunction(gone) + SumFunction(kept)
    <2>1. DOMAIN cost = S /\ DOMAIN gone = T /\ DOMAIN kept = S \ T
        OBVIOUS
    <2>2. /\ \A x \in S : cost[x] \in Int
          /\ \A x \in T : gone[x] = cost[x]
          /\ \A x \in S \ T : kept[x] = cost[x]
        BY <1>0
    <2> HIDE DEF cost, gone, kept
    <2> QED BY <1>0, <2>1, <2>2, SumParts
<1>5. SumFunction(cost) \in Int /\ SumFunction(kept) \in Int
    <2>1. DOMAIN cost = S /\ DOMAIN kept = S \ T
          /\ (\A x \in S : cost[x] \in Int) /\ \A x \in S \ T : kept[x] \in Int
        BY <1>0
    <2> HIDE DEF cost, kept
    <2> QED BY <1>0, <2>1, SumInt DEF SumFunction
<1>6. c \in Book
    <2>1. b.cash + SumFunction(gain) \in Int /\ b.realized + SumFunction(pnl) \in Int
        BY <1>3 DEF Book
    <2>2. S \ T \in SUBSET Position
        BY <1>0
    <2> HIDE DEF c, gain, pnl
    <2> QED BY <1>1, <2>1, <2>2 DEF Book
<1>7. Explained(c)
    <2>1. b.cash = Bankroll + b.realized - SumFunction(cost)
        BY DEF SoundBook, Explained
    <2>2. Explained(c) <=> c.cash = Bankroll + c.realized - SumFunction(kept)
        BY <1>1, Zenon DEF Explained
    <2>3. b.cash \in Int /\ b.realized \in Int /\ Bankroll \in Int
        BY Limits DEF Book
    <2> HIDE DEF cost, gain, pnl, gone, kept, c
    <2> QED BY <1>1, <1>3, <1>4, <1>5, <2>1, <2>2, <2>3
<1>8. Risk(c) <= Bankroll
    <2>1. Risk(b) = SumFunction([p \in S |-> MaxLoss(p)])
        BY Zenon DEF Risk
    <2>2. Risk(c) = SumFunction([p \in S \ T |-> MaxLoss(p)])
        BY <1>1, Zenon DEF Risk
    <2>3. Risk(c) <= Risk(b) /\ Risk(c) \in Int /\ Risk(b) \in Int
        BY <1>0, <2>1, <2>2, PartRisk
    <2> HIDE DEF c
    <2> QED BY <2>3, Limits DEF SoundBook
<1>9. IsFiniteSet(c.open) /\ Structured(c) /\ LegsApart(c)
    <2>1. Structured(b) /\ LegsApart(b)
        BY DEF SoundBook
    <2>2. c.open = S \ T
        BY <1>1
    <2> HIDE DEF c
    <2> QED BY <1>0, <2>1, <2>2 DEF Structured, LegsApart
<1> QED
    BY <1>6, <1>7, <1>8, <1>9 DEF SoundBook

\* New marks, which change nothing else of a position.
Remarks(m, S) == \A p \in S : m[p] = p \/ \E k \in Int : m[p] = [p EXCEPT !.mark = k]
Remarked(m, b) == [b EXCEPT !.open = {m[p] : p \in b.open}]

LEMMA RemarkKeeps ==
    ASSUME MarketAssumption, LimitAssumption, NEW b \in Book, SoundBook(b),
           NEW m, Remarks(m, b.open)
    PROVE  Remarked(m, b) \in Book /\ SoundBook(Remarked(m, b))
<1> DEFINE S == b.open
           New == {m[p] : p \in S}
           c == Remarked(m, b)
<1>0. /\ IsFiniteSet(S)
      /\ \A p \in S : /\ p \in Position /\ (Bought(p) \/ Spread(p)) /\ Legs(p) # {}
                      /\ MaxLoss(p) \in Nat /\ Cost(p) \in Int
    BY Holdings
<1>1. \A p \in S : /\ m[p] \in Position
                   /\ m[p].long = p.long /\ m[p].short = p.short
                   /\ m[p].paid = p.paid /\ m[p].qty = p.qty
    BY <1>0, ZenonT(60) DEF Position, Remarks
<1>2. \A p \in S : /\ Legs(m[p]) = Legs(p) /\ MaxLoss(m[p]) = MaxLoss(p) /\ Cost(m[p]) = Cost(p)
                   /\ Bought(p) => Bought(m[p])
                   /\ Spread(p) => Spread(m[p])
    <2> SUFFICES ASSUME NEW p \in S
                 PROVE  /\ Legs(m[p]) = Legs(p) /\ MaxLoss(m[p]) = MaxLoss(p) /\ Cost(m[p]) = Cost(p)
                        /\ Bought(p) => Bought(m[p])
                        /\ Spread(p) => Spread(m[p])
        BY Zenon
    <2>1. Legs(m[p]) = Legs(p) /\ MaxLoss(m[p]) = MaxLoss(p)
        BY <1>1, Zenon DEF Legs, MaxLoss
    <2>2. Cost(m[p]) = Cost(p)
        BY <1>1, <2>1, Zenon DEF Cost, Fees
    <2>3. (Bought(p) => Bought(m[p])) /\ (Spread(p) => Spread(m[p]))
        BY <1>1, Zenon DEF Bought, Spread
    <2> QED BY <2>1, <2>2, <2>3
<1>3. \A p, o \in S : m[p] = m[o] => p = o
    <2> SUFFICES ASSUME NEW p \in S, NEW o \in S, m[p] = m[o], p # o PROVE FALSE
        OBVIOUS
    <2>1. Legs(p) = Legs(o)
        BY <1>2
    <2>2. Legs(p) \cap Legs(o) = {} /\ Legs(p) # {}
        BY <1>0 DEF SoundBook, LegsApart
    <2> QED BY <2>1, <2>2
<1>4. c.open = New /\ c.cash = b.cash /\ c.realized = b.realized /\ c \in Book
    BY <1>1 DEF Book, Remarked
<1>5. IsFiniteSet(New)
    <2> DEFINE f == [p \in S |-> m[p]]
    <2>1. f \in Surjection(S, New)
        BY DEF Surjection
    <2> HIDE DEF f, New
    <2> QED BY <1>0, <2>1, FS_Surjection
<1>6. SumFunction([p \in New |-> Cost(p)]) = SumFunction([p \in S |-> Cost(p)])
    <2> DEFINE f == [p \in S |-> Cost(p)]
               g == [p \in New |-> Cost(p)]
    <2>1. \A p \in S : f[p] \in Int /\ g[m[p]] = f[p]
        BY <1>0, <1>2
    <2>2. SumFunction(f) = SumFunctionOnSet(f, S) /\ SumFunction(g) = SumFunctionOnSet(g, New)
        BY DEF SumFunction
    <2>3. SumFunctionOnSet(g, {m[p] : p \in S}) = SumFunctionOnSet(f, S)
        <3> HIDE DEF f, g, S
        <3> QED BY <1>0, <1>3, <2>1, SumRename
    <2> QED BY <2>2, <2>3
<1>7. SumFunction([p \in New |-> MaxLoss(p)]) = SumFunction([p \in S |-> MaxLoss(p)])
    <2> DEFINE f == [p \in S |-> MaxLoss(p)]
               g == [p \in New |-> MaxLoss(p)]
    <2>1. \A p \in S : f[p] \in Int /\ g[m[p]] = f[p]
        BY <1>0, <1>2
    <2>2. SumFunction(f) = SumFunctionOnSet(f, S) /\ SumFunction(g) = SumFunctionOnSet(g, New)
        BY DEF SumFunction
    <2>3. SumFunctionOnSet(g, {m[p] : p \in S}) = SumFunctionOnSet(f, S)
        <3> HIDE DEF f, g, S
        <3> QED BY <1>0, <1>3, <2>1, SumRename
    <2> QED BY <2>2, <2>3
<1>8. Structured(c)
    BY <1>0, <1>2, <1>4 DEF Structured
<1>9. LegsApart(c)
    <2> SUFFICES ASSUME NEW p \in S, NEW o \in S, m[p] # m[o]
                 PROVE  Legs(m[p]) \cap Legs(m[o]) = {}
        BY <1>4 DEF LegsApart
    <2>1. Legs(p) \cap Legs(o) = {}
        BY DEF SoundBook, LegsApart
    <2> QED BY <1>2, <2>1
<1>10. Risk(c) = Risk(b) /\ (Explained(b) => Explained(c))
    BY <1>4, <1>6, <1>7, Zenon DEF Risk, Explained
<1> QED
    BY <1>4, <1>5, <1>8, <1>9, <1>10 DEF SoundBook

\* Opening a position whose contracts are not held, or none.
LEMMA EnterKeeps ==
    ASSUME MarketAssumption, LimitAssumption, NEW b \in Book, SoundBook(b), NEW p,
           \/ p = None
           \/ p \in Position /\ (Bought(p) \/ Spread(p)) /\ Legs(p) \cap Held(b) = {}
    PROVE  Entered(b, p) \in Book /\ SoundBook(Entered(b, p))
<1> DEFINE S == b.open
           c == [b EXCEPT !.open = S \cup {p}, !.cash = b.cash - Cost(p)]
<1>1. CASE Entered(b, p) = b
    BY <1>1, Zenon
<1>2. CASE Entered(b, p) # b
    <2>0. /\ p # None /\ Entered(b, p) = c
          /\ ~(Risk(b) + MaxLoss(p) > Bankroll)
        BY <1>2 DEF Entered
    <2>1. /\ p \in Position /\ (Bought(p) \/ Spread(p)) /\ Legs(p) \cap Held(b) = {}
          /\ Legs(p) # {} /\ MaxLoss(p) \in Nat /\ Cost(p) \in Int
        BY <2>0, Structure
    <2>2. /\ IsFiniteSet(S)
          /\ \A o \in S : /\ o \in Position /\ (Bought(o) \/ Spread(o)) /\ Legs(o) # {}
                          /\ MaxLoss(o) \in Nat /\ Cost(o) \in Int
                          /\ Legs(o) \subseteq Held(b)
        BY Holdings DEF Held
    <2>3. p \notin S /\ IsFiniteSet(S \cup {p})
        BY <2>1, <2>2, FS_AddElement
    <2>4. c.open = S \cup {p} /\ c.cash = b.cash - Cost(p) /\ c.realized = b.realized /\ c \in Book
        <3>1. b.cash - Cost(p) \in Int
            BY <2>1 DEF Book
        <3>2. S \cup {p} \in SUBSET Position
            BY <2>1, <2>2
        <3>3. [b EXCEPT !.open = S \cup {p}] \in Book
            BY <3>2 DEF Book
        <3>4. c = [[b EXCEPT !.open = S \cup {p}] EXCEPT !.cash = b.cash - Cost(p)]
            BY DEF Book
        <3>5. c.open = S \cup {p} /\ c.cash = b.cash - Cost(p) /\ c.realized = b.realized
            BY DEF Book
        <3> QED BY <3>1, <3>3, <3>4, <3>5 DEF Book
    <2>5. /\ SumFunction([o \in S \cup {p} |-> Cost(o)]) = SumFunction([o \in S |-> Cost(o)]) + Cost(p)
          /\ SumFunction([o \in S |-> Cost(o)]) \in Int
        <3> DEFINE f == [o \in S |-> Cost(o)]
                   g == [o \in S \cup {p} |-> Cost(o)]
        <3>1. /\ DOMAIN f = S /\ DOMAIN g = S \cup {p} /\ g[p] = Cost(p) /\ g[p] \in Int
              /\ \A o \in S : f[o] \in Int /\ g[o] = f[o]
            BY <2>1, <2>2
        <3> HIDE DEF f, g
        <3> QED BY <2>2, <2>3, <3>1, SumGrows
    <2>6. /\ SumFunction([o \in S \cup {p} |-> MaxLoss(o)]) = SumFunction([o \in S |-> MaxLoss(o)]) + MaxLoss(p)
          /\ SumFunction([o \in S |-> MaxLoss(o)]) \in Int
        <3> DEFINE f == [o \in S |-> MaxLoss(o)]
                   g == [o \in S \cup {p} |-> MaxLoss(o)]
        <3>1. /\ DOMAIN f = S /\ DOMAIN g = S \cup {p} /\ g[p] = MaxLoss(p) /\ g[p] \in Int
              /\ \A o \in S : f[o] \in Int /\ g[o] = f[o]
            BY <2>1, <2>2
        <3> HIDE DEF f, g
        <3> QED BY <2>2, <2>3, <3>1, SumGrows
    <2>7. Risk(c) <= Bankroll
        <3>1. Risk(c) = Risk(b) + MaxLoss(p) /\ Risk(b) \in Int
            BY <2>4, <2>6, Zenon DEF Risk
        <3> HIDE DEF c
        <3> QED BY <2>0, <2>1, <3>1, Limits
    <2>8. Explained(c)
        <3>1. b.cash = Bankroll + b.realized - SumFunction([o \in S |-> Cost(o)])
            BY Zenon DEF SoundBook, Explained
        <3>2. Explained(c) <=> c.cash = Bankroll + c.realized - SumFunction([o \in S \cup {p} |-> Cost(o)])
            BY <2>4, Zenon DEF Explained
        <3>3. b.cash \in Int /\ b.realized \in Int /\ Bankroll \in Int
            BY Limits DEF Book
        <3> DEFINE x == SumFunction([o \in S |-> Cost(o)])
                   y == SumFunction([o \in S \cup {p} |-> Cost(o)])
        <3>4. x \in Int /\ y = x + Cost(p)
            BY <2>5
        <3>5. b.cash = Bankroll + b.realized - x
            BY <3>1
        <3>6. c.cash = Bankroll + c.realized - y
            <4> HIDE DEF x, y, c
            <4> QED BY <2>1, <2>4, <3>3, <3>4, <3>5
        <3> QED BY <3>2, <3>6
    <2>9. Structured(c) /\ LegsApart(c)
        <3>1. Structured(b) /\ LegsApart(b)
            BY DEF SoundBook
        <3>2. \A o \in S : Legs(o) \cap Legs(p) = {}
            BY <2>1, <2>2
        <3>3. c.open = S \cup {p}
            BY <2>4
        <3> HIDE DEF c
        <3> QED BY <2>1, <3>1, <3>2, <3>3 DEF Structured, LegsApart
    <2> QED
        BY <2>0, <2>3, <2>4, <2>7, <2>8, <2>9 DEF SoundBook
<1> QED
    BY <1>1, <1>2

-----------------------------------------------------------------------------
(* The phases of a tick.                                                   *)

LEMMA QuoteTypes ==
    ASSUME MarketAssumption, NEW q \in Quotes
    PROVE  /\ q.spot \in Nat /\ q.time \in Nat /\ q.slip \in Nat
           /\ q.fresh \subseteq DOMAIN Chain
BY DEF MarketAssumption

\* Phase 1.
LEMMA MarkedKeeps ==
    ASSUME MarketAssumption, LimitAssumption, NEW b \in Book, SoundBook(b), NEW q \in Quotes
    PROVE  Marked(b, q) \in Book /\ SoundBook(Marked(b, q))
<1> DEFINE expired == {p \in b.open : Dte(p) < 0}
           settled == IF q.settle THEN expired ELSE {}
           mark(p) == IF p \notin expired /\ Usable(p, q) THEN [p EXCEPT !.mark = Price(p, q)] ELSE p
           closed == Close(b, [p \in settled |-> Settle(p, q.spot)], [p \in settled |-> 0])
           m == [p \in closed.open |-> mark(p)]
<1>1. closed \in Book /\ SoundBook(closed)
    <2> DEFINE T == settled
               received == [p \in settled |-> Settle(p, q.spot)]
               fee == [p \in settled |-> 0]
    <2>1. T \in SUBSET b.open
        OBVIOUS
    <2>2. \A p \in b.open : Settle(p, q.spot) \in Int
        BY Holdings, QuoteTypes
    <2>3. received \in [T -> Int] /\ fee \in [T -> Int]
        <3> HIDE DEF settled
        <3> QED BY <2>1, <2>2
    <2>4. closed = Close(b, received, fee)
        OBVIOUS
    <2> HIDE DEF T, received, fee, closed
    <2> QED BY <2>1, <2>3, <2>4, CloseKeeps
<1>2. Marked(b, q) = [closed EXCEPT !.open = {mark(p) : p \in @}]
    BY Zenon DEF Marked
<1> HIDE DEF closed, expired
<1>3. \A p \in closed.open : Price(p, q) \in Int
    BY <1>1, Holdings
<1>4. Remarks(m, closed.open)
    BY <1>3 DEF Remarks
<1>5. {mark(p) : p \in closed.open} = {m[p] : p \in closed.open}
    OBVIOUS
<1>6. Marked(b, q) = Remarked(m, closed)
    <2> DEFINE new == {mark(p) : p \in closed.open}
    <2>1. Marked(b, q) = [closed EXCEPT !.open = new]
        BY <1>2
    <2>2. new = {m[p] : p \in closed.open}
        BY <1>5
    <2> HIDE DEF new, m
    <2> QED BY <2>1, <2>2, Zenon DEF Remarked
<1> HIDE DEF m
<1> QED
    BY <1>1, <1>4, <1>6, RemarkKeeps

\* Only what is open and the amounts matter.
LEMMA SoundAlike ==
    ASSUME NEW b, NEW c, SoundBook(b), c.open = b.open, c.cash = b.cash, c.realized = b.realized
    PROVE  SoundBook(c)
<1>1. Risk(c) = Risk(b) /\ (Explained(b) => Explained(c))
    BY Zenon DEF Risk, Explained
<1>2. (Structured(b) => Structured(c)) /\ (LegsApart(b) => LegsApart(c))
    BY Zenon DEF Structured, LegsApart
<1> QED
    BY <1>1, <1>2 DEF SoundBook

\* Phase 2.
LEMMA HaltedKeeps ==
    ASSUME NEW b \in Book, SoundBook(b)
    PROVE  Halted(b) \in Book /\ SoundBook(Halted(b))
<1> DEFINE h == b.halted \/ 5 * Equity(b) < 2 * Bankroll
           c == [b EXCEPT !.halted = h]
<1>1. Halted(b) = c
    BY Zenon DEF Halted
<1>2. h \in BOOLEAN
    OBVIOUS
<1> HIDE DEF h
<1>3. c \in Book /\ c.open = b.open /\ c.cash = b.cash /\ c.realized = b.realized
    BY <1>2 DEF Book
<1> HIDE DEF c
<1>4. SoundBook(c)
    BY <1>3, SoundAlike
<1> QED
    BY <1>1, <1>3, <1>4

\* Phase 3.
LEMMA ExitedKeeps ==
    ASSUME MarketAssumption, LimitAssumption, NEW b \in Book, SoundBook(b), NEW q \in Quotes,
           NEW flatten
    PROVE  Exited(b, q, flatten) \in Book /\ SoundBook(Exited(b, q, flatten))
<1> DEFINE due(p) == \/ flatten \/ Dte(p) = 0 \/ HitProfit(p) \/ HitStop(p)
                     \/ Dte(p) <= Sleeve[p.sleeve].exit
           T == {p \in b.open : due(p) /\ Usable(p, q)}
           received == [p \in T |-> Price(p, q) - Slippage(p, q)]
           fee == [p \in T |-> Fees(p)]
<1>1. Exited(b, q, flatten) = Close(b, received, fee)
    BY Zenon DEF Exited
<1>2. T \in SUBSET b.open
    OBVIOUS
<1> HIDE DEF T
<1>3. \A p \in b.open : Price(p, q) \in Int /\ Slippage(p, q) \in Nat /\ Fees(p) \in Nat
    BY Holdings
<1>4. received \in [T -> Int] /\ fee \in [T -> Int]
    BY <1>2, <1>3
<1> HIDE DEF received, fee
<1> QED
    BY <1>1, <1>2, <1>4, CloseKeeps

\* Phase 4, the credit spreads: contracts nobody holds, for no more than the width.
LEMMA CreditSpreadsSound ==
    ASSUME MarketAssumption, LimitAssumption, NEW b, NEW q \in Quotes, NEW p \in CreditSpreads(b, q)
    PROVE  p \in Position /\ Spread(p) /\ Legs(p) \cap Held(b) = {}
<1>1. PICK s, l : /\ s \in q.fresh \ Held(b) /\ l \in q.fresh \ Held(b)
                  /\ Chain[l] = [Chain[s] EXCEPT !.strike = Away(s)]
                  /\ p = Quoted("fat", {l}, {s}, q)
                  /\ -100 * p.paid >= 12 * Width
    BY DEF CreditSpreads
<1>2. /\ s \in DOMAIN Chain /\ l \in DOMAIN Chain
      /\ q.spot \in Nat /\ q.time \in Nat /\ q.slip \in Nat
    BY <1>1, QuoteTypes
<1> DEFINE legs == [long |-> {l}, short |-> {s}]
           paid == Price(legs, q) + Slippage(legs, q)
<1>3. /\ p = [sleeve |-> "fat", long |-> {l}, short |-> {s}, qty |-> 1, paid |-> paid, mark |-> paid]
      /\ p.paid = paid
    BY <1>1 DEF Quoted
<1>4. Slippage(legs, q) \in Nat
    BY <1>1, <1>2, TwoLegs DEF Slippage, Legs
<1>5. Price(legs, q) \in Int /\ Price(legs, q) >= -Width
    <2> DEFINE v == [c \in Legs(legs) |-> Intrinsic(c, q.spot) + q.time]
    <2>1. v[l] = Intrinsic(l, q.spot) + q.time /\ v[s] = Intrinsic(s, q.spot) + q.time
        BY DEF Legs
    <2>2. Intrinsic(l, q.spot) \in Nat /\ Intrinsic(s, q.spot) \in Nat
        BY <1>2, IntrinsicNat
    <2>3. Price(legs, q) = Net(legs, v)
        BY Zenon DEF Price
    <2>4. legs.short = {s} /\ legs.long = {l} /\ v[l] \in Int /\ v[s] \in Int
        BY <1>2, <2>1, <2>2
    <2> HIDE DEF v, legs
    <2>5. Net(legs, v) = v[l] - v[s]
        BY <2>4, NetSpread
    <2>6. Intrinsic(l, q.spot) - Intrinsic(s, q.spot) >= -Width
        BY <1>1, <1>2, SpreadWorth
    <2> QED BY <1>2, <2>1, <2>2, <2>3, <2>5, <2>6, Limits
<1>6. paid \in Int /\ -Width <= paid /\ paid <= 0
    <2>1. -100 * paid >= 12 * Width /\ Width \in Nat
        BY <1>1, <1>3, Limits
    <2> HIDE DEF legs
    <2> QED BY <1>4, <1>5, <2>1
<1> HIDE DEF paid
<1>7. p \in Position
    BY <1>2, <1>3, <1>6 DEF Position
<1>8. Spread(p)
    <2>1. p.short = {s} /\ p.long = {l} /\ -Width <= p.paid /\ p.paid <= 0
        BY <1>3, <1>6
    <2> QED BY <1>1, <1>2, <2>1, Zenon DEF Spread
<1>9. Legs(p) = {l, s}
    BY <1>3 DEF Legs
<1> QED
    BY <1>1, <1>7, <1>8, <1>9

\* Phase 4, the tickets: one contract nobody holds.
LEMMA LongOptionsSound ==
    ASSUME MarketAssumption, LimitAssumption, NEW b, NEW q \in Quotes, NEW p \in LongOptions(b, q)
    PROVE  p \in Position /\ Bought(p) /\ Legs(p) \cap Held(b) = {}
<1> DEFINE sized(x) == IF x.paid > 0 /\ Ticket \div x.paid > 1 THEN [x EXCEPT !.qty = Ticket \div x.paid] ELSE x
<1>1. PICK c : /\ c \in q.fresh \ Held(b)
               /\ p = sized(Quoted("lotto", {c}, {}, q))
               /\ p.paid > 0
    BY DEF LongOptions
<1>2. c \in DOMAIN Chain /\ q.spot \in Nat /\ q.time \in Nat /\ q.slip \in Nat
    BY <1>1, QuoteTypes
<1> DEFINE legs == [long |-> {c}, short |-> {}]
           paid == Price(legs, q) + Slippage(legs, q)
           o == [sleeve |-> "lotto", long |-> {c}, short |-> {}, qty |-> 1, paid |-> paid, mark |-> paid]
<1>3. p = sized(o)
    BY <1>1 DEF Quoted
<1>4. Slippage(legs, q) \in Nat
    <2>1. Legs(legs) = {c} /\ Cardinality({c}) = 1
        BY FS_Singleton DEF Legs
    <2> HIDE DEF legs
    <2> QED BY <1>2, <2>1 DEF Slippage
<1>5. Price(legs, q) \in Int
    <2> DEFINE v == [d \in Legs(legs) |-> Intrinsic(d, q.spot) + q.time]
    <2>1. v[c] = Intrinsic(c, q.spot) + q.time
        BY DEF Legs
    <2>2. Intrinsic(c, q.spot) \in Nat
        BY <1>2, IntrinsicNat
    <2>3. Price(legs, q) = Net(legs, v)
        BY Zenon DEF Price
    <2>4. legs.short = {} /\ legs.long = {c} /\ v[c] \in Int
        BY <1>2, <2>1, <2>2
    <2> HIDE DEF v, legs
    <2>5. Net(legs, v) = v[c]
        BY <2>4, NetBought
    <2> QED BY <2>3, <2>4, <2>5
<1>6. paid \in Int
    BY <1>4, <1>5
<1> HIDE DEF paid
<1>7. /\ p.long = {c} /\ p.short = {} /\ p.paid = paid /\ p \in Position
    <2>1. o \in Position
        BY <1>2, <1>6 DEF Position
    <2>2. CASE o.paid > 0 /\ Ticket \div o.paid > 1
        <3>1. p = [o EXCEPT !.qty = Ticket \div o.paid]
            BY <1>3, <2>2
        <3>2. Ticket \div o.paid \in Nat \ {0}
            BY <1>6, <2>2, Limits
        <3> QED BY <2>1, <3>1, <3>2 DEF Position
    <2>3. CASE ~(o.paid > 0 /\ Ticket \div o.paid > 1)
        <3>1. p = o
            BY <1>3, <2>3
        <3> QED BY <2>1, <3>1
    <2> QED BY <2>2, <2>3
<1>8. Bought(p)
    BY <1>1, <1>2, <1>7 DEF Bought
<1> QED
    BY <1>1, <1>7, <1>8 DEF Legs

\* No phase changes the version of a book.
LEMMA VersionStays ==
    ASSUME NEW b \in Book
    PROVE  /\ \A r, f : Close(b, r, f).version = b.version
           /\ \A q : Marked(b, q).version = b.version
           /\ Halted(b).version = b.version
           /\ \A q, flatten : Exited(b, q, flatten).version = b.version
           /\ \A p : Entered(b, p).version = b.version
<1>1. \A r, f : Close(b, r, f).version = b.version
    BY DEF Close, Book
<1>2. ASSUME NEW q PROVE Marked(b, q).version = b.version
    <2> DEFINE expired == {p \in b.open : Dte(p) < 0}
               settled == IF q.settle THEN expired ELSE {}
               mark(p) == IF p \notin expired /\ Usable(p, q) THEN [p EXCEPT !.mark = Price(p, q)] ELSE p
               closed == Close(b, [p \in settled |-> Settle(p, q.spot)], [p \in settled |-> 0])
    <2>1. Marked(b, q) = [closed EXCEPT !.open = {mark(p) : p \in @}]
        BY Zenon DEF Marked
    <2>2. closed.version = b.version
        BY <1>1
    <2>3. closed = [closed EXCEPT !.version = b.version]
        BY <2>2, Zenon DEF Close
    <2> HIDE DEF closed, expired, settled, mark
    <2> QED BY <2>1, <2>2, <2>3
<1>3. Halted(b).version = b.version
    BY DEF Halted, Book
<1>4. ASSUME NEW q, NEW flatten PROVE Exited(b, q, flatten).version = b.version
    BY <1>1, Zenon DEF Exited
<1>5. ASSUME NEW p PROVE Entered(b, p).version = b.version
    BY DEF Entered, Book
<1> QED
    BY <1>1, <1>2, <1>3, <1>4, <1>5

-----------------------------------------------------------------------------
(* The books a run starts from.                                            *)

LEMMA NewBookSound ==
    ASSUME LimitAssumption
    PROVE  NewBook \in Book /\ SoundBook(NewBook)
<1>1. /\ NewBook \in Book /\ NewBook.open = {} /\ NewBook.cash = Bankroll /\ NewBook.realized = 0
    BY Limits DEF NewBook, Book
<1>2. SumFunction([p \in {} |-> Cost(p)]) = 0 /\ SumFunction([p \in {} |-> MaxLoss(p)]) = 0
    BY SumEmpty DEF SumFunction
<1>3. Risk(NewBook) = 0
    BY <1>1, <1>2, Zenon DEF Risk
<1>4. Explained(NewBook)
    <2>1. Explained(NewBook) <=> NewBook.cash = Bankroll + NewBook.realized - SumFunction([p \in {} |-> Cost(p)])
        BY <1>1, Zenon DEF Explained
    <2> QED BY <1>1, <1>2, <2>1, Limits
<1>5. IsFiniteSet({}) /\ Structured(NewBook) /\ LegsApart(NewBook)
    BY <1>1, FS_EmptySet DEF Structured, LegsApart
<1> QED
    BY <1>1, <1>3, <1>4, <1>5, Limits DEF SoundBook

\* A book of version 1 has the right types, and its migration is sound.
LEMMA MigratedSound ==
    ASSUME MarketAssumption, LimitAssumption, NEW b \in OldBooks
    PROVE  LET c == [b EXCEPT !.version = 2, !.open = {[p EXCEPT !.paid = -@, !.mark = -@] : p \in @}]
           IN  b \in Book /\ b.version = 1 /\ c \in Book /\ c.version = 2 /\ SoundBook(c)
<1> DEFINE half == Width \div 2
<1>1. PICK s, l : /\ s \in DOMAIN Chain /\ l \in DOMAIN Chain
                  /\ Chain[l] = [Chain[s] EXCEPT !.strike = Away(s)]
                  /\ b = OldBook(s, l)
    BY DEF OldBooks
<1> DEFINE o == [sleeve |-> "legacy", long |-> {l}, short |-> {s}, qty |-> 1, paid |-> half, mark |-> half]
           p == [sleeve |-> "legacy", long |-> {l}, short |-> {s}, qty |-> 1, paid |-> -half, mark |-> -half]
           c == [b EXCEPT !.version = 2, !.open = {[x EXCEPT !.paid = -@, !.mark = -@] : x \in @}]
<1>2. half \in Nat /\ half <= Width
    BY Limits
<1>3. b = [version |-> 1, cash |-> Bankroll + half - 2 * FeePerLeg, open |-> {o}, realized |-> 0,
           halted |-> FALSE, last |-> 0]
    BY <1>1 DEF OldBook, NewBook
<1> HIDE DEF half
<1>4. [o EXCEPT !.paid = -@, !.mark = -@] = p
    <2>1. [o EXCEPT !.paid = -@, !.mark = -@] = [o EXCEPT !.paid = -half, !.mark = -half]
        BY <1>2
    <2>2. [o EXCEPT !.paid = -half, !.mark = -half] = p
        <3> DEFINE u == -half
                   r == [sleeve |-> "legacy", long |-> {l}, short |-> {s}, qty |-> 1, paid |-> u, mark |-> half]
        <3>1. [o EXCEPT !.paid = u] = r
            OBVIOUS
        <3>2. [r EXCEPT !.mark = u] = p
            OBVIOUS
        <3>3. [o EXCEPT !.paid = u, !.mark = u] = [[o EXCEPT !.paid = u] EXCEPT !.mark = u]
            <4> HIDE DEF o, u
            <4> QED OBVIOUS
        <3> HIDE DEF r, u
        <3> QED BY <3>1, <3>2, <3>3 DEF u
    <2> QED BY <2>1, <2>2, Zenon
<1>5. {[x EXCEPT !.paid = -@, !.mark = -@] : x \in {o}} = {p}
    <2> HIDE DEF o, p
    <2> QED BY <1>4
<1>6. c = [version |-> 2, cash |-> Bankroll + half - 2 * FeePerLeg, open |-> {p}, realized |-> 0,
           halted |-> FALSE, last |-> 0]
    <2> HIDE DEF o, p
    <2> DEFINE new == {[x EXCEPT !.paid = -@, !.mark = -@] : x \in b.open}
    <2>1. b.open = {o}
        BY <1>3
    <2>2. new = {p}
        BY <1>5, <2>1, Zenon
    <2>3. c = [b EXCEPT !.version = 2, !.open = new]
        OBVIOUS
    <2> HIDE DEF new, c
    <2> QED BY <1>3, <2>2, <2>3
<1>7. o \in Position /\ p \in Position
    BY <1>1, <1>2 DEF Position
<1>8. b \in Book /\ c \in Book /\ b.version = 1 /\ c.version = 2
    <2> HIDE DEF o, p, c
    <2>1. Bankroll + half - 2 * FeePerLeg \in Int
        BY <1>2, Limits
    <2> QED BY <1>3, <1>6, <1>7, <2>1 DEF Book
<1>9. Spread(p)
    <2>1. p.short = {s} /\ p.long = {l} /\ -Width <= p.paid /\ p.paid <= 0
        BY <1>2, Limits
    <2> QED BY <1>1, <2>1, Zenon DEF Spread
<1>10. MaxLoss(p) \in Nat /\ MaxLoss(p) <= Bankroll
    <2>1. p.paid = -half /\ p.qty = 1
        OBVIOUS
    <2> HIDE DEF p
    <2> QED BY <1>2, <2>1, Limits DEF MaxLoss
<1>11. Cost(p) = 2 * FeePerLeg - half /\ Cost(p) \in Int
    <2>1. p.paid = -half /\ p.qty = 1 /\ Legs(p) = {l} \cup {s}
        BY DEF Legs
    <2>2. Cardinality({l} \cup {s}) = 2
        BY <1>1, TwoLegs
    <2> HIDE DEF p
    <2>3. Cardinality(Legs(p)) = 2
        BY <2>1, <2>2, Zenon
    <2> QED BY <1>2, <2>1, <2>3, Limits DEF Cost, Fees
<1>12. SumFunction([x \in {p} |-> Cost(x)]) = Cost(p) /\ SumFunction([x \in {p} |-> MaxLoss(x)]) = MaxLoss(p)
    <2> HIDE DEF p
    <2> DEFINE f == [x \in {p} |-> Cost(x)]
               g == [x \in {p} |-> MaxLoss(x)]
    <2>1. f[p] = Cost(p) /\ g[p] = MaxLoss(p) /\ DOMAIN f = {p} /\ DOMAIN g = {p}
        OBVIOUS
    <2> HIDE DEF f, g
    <2>2. SumFunctionOnSet(f, {p}) = f[p] /\ SumFunctionOnSet(g, {p}) = g[p]
        BY <1>10, <1>11, <2>1, SumOne
    <2>3. SumFunction(f) = SumFunctionOnSet(f, {p}) /\ SumFunction(g) = SumFunctionOnSet(g, {p})
        BY <2>1, Zenon DEF SumFunction
    <2>4. SumFunction(f) = Cost(p) /\ SumFunction(g) = MaxLoss(p)
        BY <2>1, <2>2, <2>3
    <2> QED BY <2>4 DEF f, g
<1>13. SoundBook(c)
    <2>1. c.open = {p} /\ c.cash = Bankroll + half - 2 * FeePerLeg /\ c.realized = 0
        BY <1>6
    <2> HIDE DEF c, p, o
    <2>2. Risk(c) = MaxLoss(p)
        BY <1>12, <2>1, Zenon DEF Risk
    <2>3. Explained(c)
        <3>1. Explained(c) <=> c.cash = Bankroll + c.realized - SumFunction([x \in {p} |-> Cost(x)])
            BY <2>1, Zenon DEF Explained
        <3> QED BY <1>2, <1>11, <1>12, <2>1, <3>1, Limits
    <2>4. IsFiniteSet({p}) /\ Structured(c) /\ LegsApart(c)
        BY <1>9, <2>1, FS_Singleton DEF Structured, LegsApart
    <2> QED BY <1>10, <2>1, <2>2, <2>3, <2>4 DEF SoundBook
<1> QED
    BY <1>8, <1>13

-----------------------------------------------------------------------------
(* A tick, whatever the quotes and the picks.                              *)

LEMMA TickKeeps ==
    ASSUME MarketAssumption, LimitAssumption, TypeOK, OptionsInv, Tick
    PROVE  TypeOK' /\ OptionsInv'
<1> DEFINE b == optionBook
<1>1. b \in Book /\ b.version = 2 /\ SoundBook(b) /\ optionDay \in Nat /\ optionDay' = optionDay
    BY DEF TypeOK, OptionsInv, Tick
<1>2. PICK q \in Quotes :
          LET marked == Marked(b, q)
              flatten == Flatten(marked)
              exited == Exited(Halted(marked), q, flatten)
              picks(from) == IF flatten THEN {None} ELSE {None} \cup from
          IN \E fat \in picks(CreditSpreads(exited, q)) :
                LET one == Entered(exited, fat) IN
                \E lotto \in picks(LongOptions(one, q)) :
                    optionBook' = [Entered(one, lotto) EXCEPT !.last = optionDay]
    BY Zenon DEF Tick
<1> DEFINE marked == Marked(b, q)
           flatten == Flatten(marked)
           halted == Halted(marked)
           exited == Exited(halted, q, flatten)
<1>3. PICK fat : /\ fat = None \/ fat \in CreditSpreads(exited, q)
                 /\ \E lotto : /\ lotto = None \/ lotto \in LongOptions(Entered(exited, fat), q)
                               /\ optionBook' = [Entered(Entered(exited, fat), lotto) EXCEPT !.last = optionDay]
    <2>1. \A from, x : x \in (IF flatten THEN {None} ELSE {None} \cup from) => x = None \/ x \in from
        OBVIOUS
    <2> QED BY <1>2, <2>1, Zenon
<1> DEFINE one == Entered(exited, fat)
<1>4. PICK lotto : /\ lotto = None \/ lotto \in LongOptions(one, q)
                   /\ optionBook' = [Entered(one, lotto) EXCEPT !.last = optionDay]
    BY <1>3, Zenon
<1> DEFINE two == Entered(one, lotto)
<1>5. marked \in Book /\ SoundBook(marked) /\ marked.version = 2
    BY <1>1, MarkedKeeps, VersionStays
<1>6. halted \in Book /\ SoundBook(halted) /\ halted.version = 2
    <2> HIDE DEF marked
    <2> QED BY <1>5, HaltedKeeps, VersionStays
<1>7. exited \in Book /\ SoundBook(exited) /\ exited.version = 2
    <2> HIDE DEF halted, flatten
    <2> QED BY <1>6, ExitedKeeps, VersionStays
<1> HIDE DEF exited
<1>8. one \in Book /\ SoundBook(one) /\ one.version = 2
    <2>1. \/ fat = None
          \/ fat \in Position /\ (Bought(fat) \/ Spread(fat)) /\ Legs(fat) \cap Held(exited) = {}
        BY <1>3, CreditSpreadsSound
    <2> QED BY <1>7, <2>1, EnterKeeps, VersionStays
<1> HIDE DEF one
<1>9. two \in Book /\ SoundBook(two) /\ two.version = 2
    <2>1. \/ lotto = None
          \/ lotto \in Position /\ (Bought(lotto) \/ Spread(lotto)) /\ Legs(lotto) \cap Held(one) = {}
        BY <1>4, LongOptionsSound
    <2> QED BY <1>8, <2>1, EnterKeeps, VersionStays
<1>10. optionBook' = [two EXCEPT !.last = optionDay]
    BY <1>4
<1> HIDE DEF two
<1> DEFINE c == [two EXCEPT !.last = optionDay]
<1>11. /\ c \in Book /\ c.version = 2 /\ c.open = two.open /\ c.cash = two.cash
       /\ c.realized = two.realized
    BY <1>1, <1>9 DEF Book
<1> HIDE DEF c
<1>12. SoundBook(c)
    BY <1>9, <1>11, SoundAlike
<1> QED
    BY <1>1, <1>10, <1>11, <1>12 DEF TypeOK, OptionsInv, c

-----------------------------------------------------------------------------
(* The specification.                                                      *)

LEMMA InitSound ==
    ASSUME MarketAssumption, LimitAssumption, Init
    PROVE  TypeOK /\ OptionsInv
<1>1. optionDay \in Nat
    BY DEF Init
<1>2. CASE optionBook = NewBook
    <2>1. NewBook.version = 2
        BY DEF NewBook
    <2> QED BY <1>1, <1>2, <2>1, NewBookSound DEF TypeOK, OptionsInv
<1>3. CASE optionBook \in OldBooks
    <2>1. optionBook \in Book /\ optionBook.version = 1
        BY <1>3, MigratedSound
    <2> QED BY <1>1, <1>3, <2>1 DEF TypeOK, OptionsInv
<1> QED
    BY <1>2, <1>3 DEF Init

LEMMA NextKeeps ==
    ASSUME MarketAssumption, LimitAssumption, TypeOK, OptionsInv, [Next]_optionVars
    PROVE  TypeOK' /\ OptionsInv'
<1>1. CASE Migrate
    <2> DEFINE c == [optionBook EXCEPT !.version = 2, !.open = {[p EXCEPT !.paid = -@, !.mark = -@] : p \in @}]
    <2>1. optionBook \in OldBooks /\ optionBook' = c /\ optionDay' = optionDay
        BY <1>1 DEF Migrate, OptionsInv
    <2>2. c \in Book /\ c.version = 2 /\ SoundBook(c)
        BY <2>1, MigratedSound
    <2> HIDE DEF c
    <2> QED BY <2>1, <2>2 DEF TypeOK, OptionsInv
<1>2. CASE Reinit
    <2>1. NewBook.version = 2
        BY DEF NewBook
    <2> QED BY <1>2, <2>1, NewBookSound DEF Reinit, TypeOK, OptionsInv
<1>3. CASE Tick
    BY <1>3, TickKeeps
<1>4. CASE NextDay
    <2>1. optionBook' = optionBook /\ optionDay' = optionDay + 1
        BY <1>4 DEF NextDay
    <2> QED BY <2>1 DEF TypeOK, OptionsInv
<1>5. CASE UNCHANGED optionVars
    <2>1. optionBook' = optionBook /\ optionDay' = optionDay
        BY <1>5 DEF optionVars
    <2> QED BY <2>1 DEF TypeOK, OptionsInv
<1> QED
    BY <1>1, <1>2, <1>3, <1>4, <1>5 DEF Next

\* A sound book loses at most what it has at risk, at any spot.
LEMMA SoundLosses ==
    ASSUME MarketAssumption, LimitAssumption, NEW b \in Book, SoundBook(b), NEW spot \in Nat
    PROVE  Losses(b, spot) <= Bankroll
<1> DEFINE S == b.open
           f == [p \in S |-> (p.paid - Settle(p, spot)) * p.qty]
           g == [p \in S |-> MaxLoss(p)]
<1>1. /\ IsFiniteSet(S)
      /\ \A p \in S : f[p] \in Int /\ g[p] \in Int /\ f[p] <= g[p]
    BY Holdings, Structure
<1>2. /\ Losses(b, spot) = SumFunctionOnSet(f, S) /\ Risk(b) = SumFunctionOnSet(g, S)
    BY DEF Losses, Risk, SumFunction
<1>3. Risk(b) <= Bankroll
    BY DEF SoundBook
<1> HIDE DEF f, g, S
<1>4. SumFunctionOnSet(f, S) <= SumFunctionOnSet(g, S)
    BY <1>1, SumLess
<1>5. SumFunctionOnSet(f, S) \in Int /\ SumFunctionOnSet(g, S) \in Int
    BY <1>1, SumInt
<1> QED
    BY <1>2, <1>3, <1>4, <1>5, Limits

\* The book a run keeps, of either version, has the right types
\* (options_paper_state.json).
THEOREM TypeCorrect ==
    ASSUME MarketAssumption, LimitAssumption
    PROVE  Spec => []TypeOK
<1>1. Init => TypeOK /\ OptionsInv
    BY InitSound
<1>2. TypeOK /\ OptionsInv /\ [Next]_optionVars => TypeOK' /\ OptionsInv'
    BY NextKeeps
<1> QED
    BY <1>1, <1>2, PTL DEF Spec

\* Wherever the underlyings expire, what is open loses at most the bankroll:
\* max_loss is the worst case of every structure the desk opens or migrates,
\* and the cap of _enter sees the positions opened earlier in the same tick.
THEOREM LossBounded ==
    ASSUME MarketAssumption, LimitAssumption
    PROVE  Spec => [](optionBook.version = 2 => \A spot \in Nat : Losses(optionBook, spot) <= Bankroll)
<1>1. Init => TypeOK /\ OptionsInv
    BY InitSound
<1>2. TypeOK /\ OptionsInv /\ [Next]_optionVars => TypeOK' /\ OptionsInv'
    BY NextKeeps
<1>3. TypeOK /\ OptionsInv => (optionBook.version = 2 => \A spot \in Nat : Losses(optionBook, spot) <= Bankroll)
    BY SoundLosses DEF TypeOK, OptionsInv
<1> QED
    BY <1>1, <1>2, <1>3, PTL DEF Spec

\* The losses at the strikes, and the cash: the bankroll, what was realized and
\* what the open positions cost, fees included (_open, _close_at, cmd_migrate).
THEOREM BookSound ==
    ASSUME MarketAssumption, LimitAssumption
    PROVE  Spec => []OptionsBookSound
<1>1. Init => TypeOK /\ OptionsInv
    BY InitSound
<1>2. TypeOK /\ OptionsInv /\ [Next]_optionVars => TypeOK' /\ OptionsInv'
    BY NextKeeps
<1>3. TypeOK /\ OptionsInv => OptionsBookSound
    <2> SUFFICES ASSUME TypeOK, OptionsInv, optionBook.version = 2
                 PROVE  /\ \A spot \in {0} \cup {Chain[c].strike : c \in DOMAIN Chain} :
                               Losses(optionBook, spot) <= Bankroll
                        /\ Explained(optionBook)
        BY DEF OptionsBookSound, RiskBounded, CashExplained
    <2>1. optionBook \in Book /\ SoundBook(optionBook)
        BY DEF TypeOK, OptionsInv
    <2>2. {0} \cup {Chain[c].strike : c \in DOMAIN Chain} \subseteq Nat
        BY IntrinsicNat
    <2>3. Explained(optionBook)
        BY <2>1 DEF SoundBook
    <2>4. \A spot \in Nat : Losses(optionBook, spot) <= Bankroll
        BY <2>1, SoundLosses
    <2> QED BY <2>2, <2>3, <2>4, Zenon
<1> QED
    BY <1>1, <1>2, <1>3, PTL DEF Spec

=============================================================================
