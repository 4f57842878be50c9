-------------------------- MODULE CryptoDeskProofs --------------------------
(* Theorems about CryptoDesk, for every value of its constants. *)
EXTENDS CryptoDesk, TLAPS

\* Booking an order keeps the books well-typed.
LEMMA BookOrderType ==
    ASSUME TypeOK, NEW b \in Books, NEW id \in OrderIds
    PROVE  BookOrder(b, id) \in Books
<1>1. orders[id].filled \in Int /\ orders[id].price \in Int
  BY DEF TypeOK, Order
<1>2. orders[id].filled * orders[id].price \in Int
  BY <1>1
<1>3. BookOrder(b, id).booked = [b.booked EXCEPT ![id] = @ + 1]
  BY DEF BookOrder, Books
<1>4. BookOrder(b, id).booked \in [OrderIds -> Nat]
  BY <1>3 DEF Books
<1>5. BookOrder(b, id).pos \in Int /\ BookOrder(b, id).cash \in Int
  BY <1>1, <1>2 DEF BookOrder, Books
<1>6. BookOrder(b, id) = [b EXCEPT !.pos = BookOrder(b, id).pos,
                                   !.cash = BookOrder(b, id).cash,
                                   !.booked = BookOrder(b, id).booked]
  BY DEF BookOrder, Books
<1> QED
  BY <1>4, <1>5, <1>6 DEF Books

\* The peak _persist saves is an amount.
LEMMA PeakType ==
    ASSUME NEW b \in Books, NEW p \in Int
    PROVE  PeakWith(b, p) \in Int
<1>1. b.pos * p \in Int
  BY DEF Books
<1> QED
  BY <1>1 DEF PeakWith, Equity, Books

\* Submitting an intent for a side keeps every variable well-typed.
LEMMA SubmitType ==
    ASSUME TypeOK, NEW side \in Sides, NEW qty \in Int, NEW mode \in Modes,
           NEW kill \in BOOLEAN, run.bar \in Bars, run.quote \in Prices,
           Submit(side, qty, mode, kill)
    PROVE  /\ mem' \in Books /\ disk' \in Dir /\ run' \in Runs
           /\ run'.bar \in Bars /\ run'.quote \in Prices /\ run'.id \in OrderIds
<1>1. <<side, run.bar>> \in OrderIds
  BY DEF OrderIds
<1>2. mem' \in Books
  BY <1>1 DEF Submit, TypeOK, Books
<1>3. disk' \in Dir
  BY <1>2 DEF Submit, TypeOK, Dir
<1>4. run' \in Runs
  BY <1>1 DEF Submit, TypeOK, Runs, Pcs
<1>5. run'.bar \in Bars /\ run'.quote \in Prices /\ run'.id \in OrderIds
  BY <1>1 DEF Submit, TypeOK, Runs
<1> QED
  BY <1>2, <1>3, <1>4, <1>5

\* Going to _persist without an order does too.
LEMMA GoPersistType ==
    ASSUME TypeOK, NEW handled \in BOOLEAN, GoPersist(handled), run.pc # "idle"
    PROVE  /\ mem' \in Books /\ run' \in Runs
           /\ run'.bar \in Bars /\ run'.quote \in Prices /\ run'.pc = "persist"
  BY DEF GoPersist, TypeOK, Runs, Pcs

\* Every variable keeps its type, in every step of every run.
THEOREM TypeCorrect == Spec => []TypeOK
<1>1. Init => TypeOK
  <2> SUFFICES ASSUME Init PROVE TypeOK
    OBVIOUS
  <2>1. price \in Nat
    BY PriceAssumption DEF Init
  <2>2. SeedQty * price \in Int
    BY <2>1, MoneyAssumption
  <2>3. mem \in Books
    BY <2>2, BarAssumption, MoneyAssumption DEF Init, Books
  <2>4. disk \in Dir /\ repo \in Dir
    BY <2>3 DEF Init, Dir
  <2>5. orders \in [OrderIds -> Order]
    BY DEF Init, Order
  <2>6. run \in Runs
    BY BarAssumption DEF Init, Idle, Runs, Pcs, Modes
  <2>7. 0 \in 0..MaxBar /\ 0 \in 0..MaxCrash /\ held \in Int
    BY BarAssumption, MoneyAssumption DEF Init
  <2>8. run.pc = "idle"
    BY DEF Init, Idle
  <2> QED
    BY <2>3, <2>4, <2>5, <2>6, <2>7, <2>8 DEF Init, TypeOK
<1>2. TypeOK /\ [Next]_vars => TypeOK'
  <2> SUFFICES ASSUME TypeOK, [Next]_vars PROVE TypeOK'
    OBVIOUS
  <2> USE BarAssumption, PriceAssumption, MoneyAssumption, FlagAssumption
  <2>1. CASE UNCHANGED vars
    BY <2>1 DEF TypeOK, vars
  <2>2. CASE Wake
    <3>1. bar \in Bars /\ price \in Int
      BY <2>2 DEF Wake, TypeOK, Bars
    <3>2. run' = [pc |-> "reconcile", bar |-> bar, quote |-> price, id |-> NoIntent,
                  qty |-> 0, mode |-> "trade", handled |-> FALSE, ok |-> TRUE]
      BY <2>2 DEF Wake, Idle
    <3>3. run' \in Runs
      BY <3>1, <3>2 DEF Runs, Pcs, Modes, TypeOK
    <3> QED
      BY <2>2, <3>1, <3>2, <3>3 DEF Wake, TypeOK, Dir
  <2>3. CASE ReconcileNothing
    BY <2>3 DEF ReconcileNothing, TypeOK, Runs, Pcs
  <2>4. CASE ReconcileDiscard
    BY <2>4 DEF ReconcileDiscard, TypeOK, Runs, Pcs, Dir, Books
  <2>5. CASE ReconcileOpen
    BY <2>5 DEF ReconcileOpen, TypeOK, Runs, Pcs
  <2>6. CASE ReconcileBook
    <3>1. mem.pending \in OrderIds
      BY <2>6 DEF ReconcileBook, TypeOK, Books
    <3>2. mem' \in Books
      BY <2>6, <3>1, BookOrderType DEF ReconcileBook, TypeOK, Books
    <3>3. disk' \in Dir
      BY <2>6, <3>1 DEF ReconcileBook, TypeOK, Dir
    <3> QED
      BY <2>6, <3>2, <3>3 DEF ReconcileBook, TypeOK, Runs, Pcs
  <2>7. CASE ReconcileSave
    BY <2>7 DEF ReconcileSave, TypeOK, Runs, Pcs, Dir
  <2>8. CASE DecideKilled
    <3>1. run.pc # "idle" /\ run.bar \in Bars /\ run.quote \in Prices
      BY <2>8 DEF DecideKilled, TypeOK
    <3>2. PICK qty \in {0, mem.pos} :
            IF qty > 0 THEN Submit("sell", qty, "flatten", TRUE)
                       ELSE GoPersist(FALSE) /\ UNCHANGED disk
      BY <2>8 DEF DecideKilled, Quantized
    <3>3. CASE qty > 0
      <4>1. qty \in Int
        BY DEF TypeOK, Books
      <4> QED
        BY <2>8, <3>1, <3>2, <3>3, <4>1, SubmitType
        DEF DecideKilled, TypeOK, Sides, Modes
    <3>4. CASE ~(qty > 0)
      BY <2>8, <3>1, <3>2, <3>4, GoPersistType DEF DecideKilled, TypeOK
    <3> QED
      BY <3>3, <3>4
  <2>9. CASE DecideSeen
    BY <2>9 DEF DecideSeen, TypeOK, Runs, Pcs
  <2>10. CASE DecideTrip
    <3>1. run.pc # "idle" /\ run.bar \in Bars /\ run.quote \in Prices
      BY <2>10 DEF DecideTrip, TypeOK
    <3>2. PICK qty \in {0, mem.pos} :
            IF qty > 0 THEN Submit("sell", qty, "trip", TRUE)
                       ELSE GoPersist(TRUE) /\ disk' = [disk EXCEPT !.kill = TRUE]
      BY <2>10 DEF DecideTrip, Quantized
    <3>3. CASE qty > 0
      <4>1. qty \in Int
        BY DEF TypeOK, Books
      <4> QED
        BY <2>10, <3>1, <3>2, <3>3, <4>1, SubmitType
        DEF DecideTrip, TypeOK, Sides, Modes
    <3>4. CASE ~(qty > 0)
      <4>1. disk' \in Dir
        BY <3>2, <3>4 DEF TypeOK, Dir
      <4> QED
        BY <2>10, <3>1, <3>2, <3>4, <4>1, GoPersistType DEF DecideTrip, TypeOK
    <3> QED
      BY <3>3, <3>4
  <2>11. CASE DecideTarget
    <3>1. run.pc # "idle" /\ run.bar \in Bars /\ run.quote \in Prices
      BY <2>11 DEF DecideTarget, TypeOK
    <3>2. \/ GoPersist(TRUE) /\ UNCHANGED disk
          \/ \E side \in Sides, qty \in Int : Submit(side, qty, "trade", FALSE)
      <4>1. PICK target \in Targets, stale \in BOOLEAN :
              LET delta == target - mem.pos * run.quote
                  side  == IF delta > 0 THEN "buy" ELSE "sell"
                  size  == IF delta > 0 THEN Buyable(delta) ELSE Sellable(-delta)
                  hold  == delta < MinTrade /\ -delta < MinTrade
              IN  IF hold THEN GoPersist(TRUE) /\ UNCHANGED disk
                  ELSE \E qty \in Quantized(size) :
                         IF qty <= 0 \/ qty * run.quote < MinTrade
                            \/ Blocked(side, qty * run.quote, stale)
                         THEN GoPersist(TRUE) /\ UNCHANGED disk
                         ELSE Submit(side, qty, "trade", FALSE)
        BY <2>11 DEF DecideTarget
      <4>2. run.quote \in Nat \ {0} /\ mem.pos \in Int /\ mem.cash \in Int
        BY <3>1 DEF TypeOK, Books
      <4>3. \A usd \in Int : Buyable(usd) \in Int /\ Sellable(usd) \in Int
        BY <4>2 DEF Buyable, Sellable
      <4>4. target - mem.pos * run.quote \in Int
        BY <4>2
      <4> DEFINE delta == target - mem.pos * run.quote
                 size  == IF delta > 0 THEN Buyable(delta) ELSE Sellable(-delta)
      <4>5. delta \in Int /\ -delta \in Int
        BY <4>4
      <4>6. size \in Int
        BY <4>3, <4>5
      <4>7. \A qty \in Quantized(size) : qty \in Int
        BY <4>6 DEF Quantized
      <4> QED
        BY <4>1, <4>7 DEF Sides
    <3> QED
      BY <2>11, <3>1, <3>2, SubmitType, GoPersistType
      DEF DecideTarget, TypeOK, Modes
  <2>12. CASE PostAccepted
    <3>1. PICK seen \in BOOLEAN :
            orders' = [orders EXCEPT ![run.id] = [state |-> "open", seen |-> seen,
                          qty |-> run.qty, filled |-> 0, price |-> 0]]
      BY <2>12 DEF PostAccepted
    <3>2. [state |-> "open", seen |-> seen, qty |-> run.qty, filled |-> 0,
           price |-> 0] \in Order
      BY DEF TypeOK, Runs, Order
    <3>3. orders' \in [OrderIds -> Order]
      BY <3>1, <3>2 DEF TypeOK
    <3> QED
      BY <2>12, <3>3 DEF PostAccepted, TypeOK, Runs, Pcs
  <2>13. CASE PostDuplicate
    BY <2>13 DEF PostDuplicate, TypeOK, Runs, Pcs
  <2>14. CASE PostRefused
    BY <2>14 DEF PostRefused, TypeOK, Runs, Pcs, Dir, Books
  <2>15. CASE PollBook
    <3>1. run.id \in OrderIds
      BY <2>15 DEF PollBook, TypeOK
    <3>2. mem' \in Books
      BY <2>15, <3>1, BookOrderType DEF PollBook, TypeOK, Books
    <3>3. disk' \in Dir
      BY <2>15, <3>1 DEF PollBook, TypeOK, Dir
    <3> QED
      BY <2>15, <3>2, <3>3 DEF PollBook, TypeOK, Runs, Pcs
  <2>16. CASE PollTimeout
    BY <2>16 DEF PollTimeout, TypeOK, Runs, Pcs
  <2>17. CASE Persist
    <3>1. PeakWith(mem, run.quote) \in Int
      BY PeakType DEF TypeOK, Runs
    <3>2. mem' \in Books
      BY <2>17, <3>1 DEF Persist, TypeOK, Books, Runs
    <3> QED
      BY <2>17, <3>2 DEF Persist, TypeOK, Runs, Pcs, Dir
  <2>18. CASE Commit
    BY <2>18 DEF Commit, TypeOK, Runs, Idle, Pcs, Modes
  <2>19. CASE SkipCommit
    BY <2>19 DEF SkipCommit, LeftBehind, TypeOK, Runs, Idle, Pcs, Modes, Dir
  <2>20. CASE Crash
    BY <2>20 DEF Crash, LeftBehind, TypeOK, Runs, Idle, Pcs, Modes, Dir
  <2>21. CASE Venue
    <3>1. PICK id \in OrderIds : VenueFinish(id) \/ VenueShow(id)
      BY <2>21 DEF Venue
    <3>2. CASE VenueFinish(id)
      <4>1. orders[id].qty \in Int
        BY <3>1 DEF TypeOK, Order
      <4>2. PICK units \in 0..orders[id].qty, p \in Prices :
              /\ orders' = [orders EXCEPT ![id].state = "terminal",
                                          ![id].filled = units, ![id].price = p]
              /\ held' = IF Side(id) = "buy" THEN held + units ELSE held - units
        BY <3>2 DEF VenueFinish
      <4>3. units \in Int /\ p \in Int
        BY <4>1
      <4>4. [orders[id] EXCEPT !.state = "terminal", !.filled = units, !.price = p]
              \in Order
        <5>1. orders[id] \in Order
          BY DEF TypeOK
        <5> QED
          BY <4>3, <5>1 DEF Order
      <4>5. orders' \in [OrderIds -> Order]
        BY <4>2, <4>4 DEF TypeOK
      <4>6. held' \in Int
        BY <4>2, <4>3 DEF TypeOK
      <4> QED
        BY <3>2, <4>5, <4>6 DEF VenueFinish, TypeOK
    <3>3. CASE VenueShow(id)
      BY <3>3 DEF VenueShow, TypeOK, Order
    <3> QED
      BY <3>1, <3>2, <3>3
  <2>22. CASE NextBar
    BY <2>22 DEF NextBar, TypeOK
  <2>23. CASE OperatorKill
    BY <2>23 DEF OperatorKill, TypeOK, Dir
  <2> QED
    BY <2>1, <2>2, <2>3, <2>4, <2>5, <2>6, <2>7, <2>8, <2>9, <2>10, <2>11, <2>12,
       <2>13, <2>14, <2>15, <2>16, <2>17, <2>18, <2>19, <2>20, <2>21, <2>22, <2>23
    DEF Next, Engine, Reconcile, Decide, SubmitAndBook
<1> QED
  BY <1>1, <1>2, PTL DEF Spec

\* NoIntent is no order.
LEMMA NoIntentIsNoOrder == NoIntent \notin OrderIds
<1>1. 0 \notin Bars
  BY BarAssumption DEF Bars
<1> QED
  BY <1>1 DEF NoIntent, OrderIds, Sides

\* Booking the pending order of a sound copy and dropping the intent leaves the
\* other orders alone and the copy sound.
LEMMA BookPending ==
    ASSUME TypeOK, NEW b \in Books, b.pending \in OrderIds, CopySound(b),
           NEW c, c = [BookOrder(b, b.pending) EXCEPT !.pending = NoIntent]
    PROVE  /\ CopySound(c)
           /\ c.pending = NoIntent
           /\ \A id \in OrderIds : id # b.pending => c.booked[id] = b.booked[id]
<1>1. BookOrder(b, b.pending) \in Books
  BY BookOrderType
<1>2. c.pending = NoIntent /\ c.booked = BookOrder(b, b.pending).booked
  BY <1>1 DEF Books
<1>3. BookOrder(b, b.pending).booked = [b.booked EXCEPT ![b.pending] = @ + 1]
  BY DEF BookOrder, Books
<1>4. b.booked \in [OrderIds -> Nat]
  BY DEF Books
<1>5. b.booked[b.pending] = 0 /\ b.pending[2] <= lastWake
  BY NoIntentIsNoOrder DEF CopySound
<1>6. b.pending[2] \in Int /\ lastWake \in Int
  BY DEF OrderIds, Bars, TypeOK
<1>7. \A id \in OrderIds : c.booked[id] = IF id = b.pending THEN 1 ELSE b.booked[id]
  BY <1>2, <1>3, <1>4, <1>5
<1>8. ~(b.pending[2] > lastWake)
  BY <1>5, <1>6
<1> QED
  BY <1>2, <1>7, <1>8 DEF CopySound

\* The copies of the books stay sound if no bar is run twice: engine.py rule 3
\* in the inductive form.
LEMMA BookingInvariant ==
    ASSUME Reruns = "never"
    PROVE  Spec => []BookingInv
<1>1. Init => BookingInv
  <2> SUFFICES ASSUME Init PROVE BookingInv
    OBVIOUS
  <2>1. CopySound(mem)
    BY DEF Init, CopySound
  <2>2. run.pc = "idle" /\ disk.books = mem /\ repo.books = mem
    BY DEF Init, Idle
  <2> QED
    BY <2>1, <2>2 DEF BookingInv
<1>2. TypeOK /\ BookingInv /\ [Next]_vars => BookingInv'
  <2> SUFFICES ASSUME TypeOK, BookingInv, [Next]_vars PROVE BookingInv'
    OBVIOUS
  <2> USE NoIntentIsNoOrder
  <2>1. CASE UNCHANGED vars
    BY <2>1 DEF BookingInv, CopySound, vars
  <2>2. CASE Wake
    <3>1. bar > lastWake /\ lastWake' = bar /\ mem' = disk.books
          /\ disk' = disk /\ repo' = repo
      BY <2>2 DEF Wake
    <3>2. run'.pc = "reconcile" /\ run'.bar = bar
      BY <2>2 DEF Wake, Idle
    <3>3. bar \in Int /\ lastWake \in Int /\ \A id \in OrderIds : id[2] \in Int
      BY DEF TypeOK, OrderIds, Bars
    <3>4. ASSUME NEW b \in {mem, disk.books, repo.books}
          PROVE  /\ \A id \in OrderIds : b.booked[id] <= 1
                 /\ \A id \in OrderIds : id[2] >= bar => b.booked[id] = 0
                 /\ b.pending # NoIntent =>
                      b.booked[b.pending] = 0 /\ b.pending[2] < bar
      <4>1. b \in Books /\ CopySound(b)
        BY DEF BookingInv, TypeOK, Dir
      <4> QED
        BY <4>1, <3>1, <3>3 DEF CopySound, Books
    <3>5. CopySound(mem)' /\ CopySound(disk.books)' /\ CopySound(repo.books)'
      <4>1. \A id \in OrderIds : id[2] > bar => id[2] >= bar
        BY <3>3
      <4>2. disk.books.pending # NoIntent => disk.books.pending[2] <= bar
        BY <3>4, <3>3 DEF TypeOK, Dir, Books
      <4>3. repo.books.pending # NoIntent => repo.books.pending[2] <= bar
        BY <3>4, <3>3 DEF TypeOK, Dir, Books
      <4> QED
        BY <3>1, <3>4, <4>1, <4>2, <4>3 DEF CopySound
    <3>6. \A id \in OrderIds : id[2] = run'.bar => mem'.booked[id] = 0
      BY <3>1, <3>2, <3>3, <3>4
    <3>7. mem'.pending # NoIntent => mem'.pending[2] # run'.bar
      BY <3>1, <3>2, <3>3, <3>4 DEF TypeOK, Dir, Books
    <3> QED
      BY <3>1, <3>2, <3>5, <3>6, <3>7 DEF BookingInv
  <2>3. CASE ReconcileNothing
    BY <2>3 DEF ReconcileNothing, BookingInv, CopySound
  <2>4. CASE ReconcileDiscard
    <3>1. mem' = [mem EXCEPT !.pending = NoIntent] /\ disk'.books = mem'
          /\ repo' = repo /\ lastWake' = lastWake
          /\ run' = [run EXCEPT !.pc = "decide"] /\ run.pc = "reconcile"
      BY <2>4 DEF ReconcileDiscard, TypeOK, Dir
    <3>2. mem'.booked = mem.booked /\ mem'.pending = NoIntent
      BY <3>1 DEF TypeOK, Books
    <3>3. run'.pc = "decide" /\ run'.bar = run.bar
      BY <3>1 DEF TypeOK, Runs
    <3> QED
      BY <3>1, <3>2, <3>3 DEF BookingInv, CopySound
  <2>5. CASE ReconcileOpen
    BY <2>5 DEF ReconcileOpen, BookingInv, CopySound, TypeOK, Runs
  <2>6. CASE ReconcileBook
    <3>1. mem.pending \in OrderIds /\ mem \in Books /\ CopySound(mem)
      BY <2>6 DEF ReconcileBook, BookingInv, TypeOK, Books
    <3>2. mem' = [BookOrder(mem, mem.pending) EXCEPT !.pending = NoIntent]
      BY <2>6 DEF ReconcileBook
    <3>3. /\ CopySound(mem') /\ mem'.pending = NoIntent
          /\ \A id \in OrderIds : id # mem.pending => mem'.booked[id] = mem.booked[id]
      BY <3>1, <3>2, BookPending
    <3>4. lastWake' = lastWake /\ repo' = repo /\ disk'.books = disk.books
          /\ run'.pc = "reconcileSave" /\ run'.bar = run.bar /\ run.pc = "reconcile"
      BY <2>6 DEF ReconcileBook, TypeOK, Dir, Runs
    <3>5. \A id \in OrderIds : id[2] = run'.bar => mem'.booked[id] = 0
      BY <3>1, <3>3, <3>4 DEF BookingInv
    <3> QED
      BY <3>3, <3>4, <3>5 DEF BookingInv, CopySound
  <2>7. CASE ReconcileSave
    <3>1. disk'.books = mem /\ mem' = mem /\ repo' = repo /\ lastWake' = lastWake
          /\ run'.pc = "decide" /\ run'.bar = run.bar /\ run.pc = "reconcileSave"
      BY <2>7 DEF ReconcileSave, TypeOK, Dir, Runs
    <3> QED
      BY <3>1 DEF BookingInv, CopySound
  <2>8. ASSUME NEW side \in Sides, NEW qty, NEW mode, NEW kill,
               Submit(side, qty, mode, kill), run.pc = "decide",
               UNCHANGED <<repo, lastWake>>
        PROVE  BookingInv'
    <3>1. <<side, run.bar>> \in OrderIds /\ run.bar = lastWake /\ run.bar \in Int
      BY <2>8 DEF OrderIds, TypeOK, BookingInv, Bars
    <3>2. mem' = [mem EXCEPT !.pending = <<side, run.bar>>] /\ disk'.books = mem'
          /\ run'.pc = "post" /\ run'.id = <<side, run.bar>> /\ run'.bar = run.bar
      BY <2>8 DEF Submit, TypeOK, Dir, Runs
    <3>3. mem'.booked = mem.booked /\ mem'.pending = <<side, run.bar>>
      BY <3>2 DEF TypeOK, Books
    <3>4. mem.booked[<<side, run.bar>>] = 0
      BY <2>8, <3>1 DEF BookingInv
    <3> QED
      BY <2>8, <3>1, <3>2, <3>3, <3>4 DEF BookingInv, CopySound
  <2>9. ASSUME NEW handled, GoPersist(handled), disk'.books = disk.books,
               UNCHANGED <<repo, lastWake>>, run.pc = "decide"
        PROVE  BookingInv'
    <3>1. run'.pc = "persist" /\ run'.bar = run.bar /\ mem' = mem
      BY <2>9 DEF GoPersist, TypeOK, Runs
    <3> QED
      BY <2>9, <3>1 DEF BookingInv, CopySound
  <2>10. CASE DecideKilled
    <3>1. PICK qty \in IF mem.pos * run.quote >= MinTrade THEN Quantized(mem.pos)
                       ELSE {0} :
            IF qty > 0 THEN Submit("sell", qty, "flatten", TRUE)
                       ELSE GoPersist(FALSE) /\ UNCHANGED disk
      BY <2>10 DEF DecideKilled
    <3> QED
      BY <2>8, <2>9, <2>10, <3>1 DEF DecideKilled, Sides
  <2>11. CASE DecideSeen
    BY <2>11 DEF DecideSeen, BookingInv, CopySound, TypeOK, Runs
  <2>12. CASE DecideTrip
    <3>1. PICK qty \in Quantized(mem.pos) :
            IF qty > 0 THEN Submit("sell", qty, "trip", TRUE)
                       ELSE GoPersist(TRUE) /\ disk' = [disk EXCEPT !.kill = TRUE]
      BY <2>12 DEF DecideTrip
    <3>2. disk' = [disk EXCEPT !.kill = TRUE] => disk'.books = disk.books
      BY DEF TypeOK, Dir
    <3> QED
      BY <2>8, <2>9, <2>12, <3>1, <3>2 DEF DecideTrip, Sides
  <2>13. CASE DecideTarget
    <3>1. \/ GoPersist(TRUE) /\ UNCHANGED disk
          \/ \E side \in Sides : \E qty : Submit(side, qty, "trade", FALSE)
      BY <2>13 DEF DecideTarget, Sides
    <3> QED
      BY <2>8, <2>9, <2>13, <3>1 DEF DecideTarget
  <2>14. CASE PostAccepted
    BY <2>14 DEF PostAccepted, BookingInv, CopySound, TypeOK, Runs
  <2>15. CASE PostDuplicate
    BY <2>15 DEF PostDuplicate, BookingInv, CopySound, TypeOK, Runs
  <2>16. CASE PostRefused
    <3>1. mem' = [mem EXCEPT !.pending = NoIntent] /\ disk'.books = mem'
          /\ repo' = repo /\ lastWake' = lastWake
          /\ run'.pc = "persist" /\ run'.bar = run.bar /\ run.pc = "post"
      BY <2>16 DEF PostRefused, TypeOK, Dir, Runs
    <3>2. mem'.booked = mem.booked /\ mem'.pending = NoIntent
      BY <3>1 DEF TypeOK, Books
    <3> QED
      BY <3>1, <3>2 DEF BookingInv, CopySound
  <2>17. CASE PollBook
    <3>1. mem.pending \in OrderIds /\ mem \in Books /\ CopySound(mem)
          /\ mem.pending = run.id
      BY <2>17 DEF PollBook, BookingInv, TypeOK
    <3>2. mem' = [BookOrder(mem, mem.pending) EXCEPT !.pending = NoIntent]
      BY <2>17, <3>1 DEF PollBook
    <3>3. CopySound(mem')
      BY <3>1, <3>2, BookPending
    <3>4. lastWake' = lastWake /\ repo' = repo /\ disk'.books = disk.books
          /\ run'.pc = "persist" /\ run'.bar = run.bar /\ run.pc = "poll"
      BY <2>17 DEF PollBook, TypeOK, Dir, Runs
    <3> QED
      BY <3>3, <3>4 DEF BookingInv, CopySound
  <2>18. CASE PollTimeout
    BY <2>18 DEF PollTimeout, BookingInv, CopySound, TypeOK, Runs
  <2>19. CASE Persist
    <3>1. mem'.booked = mem.booked /\ mem'.pending = mem.pending
      BY <2>19 DEF Persist, TypeOK, Books
    <3>2. disk'.books = mem' /\ repo' = repo /\ lastWake' = lastWake
          /\ run'.pc = "exit" /\ run'.bar = run.bar /\ run.pc = "persist"
      BY <2>19 DEF Persist, TypeOK, Dir, Runs
    <3> QED
      BY <3>1, <3>2 DEF BookingInv, CopySound
  <2>20. CASE Commit
    BY <2>20 DEF Commit, BookingInv, CopySound, Idle
  <2>21. CASE SkipCommit
    BY <2>21 DEF SkipCommit, LeftBehind, BookingInv, CopySound, Idle
  <2>22. CASE Crash
    BY <2>22 DEF Crash, LeftBehind, BookingInv, CopySound, Idle
  <2>23. CASE Venue
    <3>1. UNCHANGED <<disk, repo, mem, run, lastWake>>
      BY <2>23 DEF Venue, VenueFinish, VenueShow
    <3> QED
      BY <3>1 DEF BookingInv, CopySound
  <2>24. CASE NextBar
    BY <2>24 DEF NextBar, BookingInv, CopySound
  <2>25. CASE OperatorKill
    <3>1. disk'.books = disk.books /\ repo'.books = repo.books
          /\ UNCHANGED <<mem, run, lastWake>>
      BY <2>25 DEF OperatorKill, TypeOK, Dir
    <3> QED
      BY <3>1 DEF BookingInv, CopySound
  <2> QED
    BY <2>1, <2>2, <2>3, <2>4, <2>5, <2>6, <2>7, <2>10, <2>11, <2>12, <2>13, <2>14,
       <2>15, <2>16, <2>17, <2>18, <2>19, <2>20, <2>21, <2>22, <2>23, <2>24, <2>25
    DEF Next, Engine, Reconcile, Decide, SubmitAndBook
<1> QED
  BY <1>1, <1>2, TypeCorrect, PTL DEF Spec

\* Rule 3 for every number of bars, every price and target, every crash, both
\* kinds of disk and with or without lag: if no bar is run twice, no order is
\* booked twice.
THEOREM OrdersBookedOnce ==
    ASSUME Reruns = "never"
    PROVE  Spec => []BookedOnce
<1>1. BookingInv => BookedOnce
  BY DEF BookingInv, BookedOnce, CopySound
<1> QED
  BY <1>1, BookingInvariant, PTL

\* On a disk that survives, with a venue that lists what it accepted, memory and
\* disk each know every order: engine.py rule 2 in the inductive form.
LEMMA CoverInvariant ==
    ASSUME ~EphemeralDisk, ~VisibilityLag
    PROVE  Spec => []CoverInv
<1>1. Init => CoverInv
  BY DEF Init, CoverInv, Covers, Absent, Idle
<1>2. TypeOK /\ CoverInv /\ [Next]_vars => CoverInv'
  <2> SUFFICES ASSUME TypeOK, CoverInv, [Next]_vars PROVE CoverInv'
    OBVIOUS
  <2> USE NoIntentIsNoOrder DEF Absent
  <2>1. CASE UNCHANGED vars
    BY <2>1 DEF CoverInv, Covers, vars
  <2>2. CASE Wake
    BY <2>2 DEF Wake, CoverInv, Covers, Idle
  <2>3. CASE ReconcileNothing
    BY <2>3 DEF ReconcileNothing, CoverInv, Covers, TypeOK, Runs
  <2>4. ASSUME NEW id \in OrderIds, ~Visible(id), mem.pending = id,
               mem' = [mem EXCEPT !.pending = NoIntent],
               disk' = [disk EXCEPT !.books = mem'],
               UNCHANGED orders, run.pc # "idle", run'.pc \in {"decide", "persist"}
        PROVE  CoverInv'
    <3>1. orders[id].state = "absent"
      BY <2>4 DEF Visible, CoverInv
    <3>2. mem'.booked = mem.booked /\ mem'.pending = NoIntent /\ disk'.books = mem'
      BY <2>4 DEF TypeOK, Books, Dir
    <3>3. ASSUME NEW j \in OrderIds, orders[j].state # "absent"
          PROVE  mem.booked[j] # 0
      BY <2>4, <3>1, <3>3 DEF CoverInv, Covers
    <3>4. Covers(mem') /\ Covers(disk'.books)
      BY <3>2, <3>3 DEF Covers
    <3>5. Covers(mem)' /\ Covers(disk.books)'
      BY <2>4, <3>4 DEF Covers
    <3> QED
      BY <2>4, <3>2, <3>5 DEF CoverInv
  <2>5. CASE ReconcileDiscard
    BY <2>4, <2>5 DEF ReconcileDiscard, TypeOK, Books, Runs
  <2>6. CASE ReconcileOpen
    BY <2>6 DEF ReconcileOpen, CoverInv, Covers, TypeOK, Runs
  <2>7. ASSUME NEW id \in OrderIds, mem.pending = id, run.pc # "idle",
               mem' = [BookOrder(mem, id) EXCEPT !.pending = NoIntent],
               disk' = [disk EXCEPT !.log[id] = @ + 1],
               UNCHANGED orders, run'.pc \in {"reconcileSave", "persist"}
        PROVE  CoverInv'
    <3>1. mem \in Books /\ BookOrder(mem, id) \in Books
      BY <2>7, BookOrderType DEF TypeOK
    <3>2. mem'.pending = NoIntent /\ mem'.booked = [mem.booked EXCEPT ![id] = @ + 1]
      BY <2>7, <3>1 DEF BookOrder, Books
    <3>3. \A j \in OrderIds : mem'.booked[j] = 0 => j # id /\ mem.booked[j] = 0
      BY <3>1, <3>2 DEF Books
    <3>4. disk'.books = disk.books
      BY <2>7 DEF TypeOK, Dir
    <3>5. Covers(mem)'
      BY <2>7, <3>3 DEF CoverInv, Covers
    <3> QED
      BY <2>7, <3>4, <3>5 DEF CoverInv, Covers
  <2>8. CASE ReconcileBook
    BY <2>7, <2>8 DEF ReconcileBook, TypeOK, Books, Runs
  <2>9. CASE ReconcileSave
    <3>1. disk'.books = mem /\ mem' = mem /\ run'.pc = "decide" /\ orders' = orders
      BY <2>9 DEF ReconcileSave, TypeOK, Dir, Runs
    <3> QED
      BY <2>9, <3>1 DEF ReconcileSave, CoverInv, Covers
  <2>10. ASSUME NEW side \in Sides, NEW qty, NEW mode, NEW kill,
                Submit(side, qty, mode, kill), run.pc = "decide", UNCHANGED orders
         PROVE  CoverInv'
    <3>1. mem' = [mem EXCEPT !.pending = <<side, run.bar>>] /\ disk'.books = mem'
          /\ run'.pc = "post" /\ run'.id = <<side, run.bar>>
      BY <2>10 DEF Submit, TypeOK, Dir, Runs
    <3>2. mem'.booked = mem.booked /\ mem'.pending = <<side, run.bar>>
      BY <3>1 DEF TypeOK, Books
    <3>3. \A j \in OrderIds : orders[j].state # "absent" => mem.booked[j] # 0
      BY <2>10 DEF CoverInv, Covers
    <3> QED
      BY <2>10, <3>1, <3>2, <3>3 DEF CoverInv, Covers
  <2>11. ASSUME NEW handled, GoPersist(handled), disk'.books = disk.books,
                UNCHANGED orders, run.pc = "decide"
         PROVE  CoverInv'
    <3>1. run'.pc = "persist" /\ mem' = mem
      BY <2>11 DEF GoPersist, TypeOK, Runs
    <3> QED
      BY <2>11, <3>1 DEF CoverInv, Covers
  <2>12. CASE DecideKilled
    <3>1. PICK qty \in IF mem.pos * run.quote >= MinTrade THEN Quantized(mem.pos)
                       ELSE {0} :
            IF qty > 0 THEN Submit("sell", qty, "flatten", TRUE)
                       ELSE GoPersist(FALSE) /\ UNCHANGED disk
      BY <2>12 DEF DecideKilled
    <3> QED
      BY <2>10, <2>11, <2>12, <3>1 DEF DecideKilled, Sides
  <2>13. CASE DecideSeen
    BY <2>13 DEF DecideSeen, CoverInv, Covers, TypeOK, Runs
  <2>14. CASE DecideTrip
    <3>1. PICK qty \in Quantized(mem.pos) :
            IF qty > 0 THEN Submit("sell", qty, "trip", TRUE)
                       ELSE GoPersist(TRUE) /\ disk' = [disk EXCEPT !.kill = TRUE]
      BY <2>14 DEF DecideTrip
    <3>2. disk' = [disk EXCEPT !.kill = TRUE] => disk'.books = disk.books
      BY DEF TypeOK, Dir
    <3> QED
      BY <2>10, <2>11, <2>14, <3>1, <3>2 DEF DecideTrip, Sides
  <2>15. CASE DecideTarget
    <3>1. \/ GoPersist(TRUE) /\ UNCHANGED disk
          \/ \E side \in Sides : \E qty : Submit(side, qty, "trade", FALSE)
      BY <2>15 DEF DecideTarget, Sides
    <3> QED
      BY <2>10, <2>11, <2>15, <3>1 DEF DecideTarget
  <2>16. CASE PostAccepted
    <3>1. run.id \in OrderIds /\ mem.pending = run.id /\ disk.books.pending = run.id
      BY <2>16 DEF PostAccepted, CoverInv, TypeOK
    <3>2. orders' = [orders EXCEPT ![run.id] = [state |-> "open", seen |-> TRUE,
                        qty |-> run.qty, filled |-> 0, price |-> 0]]
      BY <2>16 DEF PostAccepted
    <3>3. /\ orders'[run.id].seen
          /\ \A j \in OrderIds : j # run.id => orders'[j] = orders[j]
      BY <3>1, <3>2 DEF TypeOK
    <3>4. run'.pc = "poll" /\ run'.id = run.id /\ mem' = mem /\ disk' = disk
      BY <2>16 DEF PostAccepted, TypeOK, Runs
    <3> QED
      BY <2>16, <3>1, <3>3, <3>4 DEF PostAccepted, CoverInv, Covers
  <2>17. CASE PostDuplicate
    BY <2>17 DEF PostDuplicate, CoverInv, Covers, TypeOK, Runs
  <2>18. CASE PostRefused
    <3>1. run.id \in OrderIds /\ mem.pending = run.id
      BY <2>18 DEF PostRefused, CoverInv, TypeOK
    <3>2. run'.pc = "persist" /\ run.pc # "idle"
      BY <2>18 DEF PostRefused, TypeOK, Runs
    <3> QED
      BY <2>4, <2>18, <3>1, <3>2 DEF PostRefused
  <2>19. CASE PollBook
    <3>1. run.id \in OrderIds /\ mem.pending = run.id
      BY <2>19 DEF PollBook, CoverInv, TypeOK
    <3>2. run'.pc = "persist" /\ run.pc # "idle"
      BY <2>19 DEF PollBook, TypeOK, Runs
    <3> QED
      BY <2>7, <2>19, <3>1, <3>2 DEF PollBook
  <2>20. CASE PollTimeout
    BY <2>20 DEF PollTimeout, CoverInv, Covers, TypeOK, Runs
  <2>21. CASE Persist
    <3>1. mem'.booked = mem.booked /\ mem'.pending = mem.pending
      BY <2>21 DEF Persist, TypeOK, Books
    <3>2. disk'.books = mem' /\ run'.pc = "exit" /\ run.pc # "idle" /\ orders' = orders
      BY <2>21 DEF Persist, TypeOK, Dir, Runs
    <3> QED
      BY <3>1, <3>2 DEF CoverInv, Covers
  <2>22. CASE Commit
    BY <2>22 DEF Commit, CoverInv, Covers, Idle
  <2>23. CASE SkipCommit
    BY <2>23 DEF SkipCommit, LeftBehind, CoverInv, Covers, Idle
  <2>24. CASE Crash
    BY <2>24 DEF Crash, LeftBehind, CoverInv, Covers, Idle
  <2>25. CASE Venue
    <3>1. PICK id \in OrderIds : VenueFinish(id) \/ VenueShow(id)
      BY <2>25 DEF Venue
    <3>2. \A j \in OrderIds : /\ orders[j].state = "absent" <=> orders'[j].state = "absent"
                              /\ orders[j].seen => orders'[j].seen
      <4>1. CASE VenueFinish(id)
        <5>1. PICK units \in 0..orders[id].qty, p \in Prices :
                orders' = [orders EXCEPT ![id].state = "terminal",
                                         ![id].filled = units, ![id].price = p]
          BY <4>1 DEF VenueFinish
        <5>2. \A j \in OrderIds : j # id => orders'[j] = orders[j]
          BY <5>1 DEF TypeOK
        <5>3. orders'[id].state = "terminal" /\ orders'[id].seen = orders[id].seen
          BY <5>1 DEF TypeOK, Order
        <5>4. orders[id].state = "open"
          BY <4>1 DEF VenueFinish
        <5> QED
          BY <5>2, <5>3, <5>4
      <4>2. CASE VenueShow(id)
        BY <4>2 DEF VenueShow, TypeOK, Order
      <4> QED
        BY <3>1, <4>1, <4>2
    <3>3. UNCHANGED <<disk, mem, run>>
      BY <3>1 DEF VenueFinish, VenueShow
    <3>4. \A j \in OrderIds : orders'[j].state # "absent" => orders'[j].seen
      BY <3>2 DEF CoverInv
    <3>5. Covers(disk.books)' /\ (run.pc # "idle" => Covers(mem))'
      BY <3>2, <3>3 DEF CoverInv, Covers
    <3> QED
      BY <3>3, <3>4, <3>5 DEF CoverInv
  <2>26. CASE NextBar
    BY <2>26 DEF NextBar, CoverInv, Covers
  <2>27. CASE OperatorKill
    <3>1. disk'.books = disk.books /\ UNCHANGED <<mem, run, orders>>
      BY <2>27 DEF OperatorKill, TypeOK, Dir
    <3> QED
      BY <3>1 DEF CoverInv, Covers
  <2> QED
    BY <2>1, <2>2, <2>3, <2>5, <2>6, <2>8, <2>9, <2>12, <2>13, <2>14, <2>15, <2>16,
       <2>17, <2>18, <2>19, <2>20, <2>21, <2>22, <2>23, <2>24, <2>25, <2>26, <2>27
    DEF Next, Engine, Reconcile, Decide, SubmitAndBook
<1> QED
  BY <1>1, <1>2, TypeCorrect, PTL DEF Spec

\* Rule 2 for every number of crashes and any schedule of runs: on a disk that
\* survives, with a venue that lists what it accepted, the order the books lack
\* is always the one the disk names as pending.
THEOREM NoOrderOrphaned ==
    ASSUME ~EphemeralDisk, ~VisibilityLag
    PROVE  Spec => []NoOrphanOrder
<1>1. CoverInv => NoOrphanOrder
  BY DEF CoverInv, Covers, NoOrphanOrder
<1> QED
  BY <1>1, CoverInvariant, PTL
\* book_order's row comes before the save of the books, so no crash, rollback or
\* retry leaves a booked order without its row in trade_log.csv.
THEOREM EveryBookingLogged == Spec => []TradeLogCoversBooks
<1>1. Init => LogInv
  BY DEF Init, LogInv, LogCovers
<1>2. TypeOK /\ LogInv /\ [Next]_vars => LogInv'
  <2> SUFFICES ASSUME TypeOK, LogInv, [Next]_vars PROVE LogInv'
    OBVIOUS
  <2>1. ASSUME disk'.books = disk.books, disk'.log = disk.log, repo'.books = repo.books,
               repo'.log = repo.log, run'.pc # "idle" => run.pc # "idle" /\ mem' = mem
        PROVE  LogInv'
    BY <2>1 DEF LogInv, LogCovers
  \* The books are saved as memory has them; the log stays.
  <2>2. ASSUME disk'.books = mem', mem'.booked = mem.booked, disk'.log = disk.log,
               repo' = repo, run.pc # "idle"
        PROVE  LogInv'
    BY <2>2 DEF LogInv, LogCovers
  \* An order is booked in memory and its row is written.
  <2>3. ASSUME NEW id \in OrderIds, run.pc # "idle", repo' = repo,
               mem' = [BookOrder(mem, id) EXCEPT !.pending = NoIntent],
               disk' = [disk EXCEPT !.log[id] = @ + 1]
        PROVE  LogInv'
    <3>1. mem \in Books /\ BookOrder(mem, id) \in Books
      BY <2>3, BookOrderType DEF TypeOK
    <3>2. mem'.booked = [mem.booked EXCEPT ![id] = @ + 1]
      BY <2>3, <3>1 DEF BookOrder, Books
    <3>3. disk'.books = disk.books /\ disk'.log = [disk.log EXCEPT ![id] = @ + 1]
      BY <2>3 DEF TypeOK, Dir
    <3>4. /\ mem.booked \in [OrderIds -> Nat] /\ disk.log \in [OrderIds -> Nat]
          /\ disk.books.booked \in [OrderIds -> Nat]
      BY DEF TypeOK, Dir, Books
    <3>5. LogCovers(mem', disk'.log)
      BY <2>3, <3>2, <3>3, <3>4 DEF LogInv, LogCovers
    <3>6. LogCovers(disk'.books, disk'.log)
      BY <3>3, <3>4 DEF LogInv, LogCovers
    <3> QED
      BY <2>3, <3>5, <3>6 DEF LogInv, LogCovers
  <2>4. CASE UNCHANGED vars
    BY <2>1, <2>4 DEF vars
  <2>5. CASE Wake
    BY <2>5 DEF Wake, LogInv, LogCovers
  <2>6. CASE ReconcileNothing \/ ReconcileOpen
    BY <2>1, <2>6 DEF ReconcileNothing, ReconcileOpen
  <2>7. CASE ReconcileDiscard
    BY <2>2, <2>7 DEF ReconcileDiscard, TypeOK, Books, Dir
  <2>8. CASE ReconcileBook
    BY <2>3, <2>8 DEF ReconcileBook, TypeOK, Books
  <2>9. CASE ReconcileSave
    BY <2>2, <2>9 DEF ReconcileSave, TypeOK, Dir
  <2>10. ASSUME NEW side, NEW qty, NEW mode, NEW kill, Submit(side, qty, mode, kill),
                run.pc = "decide", repo' = repo
         PROVE  LogInv'
    BY <2>2, <2>10 DEF Submit, TypeOK, Books, Dir
  <2>11. ASSUME NEW handled, GoPersist(handled), disk'.books = disk.books,
                disk'.log = disk.log, repo' = repo, run.pc = "decide"
         PROVE  LogInv'
    BY <2>1, <2>11 DEF GoPersist
  <2>12. CASE DecideKilled
    BY <2>10, <2>11, <2>12 DEF DecideKilled
  <2>13. CASE DecideSeen
    BY <2>1, <2>13 DEF DecideSeen
  <2>14. CASE DecideTrip
    <3>1. PICK qty \in Quantized(mem.pos) :
            IF qty > 0 THEN Submit("sell", qty, "trip", TRUE)
                       ELSE GoPersist(TRUE) /\ disk' = [disk EXCEPT !.kill = TRUE]
      BY <2>14 DEF DecideTrip
    <3>2. disk' = [disk EXCEPT !.kill = TRUE] =>
            disk'.books = disk.books /\ disk'.log = disk.log
      BY DEF TypeOK, Dir
    <3> QED
      BY <2>10, <2>11, <2>14, <3>1, <3>2 DEF DecideTrip
  <2>15. CASE DecideTarget
    <3>1. \/ GoPersist(TRUE) /\ UNCHANGED disk
          \/ \E side \in Sides : \E qty : Submit(side, qty, "trade", FALSE)
      BY <2>15 DEF DecideTarget, Sides
    <3> QED
      BY <2>10, <2>11, <2>15, <3>1 DEF DecideTarget
  <2>16. CASE PostAccepted \/ PostDuplicate \/ PollTimeout
    BY <2>1, <2>16 DEF PostAccepted, PostDuplicate, PollTimeout
  <2>17. CASE PostRefused
    BY <2>2, <2>17 DEF PostRefused, TypeOK, Books, Dir
  <2>18. CASE PollBook
    BY <2>3, <2>18 DEF PollBook, TypeOK
  <2>19. CASE Persist
    BY <2>2, <2>19 DEF Persist, TypeOK, Books, Dir
  <2>20. CASE Commit
    BY <2>20 DEF Commit, LogInv, LogCovers, Idle
  <2>21. CASE SkipCommit \/ Crash
    BY <2>21 DEF SkipCommit, Crash, LeftBehind, LogInv, LogCovers, Idle
  <2>22. CASE Venue
    BY <2>1, <2>22 DEF Venue, VenueFinish, VenueShow
  <2>23. CASE NextBar
    BY <2>1, <2>23 DEF NextBar
  <2>24. CASE OperatorKill
    BY <2>1, <2>24 DEF OperatorKill, TypeOK, Dir
  <2> QED
    BY <2>4, <2>5, <2>6, <2>7, <2>8, <2>9, <2>12, <2>13, <2>14, <2>15, <2>16, <2>17,
       <2>18, <2>19, <2>20, <2>21, <2>22, <2>23, <2>24
    DEF Next, Engine, Reconcile, Decide, SubmitAndBook
<1>3. LogInv => TradeLogCoversBooks
  BY DEF LogInv, LogCovers, TradeLogCoversBooks
<1> QED
  BY <1>1, <1>2, <1>3, TypeCorrect, PTL DEF Spec

\* Memory and disk name the same intent, or memory none.
LEMMA IntentSharedInvariant == Spec => []IntentShared
<1>1. Init => IntentShared
  BY DEF Init, IntentShared, Idle
<1>2. TypeOK /\ IntentShared /\ [Next]_vars => IntentShared'
  <2> SUFFICES ASSUME TypeOK, IntentShared, [Next]_vars PROVE IntentShared'
    OBVIOUS
  <2>1. ASSUME disk'.books = disk.books, run.pc # "idle",
               mem'.pending \in {mem.pending, NoIntent}
        PROVE  IntentShared'
    BY <2>1 DEF IntentShared
  <2>2. ASSUME disk'.books.pending = mem'.pending
        PROVE  IntentShared'
    BY <2>2 DEF IntentShared
  <2>3. CASE UNCHANGED vars \/ Venue \/ NextBar
    BY <2>3 DEF IntentShared, vars, Venue, VenueFinish, VenueShow, NextBar
  <2>4. CASE Wake
    BY <2>2, <2>4 DEF Wake
  <2>5. CASE ReconcileNothing \/ ReconcileOpen \/ DecideSeen \/ PostAccepted
             \/ PostDuplicate \/ PollTimeout
    BY <2>1, <2>5 DEF ReconcileNothing, ReconcileOpen, DecideSeen, PostAccepted,
                      PostDuplicate, PollTimeout
  <2>6. CASE ReconcileDiscard \/ ReconcileSave \/ PostRefused \/ Persist
    BY <2>2, <2>6 DEF ReconcileDiscard, ReconcileSave, PostRefused, Persist, TypeOK, Dir
  <2>7. CASE ReconcileBook \/ PollBook
    <3>1. PICK id \in OrderIds :
            /\ mem' = [BookOrder(mem, id) EXCEPT !.pending = NoIntent]
            /\ disk' = [disk EXCEPT !.log[id] = @ + 1]
            /\ run.pc # "idle"
      BY <2>7 DEF ReconcileBook, PollBook, TypeOK, Books
    <3>2. mem'.pending = NoIntent
      BY <3>1, BookOrderType DEF TypeOK, Books
    <3>3. disk'.books = disk.books
      BY <3>1 DEF TypeOK, Dir
    <3> QED
      BY <2>1, <3>1, <3>2, <3>3
  <2>8. ASSUME NEW side, NEW qty, NEW mode, NEW kill, Submit(side, qty, mode, kill)
        PROVE  IntentShared'
    BY <2>2, <2>8 DEF Submit, TypeOK, Dir
  <2>9. ASSUME NEW handled, GoPersist(handled), disk'.books = disk.books,
               run.pc = "decide"
        PROVE  IntentShared'
    BY <2>1, <2>9 DEF GoPersist
  <2>10. CASE DecideKilled
    BY <2>8, <2>9, <2>10 DEF DecideKilled
  <2>11. CASE DecideTrip
    <3>1. PICK qty \in Quantized(mem.pos) :
            IF qty > 0 THEN Submit("sell", qty, "trip", TRUE)
                       ELSE GoPersist(TRUE) /\ disk' = [disk EXCEPT !.kill = TRUE]
      BY <2>11 DEF DecideTrip
    <3>2. disk' = [disk EXCEPT !.kill = TRUE] => disk'.books = disk.books
      BY DEF TypeOK, Dir
    <3> QED
      BY <2>8, <2>9, <2>11, <3>1, <3>2 DEF DecideTrip
  <2>12. CASE DecideTarget
    <3>1. \/ GoPersist(TRUE) /\ UNCHANGED disk
          \/ \E side \in Sides : \E qty : Submit(side, qty, "trade", FALSE)
      BY <2>12 DEF DecideTarget, Sides
    <3> QED
      BY <2>8, <2>9, <2>12, <3>1 DEF DecideTarget
  <2>13. CASE Commit \/ SkipCommit \/ Crash
    BY <2>13 DEF Commit, SkipCommit, Crash, IntentShared, Idle
  <2>14. CASE OperatorKill
    BY <2>14 DEF OperatorKill, IntentShared
  <2> QED
    BY <2>3, <2>4, <2>5, <2>6, <2>7, <2>10, <2>11, <2>12, <2>13, <2>14
    DEF Next, Engine, Reconcile, Decide, SubmitAndBook
<1> QED
  BY <1>1, <1>2, TypeCorrect, PTL DEF Spec
\* Booking the pending order of a copy that trails the account by that order
\* makes the copy equal to the account.
LEMMA BookPosition ==
    ASSUME TypeOK, PositionInv, NEW b \in Books, b.pending \in OrderIds, PositionSound(b),
           orders[b.pending].state = "terminal",
           NEW c, c = [BookOrder(b, b.pending) EXCEPT !.pending = NoIntent]
    PROVE  PositionSound(c)
<1> DEFINE o == orders[b.pending]
<1>1. BookOrder(b, b.pending) \in Books
  BY BookOrderType
<1>2. c.pending = NoIntent /\ c.pos = BookOrder(b, b.pending).pos
      /\ c.booked = [b.booked EXCEPT ![b.pending] = @ + 1]
  BY <1>1 DEF BookOrder, Books
<1>3. o.filled \in Int /\ o.qty \in Int /\ b.pos \in Int /\ held \in Int
      /\ 0 <= o.filled /\ o.filled <= o.qty
  BY DEF TypeOK, Order, Books, PositionInv, FillsSound
<1>4. b.pending # NoIntent
  BY NoIntentIsNoOrder
<1>5. c.pos = IF Side(b.pending) = "buy" THEN b.pos + o.filled
              ELSE IF b.pos >= o.filled THEN b.pos - o.filled ELSE 0
  BY <1>2 DEF BookOrder, Books
<1>6. c.pos >= 0 /\ held = c.pos
  <2>1. CASE Side(b.pending) = "buy"
    BY <1>3, <1>4, <1>5, <2>1 DEF PositionSound, Missing
  <2>2. CASE Side(b.pending) # "buy"
    <3>1. Side(b.pending) = "sell"
      BY <2>2 DEF OrderIds, Sides, Side
    <3>2. o.filled <= b.pos
      BY <1>3, <1>4, <3>1 DEF PositionSound
    <3> QED
      BY <1>3, <1>4, <1>5, <2>2, <3>2 DEF PositionSound, Missing
  <2> QED
    BY <2>1, <2>2
<1>7. \A id \in OrderIds : c.booked[id] > 0 => orders[id].state = "terminal"
  BY <1>2 DEF PositionSound, Books
<1> QED
  BY <1>2, <1>3, <1>6, <1>7 DEF PositionSound, Missing

\* Dropping or adopting an intent the venue knows nothing of leaves a copy sound.
LEMMA IntentPosition ==
    ASSUME TypeOK, PositionInv, NEW b \in Books, PositionSound(b),
           b.pending # NoIntent => b.pending \in OrderIds /\ Absent(b.pending),
           NEW c, c.pos = b.pos, c.booked = b.booked,
           c.pending # NoIntent => c.pending \in OrderIds /\ Absent(c.pending)
    PROVE  PositionSound(c)
<1>1. Missing(b) = 0
  BY DEF PositionInv, FillsSound, Absent, Missing
<1>2. Missing(c) = 0
  BY DEF PositionInv, FillsSound, Absent, Missing
<1>3. c.pending # NoIntent => orders[c.pending].qty = 0
  BY DEF PositionInv, FillsSound
<1> QED
  BY <1>1, <1>2, <1>3 DEF PositionSound
\* On a disk that survives, with a venue that lists what it accepted and each bar
\* run once, every copy of the books differs from the account by its pending
\* order only, and no sale is larger than the position.
LEMMA PositionInvariant ==
    ASSUME Reruns = "never", ~EphemeralDisk, ~VisibilityLag
    PROVE  Spec => []PositionInv
<1>1. Init => PositionInv
  <2> SUFFICES ASSUME Init PROVE PositionInv
    OBVIOUS
  <2>1. disk.books = mem /\ run.pc = "idle"
    BY DEF Init, Idle
  <2>2. PositionSound(mem)
    BY MoneyAssumption, NoIntentIsNoOrder DEF Init, PositionSound, Missing
  <2> QED
    BY <2>1, <2>2 DEF Init, PositionInv, FillsSound, SubmitSound, Absent
<1>2. /\ TypeOK /\ BookingInv /\ CoverInv /\ PositionInv /\ [Next]_vars
      => PositionInv'
  <2> SUFFICES ASSUME TypeOK, BookingInv, CoverInv, PositionInv, [Next]_vars
               PROVE  PositionInv'
    OBVIOUS
  <2> USE NoIntentIsNoOrder
  \* Most steps leave the account and its orders alone: what counts is which
  \* books memory and disk then have.
  <2>1. ASSUME UNCHANGED <<orders, held>>, PositionSound(disk'.books),
               run'.pc # "idle" => PositionSound(mem'),
               run'.pc = "post" =>
                 /\ run'.qty >= 0
                 /\ Side(run'.id) = "sell" =>
                      run'.qty <= mem'.pos /\ run'.qty <= disk'.books.pos
        PROVE  PositionInv'
    BY <2>1 DEF PositionInv, FillsSound, SubmitSound, PositionSound, Missing, Absent
  <2>2. ASSUME UNCHANGED <<orders, held>>, disk'.books = disk.books,
               run'.pc # "idle" => run.pc # "idle" /\ mem' = mem, run'.pc # "post"
        PROVE  PositionInv'
    BY <2>1, <2>2 DEF PositionInv
  <2>3. CASE UNCHANGED vars
    BY <2>3 DEF vars, PositionInv, FillsSound, SubmitSound, PositionSound, Missing, Absent
  <2>4. CASE Wake
    BY <2>1, <2>4 DEF Wake, PositionInv, Idle
  <2>5. CASE ReconcileNothing \/ ReconcileOpen \/ DecideSeen \/ PostDuplicate
             \/ PollTimeout
    BY <2>2, <2>5 DEF ReconcileNothing, ReconcileOpen, DecideSeen, PostDuplicate,
                      PollTimeout, TypeOK, Runs
  <2>6. ASSUME NEW id \in OrderIds, ~Visible(id), mem.pending = id, run.pc # "idle",
               mem' = [mem EXCEPT !.pending = NoIntent],
               disk' = [disk EXCEPT !.books = mem'],
               UNCHANGED <<orders, held>>, run'.pc \in {"decide", "persist"}
        PROVE  PositionInv'
    <3>1. Absent(id)
      BY <2>6 DEF Visible, CoverInv, Absent
    <3>2. mem \in Books /\ mem' \in Books /\ mem'.pending = NoIntent
          /\ mem'.pos = mem.pos /\ mem'.booked = mem.booked /\ disk'.books = mem'
      BY <2>6 DEF TypeOK, Books, Dir
    <3>3. PositionSound(mem')
      BY <2>6, <3>1, <3>2, IntentPosition DEF PositionInv
    <3> QED
      BY <2>1, <2>6, <3>2, <3>3
  <2>7. CASE ReconcileDiscard
    BY <2>6, <2>7 DEF ReconcileDiscard, TypeOK, Books, Runs
  <2>8. ASSUME NEW id \in OrderIds, mem.pending = id, run.pc # "idle",
               orders[id].state = "terminal",
               mem' = [BookOrder(mem, id) EXCEPT !.pending = NoIntent],
               disk' = [disk EXCEPT !.log[id] = @ + 1],
               UNCHANGED <<orders, held>>, run'.pc \in {"reconcileSave", "persist"}
        PROVE  PositionInv'
    <3>1. mem \in Books /\ PositionSound(mem) /\ disk'.books = disk.books
      BY <2>8 DEF TypeOK, Dir, PositionInv
    <3>2. PositionSound(mem')
      BY <2>8, <3>1, BookPosition
    <3> QED
      BY <2>1, <2>8, <3>1, <3>2 DEF PositionInv
  <2>9. CASE ReconcileBook
    BY <2>8, <2>9 DEF ReconcileBook, Visible, TypeOK, Books, Runs
  <2>10. CASE ReconcileSave
    BY <2>1, <2>10 DEF ReconcileSave, PositionInv, TypeOK, Dir, Runs
  \* The order of an intent is one the venue has never seen.
  <2>11. ASSUME NEW side \in Sides, NEW qty \in Int, NEW mode, NEW kill, qty >= 0,
                side = "sell" => qty <= mem.pos,
                Submit(side, qty, mode, kill), run.pc = "decide",
                UNCHANGED <<orders, held>>
         PROVE  PositionInv'
    <3> DEFINE new == <<side, run.bar>>
    <3>1. new \in OrderIds
      BY <2>11 DEF OrderIds, TypeOK
    <3>2. Absent(new) /\ mem.pending = NoIntent
      BY <2>11, <3>1 DEF BookingInv, CoverInv, Covers
    <3>3. mem \in Books /\ mem' \in Books /\ mem'.pending = new /\ mem'.pos = mem.pos
          /\ mem'.booked = mem.booked /\ disk'.books = mem'
      BY <2>11, <3>1 DEF Submit, TypeOK, Books, Dir
    <3>4. PositionSound(mem')
      BY <2>11, <3>1, <3>2, <3>3, IntentPosition DEF PositionInv
    <3>5. run'.qty = qty /\ run'.id = new /\ Side(new) = side
      BY <2>11 DEF Submit, TypeOK, Runs, Side
    <3> QED
      BY <2>1, <2>11, <3>3, <3>4, <3>5
  <2>12. ASSUME NEW handled, GoPersist(handled), disk'.books = disk.books,
                UNCHANGED <<orders, held>>, run.pc = "decide"
         PROVE  PositionInv'
    BY <2>2, <2>12 DEF GoPersist, TypeOK, Runs
  <2>13. mem.pos \in Int /\ run.qty \in Int
    BY DEF TypeOK, Books, Runs
  <2>14. CASE DecideKilled
    <3>1. PICK qty \in {0, mem.pos} :
            IF qty > 0 THEN Submit("sell", qty, "flatten", TRUE)
                       ELSE GoPersist(FALSE) /\ UNCHANGED disk
      BY <2>14 DEF DecideKilled, Quantized
    <3>2. CASE qty > 0
      <4>1. qty \in Int /\ qty >= 0 /\ qty <= mem.pos /\ "sell" \in Sides
        BY <2>13, <3>2 DEF Sides
      <4> QED
        BY <2>11, <2>14, <3>1, <3>2, <4>1 DEF DecideKilled
    <3>3. CASE ~(qty > 0)
      BY <2>12, <2>14, <3>1, <3>3 DEF DecideKilled
    <3> QED
      BY <3>2, <3>3
  <2>15. CASE DecideTrip
    <3>1. PICK qty \in {0, mem.pos} :
            IF qty > 0 THEN Submit("sell", qty, "trip", TRUE)
                       ELSE GoPersist(TRUE) /\ disk' = [disk EXCEPT !.kill = TRUE]
      BY <2>15 DEF DecideTrip, Quantized
    <3>2. disk' = [disk EXCEPT !.kill = TRUE] => disk'.books = disk.books
      BY DEF TypeOK, Dir
    <3>3. CASE qty > 0
      <4>1. qty \in Int /\ qty >= 0 /\ qty <= mem.pos /\ "sell" \in Sides
        BY <2>13, <3>3 DEF Sides
      <4> QED
        BY <2>11, <2>15, <3>1, <3>3, <4>1 DEF DecideTrip
    <3>4. CASE ~(qty > 0)
      BY <2>12, <2>15, <3>1, <3>2, <3>4 DEF DecideTrip
    <3> QED
      BY <3>3, <3>4
  <2>16. CASE DecideTarget
    <3>1. \/ GoPersist(TRUE) /\ UNCHANGED disk
          \/ \E side \in Sides, qty \in Int :
               /\ Submit(side, qty, "trade", FALSE)
               /\ qty > 0 /\ (side = "sell" => qty <= mem.pos)
      <4>1. PICK target \in Targets, stale \in BOOLEAN :
              LET delta == target - mem.pos * run.quote
                  side  == IF delta > 0 THEN "buy" ELSE "sell"
                  size  == IF delta > 0 THEN Buyable(delta) ELSE Sellable(-delta)
                  hold  == delta < MinTrade /\ -delta < MinTrade
              IN  IF hold THEN GoPersist(TRUE) /\ UNCHANGED disk
                  ELSE \E qty \in Quantized(size) :
                         IF qty <= 0 \/ qty * run.quote < MinTrade
                            \/ Blocked(side, qty * run.quote, stale)
                         THEN GoPersist(TRUE) /\ UNCHANGED disk
                         ELSE Submit(side, qty, "trade", FALSE)
        BY <2>16 DEF DecideTarget
      <4>2. run.quote \in Nat \ {0} /\ mem.pos \in Int /\ mem.cash \in Int
        BY <2>16, PriceAssumption DEF DecideTarget, TypeOK, Books
      <4>3. \A usd \in Int : /\ Buyable(usd) \in Int /\ Sellable(usd) \in Int
                            /\ Sellable(usd) <= mem.pos
        BY <4>2 DEF Buyable, Sellable
      <4> DEFINE delta == target - mem.pos * run.quote
                 size  == IF delta > 0 THEN Buyable(delta) ELSE Sellable(-delta)
                 side  == IF delta > 0 THEN "buy" ELSE "sell"
      <4>4. delta \in Int /\ -delta \in Int
        BY <4>2, MoneyAssumption
      <4>5. size \in Int /\ (side = "sell" => size <= mem.pos) /\ side \in Sides
        BY <4>3, <4>4 DEF Sides
      <4>6. \/ GoPersist(TRUE) /\ UNCHANGED disk
            \/ \E qty \in {0, size} : ~(qty <= 0) /\ Submit(side, qty, "trade", FALSE)
        BY <4>1 DEF Quantized
      <4>7. ASSUME NEW qty \in {0, size}, ~(qty <= 0)
            PROVE  qty \in Int /\ qty > 0 /\ (side = "sell" => qty <= mem.pos)
        BY <4>5, <4>7
      <4> HIDE DEF delta, size, side
      <4> QED
        BY <4>5, <4>6, <4>7
    <3>2. CASE GoPersist(TRUE) /\ UNCHANGED disk
      BY <2>12, <2>16, <3>2 DEF DecideTarget
    <3>3. ASSUME NEW side \in Sides, NEW qty \in Int, Submit(side, qty, "trade", FALSE),
                 qty > 0, side = "sell" => qty <= mem.pos
          PROVE  PositionInv'
      <4>1. qty >= 0
        BY <3>3
      <4> QED
        BY <2>11, <2>16, <3>3, <4>1 DEF DecideTarget
    <3> QED
      BY <3>1, <3>2, <3>3
  <2>17. CASE PostAccepted
    <3>1. run.id \in OrderIds /\ Absent(run.id) /\ mem.pending = run.id /\ disk.books.pending = run.id
          /\ run.pc = "post"
      BY <2>17 DEF PostAccepted, CoverInv, TypeOK, Absent
    <3>2. /\ orders'[run.id].filled = 0 /\ orders'[run.id].qty = run.qty
          /\ orders'[run.id].state = "open"
          /\ \A j \in OrderIds : j # run.id => orders'[j] = orders[j]
      BY <2>17, <3>1 DEF PostAccepted, TypeOK
    <3>3. orders[run.id].filled = 0 /\ run.qty >= 0
      BY <3>1 DEF PositionInv, FillsSound, SubmitSound, Absent
    <3>4. run'.pc = "poll" /\ mem' = mem /\ disk' = disk /\ held' = held
      BY <2>17 DEF PostAccepted, TypeOK, Runs
    <3>5. ASSUME NEW b \in {mem, disk.books}
          PROVE  /\ b.pos >= 0 /\ held = b.pos /\ b.pending = run.id
                 /\ Side(run.id) = "sell" => run.qty <= b.pos
                 /\ \A j \in OrderIds : b.booked[j] > 0 =>
                      orders[j].state = "terminal" /\ j # run.id
      <4>1. PositionSound(b) /\ b.pending = run.id
        BY <3>1 DEF PositionInv
      <4>2. held = b.pos
        BY <3>1, <3>3, <4>1, <2>13 DEF PositionSound, Missing, TypeOK, Books, Dir
      <4> QED
        BY <3>1, <4>1, <4>2 DEF PositionSound, PositionInv, FillsSound, SubmitSound, Absent
    <3>6. PositionSound(mem)' /\ PositionSound(disk.books)'
      BY <3>1, <3>2, <3>4, <3>5 DEF PositionSound, Missing, TypeOK, Books, Dir
    <3>7. FillsSound'
      <4>1. ASSUME NEW j \in OrderIds
            PROVE  /\ 0 <= orders'[j].filled /\ orders'[j].filled <= orders'[j].qty
                   /\ orders'[j].state # "terminal" => orders'[j].filled = 0
                   /\ Absent(j)' => orders'[j].qty = 0
        <5>1. CASE j = run.id
          BY <3>2, <3>3, <5>1 DEF Absent
        <5>2. CASE j # run.id
          BY <3>2, <5>2 DEF PositionInv, FillsSound, Absent
        <5> QED
          BY <5>1, <5>2
      <4> QED
        BY <4>1 DEF FillsSound
    <3>8. SubmitSound'
      BY <3>4 DEF SubmitSound
    <3> QED
      BY <3>6, <3>7, <3>8 DEF PositionInv
  <2>18. CASE PostRefused
    <3>1. run.id \in OrderIds /\ mem.pending = run.id /\ run.pc # "idle"
          /\ run'.pc = "persist"
      BY <2>18 DEF PostRefused, CoverInv, TypeOK, Runs
    <3> QED
      BY <2>6, <2>18, <3>1 DEF PostRefused
  <2>19. CASE PollBook
    <3>1. run.id \in OrderIds /\ mem.pending = run.id /\ run.pc # "idle"
          /\ run'.pc = "persist"
      BY <2>19 DEF PollBook, CoverInv, TypeOK, Runs
    <3> QED
      BY <2>8, <2>19, <3>1 DEF PollBook
  <2>20. CASE Persist
    <3>1. mem'.booked = mem.booked /\ mem'.pending = mem.pending /\ mem'.pos = mem.pos
      BY <2>20 DEF Persist, TypeOK, Books
    <3>2. disk'.books = mem' /\ run'.pc = "exit" /\ run.pc # "idle"
          /\ UNCHANGED <<orders, held>>
      BY <2>20 DEF Persist, TypeOK, Dir, Runs
    <3>3. PositionSound(mem')
      BY <3>1, <3>2 DEF PositionInv, PositionSound, Missing
    <3> QED
      BY <2>1, <3>2, <3>3
  <2>21. CASE Commit \/ SkipCommit \/ Crash
    BY <2>1, <2>21 DEF Commit, SkipCommit, Crash, LeftBehind, PositionInv, Idle
  <2>22. CASE Venue
    <3>1. PICK id \in OrderIds : VenueFinish(id) \/ VenueShow(id)
      BY <2>22 DEF Venue
    <3>2. UNCHANGED <<disk, mem, run>>
      BY <3>1 DEF VenueFinish, VenueShow
    <3>3. CASE VenueShow(id)
      <4>1. \A j \in OrderIds : /\ orders'[j].filled = orders[j].filled
                               /\ orders'[j].qty = orders[j].qty
                               /\ orders'[j].state = orders[j].state
        BY <3>3 DEF VenueShow, TypeOK, Order
      <4>2. held' = held
        BY <3>3 DEF VenueShow
      <4> QED
        BY <3>2, <4>1, <4>2
        DEF PositionInv, FillsSound, SubmitSound, PositionSound, Missing, Absent, TypeOK,
            Books, Dir
    \* The order that ends is the pending one of every copy.
    <3>4. CASE VenueFinish(id)
      <4>1. PICK units \in 0..orders[id].qty, p \in Prices :
              /\ orders' = [orders EXCEPT ![id].state = "terminal",
                                          ![id].filled = units, ![id].price = p]
              /\ held' = IF Side(id) = "buy" THEN held + units ELSE held - units
        BY <3>4 DEF VenueFinish
      <4>2. /\ orders'[id].state = "terminal" /\ orders'[id].filled = units
            /\ orders'[id].qty = orders[id].qty
            /\ \A j \in OrderIds : j # id => orders'[j] = orders[j]
            /\ held' = held + (IF Side(id) = "buy" THEN units ELSE 0 - units)
        BY <4>1 DEF TypeOK, Order
      <4>3. orders[id].state = "open" /\ orders[id].filled = 0 /\ orders[id].qty \in Int
            /\ units \in Int /\ units >= 0 /\ units <= orders[id].qty /\ held \in Int
        BY <3>4, <4>1 DEF VenueFinish, PositionInv, FillsSound, TypeOK, Order
      <4>4. ASSUME NEW b \in Books, PositionSound(b), Covers(b)
            PROVE  /\ b.pos >= 0 /\ b.pending = id
                   /\ held' = b.pos + (IF Side(id) = "buy" THEN units ELSE 0 - units)
                   /\ Side(id) = "sell" => orders'[id].qty <= b.pos
                   /\ \A j \in OrderIds : b.booked[j] > 0 => orders'[j].state = "terminal"
        <5>1. b.booked \in [OrderIds -> Nat] /\ b.pos \in Int
          BY DEF Books
        <5>2. b.booked[id] = 0
          BY <4>3, <4>4, <5>1 DEF PositionSound
        <5>3. b.pending = id
          BY <4>3, <4>4, <5>2 DEF Covers, Absent
        <5>4. held = b.pos
          BY <4>3, <4>4, <5>1, <5>3 DEF PositionSound, Missing
        <5>5. held' = b.pos + (IF Side(id) = "buy" THEN units ELSE 0 - units)
          BY <4>2, <5>4
        <5>6. b.pos >= 0 /\ (Side(id) = "sell" => orders[id].qty <= b.pos)
          BY <4>4, <5>3 DEF PositionSound
        <5>7. \A j \in OrderIds : b.booked[j] > 0 => orders'[j].state = "terminal"
          BY <4>2, <4>4 DEF PositionSound
        <5> QED
          BY <4>2, <5>3, <5>5, <5>6, <5>7
      <4>5. PositionSound(disk.books)'
        <5>1. disk.books \in Books /\ PositionSound(disk.books) /\ Covers(disk.books)
          BY DEF TypeOK, Dir, PositionInv, CoverInv
        <5> QED
          BY <3>2, <4>2, <4>4, <5>1 DEF PositionSound, Missing
      <4>6. run.pc # "idle" => PositionSound(mem)'
        <5>1. mem \in Books
          BY DEF TypeOK
        <5> QED
          BY <3>2, <4>2, <4>4, <5>1 DEF PositionSound, Missing, PositionInv, CoverInv
      <4>7. FillsSound'
        BY <4>2, <4>3 DEF PositionInv, FillsSound, Absent
      <4> QED
        BY <3>2, <4>5, <4>6, <4>7 DEF PositionInv, SubmitSound
    <3> QED
      BY <3>1, <3>3, <3>4
  <2>23. CASE NextBar
    BY <2>1, <2>23 DEF NextBar, PositionInv, FillsSound, SubmitSound
  <2>24. CASE OperatorKill
    BY <2>1, <2>24 DEF OperatorKill, PositionInv, FillsSound, SubmitSound, TypeOK, Dir
  <2> QED
    BY <2>3, <2>4, <2>5, <2>7, <2>9, <2>10, <2>14, <2>15, <2>16, <2>17, <2>18, <2>19,
       <2>20, <2>21, <2>22, <2>23, <2>24
    DEF Next, Engine, Reconcile, Decide, SubmitAndBook
<1> QED
  BY <1>1, <1>2, TypeCorrect, BookingInvariant, CoverInvariant, PTL DEF Spec
\* Rules 2 and 3 together: whatever dies, books on disk without a pending order
\* hold exactly what the account holds of the bot's coins.
THEOREM PositionIsVenuePosition ==
    ASSUME Reruns = "never", ~EphemeralDisk, ~VisibilityLag
    PROVE  Spec => []PositionMatchesVenue
<1>1. TypeOK /\ PositionInv => PositionMatchesVenue
  <2> SUFFICES ASSUME TypeOK, PositionInv, disk.books.pending = NoIntent
               PROVE  disk.books.pos = held
    BY DEF PositionMatchesVenue
  <2>1. disk.books.pos \in Int /\ held \in Int
    BY DEF TypeOK, Dir, Books
  <2> QED
    BY <2>1 DEF PositionInv, PositionSound, Missing
<1> QED
  BY <1>1, PositionInvariant, TypeCorrect, PTL

\* No two sales are open at once, and the open one never exceeds the bot's coins,
\* so the coins of the account's owner are never sold.
THEOREM OwnerCoinsSafe ==
    ASSUME Reruns = "never", ~EphemeralDisk, ~VisibilityLag
    PROVE  Spec => []OwnerCoinsUntouched
<1>1. TypeOK /\ CoverInv /\ PositionInv => OwnerCoinsUntouched
  <2> SUFFICES ASSUME TypeOK, CoverInv, PositionInv PROVE OwnerCoinsUntouched
    OBVIOUS
  <2> DEFINE b == disk.books
  <2>1. b \in Books /\ held \in Int /\ PositionSound(b) /\ Covers(b)
    BY DEF TypeOK, Dir, CoverInv, PositionInv
  <2>2. b.pos \in Int /\ b.booked \in [OrderIds -> Nat]
        /\ b.pending \in OrderIds \cup {NoIntent}
    BY <2>1 DEF Books
  <2> HIDE DEF b
  \* An open order is not in the books, so it is the pending one.
  <2>3. ASSUME NEW id \in OpenSales
        PROVE  id \in OrderIds /\ b.pending = id /\ orders[id].qty <= b.pos /\ held = b.pos
    <3>1. id \in OrderIds /\ Side(id) = "sell" /\ orders[id].state = "open"
      BY DEF OpenSales
    <3>2. b.booked[id] = 0
      BY <2>1, <2>2, <3>1 DEF PositionSound
    <3>3. b.pending = id /\ id # NoIntent
      BY <2>1, <3>1, <3>2, NoIntentIsNoOrder DEF Covers, Absent
    <3>4. orders[id].filled = 0
      BY <3>1 DEF PositionInv, FillsSound
    <3> QED
      BY <2>1, <2>2, <3>1, <3>3, <3>4 DEF PositionSound, Missing
  <2>4. held >= 0
    <3>1. CASE b.pending = NoIntent
      BY <2>1, <2>2, <3>1 DEF PositionSound, Missing
    <3>2. CASE b.pending # NoIntent
      <4> DEFINE o == orders[b.pending]
      <4>1. o.filled \in Int /\ o.qty \in Int /\ 0 <= o.filled /\ o.filled <= o.qty
        BY <2>2, <3>2 DEF TypeOK, Order, PositionInv, FillsSound
      <4>2. CASE Side(b.pending) = "buy"
        BY <2>1, <2>2, <3>2, <4>1, <4>2 DEF PositionSound, Missing
      <4>3. CASE Side(b.pending) # "buy"
        <5>1. Side(b.pending) = "sell"
          BY <2>2, <3>2, <4>3 DEF OrderIds, Sides, Side
        <5>2. held = b.pos + (0 - o.filled) /\ o.qty <= b.pos
          BY <2>1, <3>2, <4>3, <5>1 DEF PositionSound, Missing
        <5> QED
          BY <2>2, <4>1, <5>2
      <4> QED
        BY <4>2, <4>3
    <3> QED
      BY <3>1, <3>2
  <2>5. \A id \in OpenSales : OpenSales = {id} /\ orders[id].qty <= held
    BY <2>3
  <2> QED
    BY <2>4, <2>5 DEF OwnerCoinsUntouched
<1> QED
  BY <1>1, PositionInvariant, CoverInvariant, TypeCorrect, PTL

-----------------------------------------------------------------------------
\* A save moves the ledger by the pending order at most: memory and disk have
\* booked the same orders, or memory also the one the disk still owes.
LEMMA SaveBooksOne ==
    ASSUME TypeOK, BookingInv, CoverInv, PositionInv, IntentShared, run.pc # "idle"
    PROVE  \/ mem.booked = disk.books.booked
           \/ \E id \in Ledger!Owed :
                mem.booked = [disk.books.booked EXCEPT ![id] = 1]
<1> DEFINE m == mem.booked
           d == disk.books.booked
<1>1. m \in [OrderIds -> Nat] /\ d \in [OrderIds -> Nat]
  BY DEF TypeOK, Dir, Books
<1>2. \A id \in OrderIds : m[id] \in {0, 1} /\ d[id] \in {0, 1}
  BY <1>1 DEF BookingInv, CopySound
<1>3. \A id \in OrderIds : m[id] = 1 \/ d[id] = 1 => ~Absent(id)
  BY DEF PositionInv, PositionSound, Absent
\* What memory lacks it has as its intent, which is the disk's, so the disk
\* lacks it too.
<1>4. \A id \in OrderIds : d[id] = 1 => m[id] = 1
  <2> SUFFICES ASSUME NEW id \in OrderIds, d[id] = 1, m[id] = 0 PROVE FALSE
    BY <1>2
  <2>1. mem.pending = id
    BY <1>3 DEF CoverInv, Covers
  <2>2. disk.books.pending = id
    BY <2>1, NoIntentIsNoOrder DEF IntentShared
  <2> QED
    BY <2>2, NoIntentIsNoOrder DEF BookingInv, CopySound
<1>5. ASSUME NEW id \in OrderIds, m[id] = 1, d[id] = 0
      PROVE  id \in Ledger!Owed /\ disk.books.pending = id
  BY <1>3, <1>5 DEF CoverInv, Covers, Ledger!Owed
<1> HIDE DEF m, d
<1>6. CASE \E id \in OrderIds : m[id] = 1 /\ d[id] = 0
  <2>1. PICK id \in OrderIds : m[id] = 1 /\ d[id] = 0
    BY <1>6
  <2>2. \A j \in OrderIds : j # id => m[j] = d[j]
    BY <1>2, <1>4, <1>5, <2>1
  <2>3. m = [d EXCEPT ![id] = 1]
    BY <1>1, <2>1, <2>2
  <2> QED
    BY <1>5, <2>1, <2>3 DEF m, d
<1>7. CASE ~\E id \in OrderIds : m[id] = 1 /\ d[id] = 0
  <2>1. \A j \in OrderIds : m[j] = d[j]
    BY <1>2, <1>4, <1>7
  <2>2. m = d
    BY <1>1, <2>1
  <2> QED
    BY <2>2 DEF m, d
<1> QED
  BY <1>6, <1>7
\* Engine.py rules 1 to 3 as one statement, for every number of bars and crashes:
\* the desk implements OrderLedger, which places an order only when nothing is
\* owed to the books and books each order once.
THEOREM DeskImplementsLedger ==
    ASSUME Reruns = "never", ~EphemeralDisk, ~VisibilityLag
    PROVE  Spec => ImplementsLedger
<1>1. Init => Ledger!Init
  BY DEF Init, Absent, Ledger!Init
<1>2. /\ TypeOK /\ BookingInv /\ CoverInv /\ PositionInv /\ IntentShared /\ [Next]_vars
      => [Ledger!Next]_Ledger!vars
  <2> SUFFICES ASSUME TypeOK, BookingInv, CoverInv, PositionInv, IntentShared, [Next]_vars
               PROVE  [Ledger!Next]_Ledger!vars
    OBVIOUS
  <2> USE DEF Ledger!vars
  <2>1. ASSUME orders' = orders, disk'.books.booked = disk.books.booked
        PROVE  UNCHANGED Ledger!vars
    BY <2>1 DEF Absent
  \* A save.
  <2>2. ASSUME orders' = orders, disk'.books.booked = mem.booked, run.pc # "idle"
        PROVE  [Ledger!Next]_Ledger!vars
    <3>1. {id \in OrderIds : ~Absent(id)}' = {id \in OrderIds : ~Absent(id)}
      BY <2>2 DEF Absent
    <3>2. CASE mem.booked = disk.books.booked
      BY <2>1, <2>2, <3>2
    <3>3. CASE mem.booked # disk.books.booked
      <4>1. PICK id \in Ledger!Owed : mem.booked = [disk.books.booked EXCEPT ![id] = 1]
        BY <2>2, <3>3, SaveBooksOne
      <4>2. Ledger!Book(id)
        BY <2>2, <3>1, <4>1 DEF Ledger!Book
      <4>3. id \in OrderIds
        BY <4>1 DEF Ledger!Owed
      <4> QED
        BY <4>2, <4>3 DEF Ledger!Next
    <3> QED
      BY <3>2, <3>3
  <2>3. CASE UNCHANGED vars
    BY <2>1, <2>3 DEF vars
  <2>4. CASE Wake \/ ReconcileNothing \/ ReconcileOpen \/ DecideSeen \/ PostDuplicate
             \/ PollTimeout \/ Commit \/ NextBar
    BY <2>1, <2>4 DEF Wake, ReconcileNothing, ReconcileOpen, DecideSeen, PostDuplicate,
                      PollTimeout, Commit, NextBar
  <2>5. CASE ReconcileBook \/ PollBook
    BY <2>1, <2>5 DEF ReconcileBook, PollBook, TypeOK, Dir
  <2>6. CASE ReconcileDiscard \/ ReconcileSave \/ PostRefused \/ Persist
    <3>1. orders' = orders /\ run.pc # "idle"
      BY <2>6 DEF ReconcileDiscard, ReconcileSave, PostRefused, Persist
    <3>2. disk'.books = mem'
      BY <2>6 DEF ReconcileDiscard, ReconcileSave, PostRefused, Persist, TypeOK, Dir
    <3>3. mem'.booked = mem.booked
      BY <2>6 DEF ReconcileDiscard, ReconcileSave, PostRefused, Persist, TypeOK, Books
    <3> QED
      BY <2>2, <3>1, <3>2, <3>3
  <2>7. ASSUME NEW side, NEW qty, NEW mode, NEW kill, Submit(side, qty, mode, kill),
               run.pc = "decide", orders' = orders
        PROVE  [Ledger!Next]_Ledger!vars
    <3>1. disk'.books.booked = mem.booked
      BY <2>7 DEF Submit, TypeOK, Dir, Books
    <3> QED
      BY <2>2, <2>7, <3>1
  <2>8. CASE DecideKilled
    BY <2>1, <2>7, <2>8 DEF DecideKilled
  <2>9. CASE DecideTrip
    <3>1. PICK qty \in Quantized(mem.pos) :
            IF qty > 0 THEN Submit("sell", qty, "trip", TRUE)
                       ELSE GoPersist(TRUE) /\ disk' = [disk EXCEPT !.kill = TRUE]
      BY <2>9 DEF DecideTrip
    <3>2. disk' = [disk EXCEPT !.kill = TRUE] => disk'.books = disk.books
      BY DEF TypeOK, Dir
    <3> QED
      BY <2>1, <2>7, <2>9, <3>1, <3>2 DEF DecideTrip
  <2>10. CASE DecideTarget
    <3>1. \/ UNCHANGED disk
          \/ \E side \in Sides : \E qty : Submit(side, qty, "trade", FALSE)
      BY <2>10 DEF DecideTarget, Sides
    <3> QED
      BY <2>1, <2>7, <2>10, <3>1 DEF DecideTarget
  \* An order is placed: the books on disk have every earlier one.
  <2>11. CASE PostAccepted
    <3>1. run.id \in OrderIds /\ Absent(run.id) /\ disk.books.pending = run.id
          /\ disk' = disk
      BY <2>11 DEF PostAccepted, TypeOK, CoverInv, Absent
    <3>2. Ledger!Owed = {}
      BY <3>1 DEF Ledger!Owed, CoverInv, Covers
    <3>3. {id \in OrderIds : ~Absent(id)}'
            = {id \in OrderIds : ~Absent(id)} \cup {run.id}
      <4>1. orders'[run.id].state = "open"
            /\ \A j \in OrderIds : j # run.id => orders'[j] = orders[j]
        BY <2>11, <3>1 DEF PostAccepted, TypeOK
      <4> QED
        BY <3>1, <4>1 DEF Absent
    <3>4. Ledger!Place(run.id)
      BY <3>1, <3>2, <3>3 DEF Ledger!Place
    <3> QED
      BY <3>1, <3>4 DEF Ledger!Next
  <2>12. CASE SkipCommit \/ Crash
    BY <2>1, <2>12 DEF SkipCommit, Crash, LeftBehind
  <2>13. CASE Venue
    <3>1. PICK id \in OrderIds : VenueFinish(id) \/ VenueShow(id)
      BY <2>13 DEF Venue
    <3>2. disk' = disk
      BY <3>1 DEF VenueFinish, VenueShow
    <3>3. \A j \in OrderIds : Absent(j)' <=> Absent(j)
      <4>1. CASE VenueFinish(id)
        <5>1. orders[id].state = "open" /\ orders'[id].state = "terminal"
              /\ \A j \in OrderIds : j # id => orders'[j] = orders[j]
          BY <4>1 DEF VenueFinish, TypeOK, Order
        <5> QED
          BY <5>1 DEF Absent
      <4>2. CASE VenueShow(id)
        BY <4>2 DEF VenueShow, Absent, TypeOK, Order
      <4> QED
        BY <3>1, <4>1, <4>2
    <3> QED
      BY <3>2, <3>3
  <2>14. CASE OperatorKill
    BY <2>1, <2>14 DEF OperatorKill, TypeOK, Dir
  <2> QED
    BY <2>3, <2>4, <2>5, <2>6, <2>8, <2>9, <2>10, <2>11, <2>12, <2>13, <2>14
    DEF Next, Engine, Reconcile, Decide, SubmitAndBook
<1> QED
  BY <1>1, <1>2, TypeCorrect, BookingInvariant, CoverInvariant, PositionInvariant,
     IntentSharedInvariant, PTL DEF Spec, ImplementsLedger, Ledger!Spec
=============================================================================
