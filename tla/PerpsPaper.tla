----------------------------- MODULE PerpsPaper -----------------------------
(***************************************************************************)
(* The shadow book of the perps desk (perps/paper.py without a venue): the *)
(* accounts of one tick, which are funding, interest, the day's equity and *)
(* the fills, and the state file they survive in.                          *)
(*                                                                         *)
(* Time is counted in funding intervals, which are also the days of the    *)
(* rebalance.  Prices are small integers, the far touch is one Spread from *)
(* the mark; those of the instance are such that averages come out whole.  *)
(* What the strategy wants, and what the risk policy blocks, is a free     *)
(* choice (PerpsPortfolios, PerpsDesk).                                    *)
(***************************************************************************)
EXTENDS Integers, Sequences, FiniteSets, FiniteSetsExt

CONSTANTS
    Assets,
    Prices, Rates,      \* settlement marks, funding rates of an interval
    Spread, FeePerLot, FreePerInterest,
    Cap,                \* contracts a target asks for at most, either way
    Bankroll, Kill,     \* Kill: percent lost from the peak that flatten
    Every,              \* intervals between rebalances
    MaxTime             \* bound: intervals, with one tick in each that accrues

VARIABLES
    market,      \* asset -> its mark
    history,     \* the venue's funding history, and what the book held at each time
    tripped,     \* state/KILL_SWITCH_PERPS exists
    stateFile,   \* perps_paper_state.json
    engine       \* the running engine: book, marks and quotes; Off between sessions

paperVars == <<market, history, tripped, stateFile, engine>>

Off == <<>>
Now == Len(history)
Running == engine # Off

\* Position: contracts, average price, and when it was opened; n = 0 is none.
Flat == [n |-> 0, avg |-> 0, opened |-> 0]

\* Book.new.  spent (what the fills cost) and missed (assets traded while a
\* funding request had failed) are observers.
NewBook == [cash |-> Bankroll, pos |-> [a \in Assets |-> Flat],
            realized |-> 0, fees |-> 0, funding |-> 0, interest |-> 0, peak |-> Bankroll,
            funded |-> [a \in Assets |-> 0], interestAt |-> 0, rebalanced |-> -Every,
            spent |-> 0, missed |-> {}]

Init ==
    /\ market \in [Assets -> Prices]
    /\ history = <<>> /\ tripped = FALSE
    /\ stateFile = NewBook /\ engine = Off

-----------------------------------------------------------------------------
Magnitude(x) == IF x < 0 THEN -x ELSE x
Lesser(x, y) == IF x < y THEN x ELSE y
Positive(x) == IF x > 0 THEN x ELSE 0
Open(b) == {a \in Assets : b.pos[a].n # 0}
MarkOf(b, marks, a) == IF marks[a] # 0 THEN marks[a] ELSE b.pos[a].avg

\* equity
Equity(b, marks) ==
    b.cash + MapThenSumSet(LAMBDA a : b.pos[a].n * (MarkOf(b, marks, a) - b.pos[a].avg), Open(b))

\* Funded with no look at when the position was opened.
FundedWhole(b, a) ==
    LET due == {t \in DOMAIN history : t > b.funded[a]}
        pay == MapThenSumSet(LAMBDA t : -b.pos[a].n * history[t].price[a] * history[t].rate[a], due)
    IN [b EXCEPT !.cash = @ + pay, !.funding = @ + pay, !.funded[a] = Now]

\* accrue_funding for one asset: every row after the last one applied and
\* after the position was opened.
Funded(b, a) ==
    LET due == {t \in DOMAIN history : t > b.funded[a] /\ t > b.pos[a].opened}
        pay == MapThenSumSet(LAMBDA t : -b.pos[a].n * history[t].price[a] * history[t].rate[a], due)
    IN [b EXCEPT !.cash = @ + pay, !.funding = @ + pay, !.funded[a] = Now]

\* accrue_funding: the assets in failed could not be asked for.
AccrueFunding(b, failed) == FoldSet(LAMBDA a, acc : Funded(acc, a), b, Open(b) \ failed)

\* accrue_interest, on the equity no margin is held against.
AccrueInterest(b, marks) ==
    LET margin == MapThenSumSet(LAMBDA a : Magnitude(b.pos[a].n) * MarkOf(b, marks, a), Open(b)) \div 2
        inc == (Positive(Equity(b, marks) - margin) * (Now - b.interestAt)) \div FreePerInterest
    IN [b EXCEPT !.cash = @ + inc, !.interest = @ + inc, !.interestAt = Now]

\* roll_day, of which only the peak is asked for again here.
RollDay(b, marks) ==
    [b EXCEPT !.peak = IF Equity(b, marks) > @ THEN Equity(b, marks) ELSE @]

\* What the book is when the tick comes to its decisions.
Accrued(b, marks, failed) == RollDay(AccrueInterest(AccrueFunding(b, failed), marks), marks)

-----------------------------------------------------------------------------
\* _apply_fill: realized on what closes; the average price blends what is
\* added, stays when some is closed, and is the fill's after a flip.
ApplyFill(b, a, signed, px) ==
    LET p == b.pos[a]
        new == p.n + signed
        opposite == p.n # 0 /\ (p.n > 0) # (signed > 0)
        gain == IF opposite
                THEN Lesser(Magnitude(p.n), Magnitude(signed)) * (px - p.avg) * (IF p.n > 0 THEN 1 ELSE -1)
                ELSE 0
        added == Magnitude(new) - Magnitude(p.n)
        avg == CASE p.n = 0 \/ ((p.n > 0) = (new > 0) /\ added > 0)
                        -> (p.avg * Magnitude(p.n) + px * added) \div Magnitude(new)
                 [] (p.n > 0) = (new > 0) -> p.avg
                 [] OTHER -> px
        fee == Magnitude(signed) * FeePerLot
    IN [b EXCEPT !.cash = @ + gain - fee, !.realized = @ + gain, !.fees = @ + fee,
                 !.pos[a] = IF new = 0 THEN Flat
                            ELSE [n |-> new, avg |-> avg,
                                  opened |-> IF p.n # 0 THEN p.opened ELSE Now],
                 !.spent = @ + signed * px]

\* _trade and _fill_shadow: at the far touch of the last quote, if there is one.
Trade(b, quotes, a, signed) ==
    IF quotes[a] = 0 \/ signed = 0 THEN b
    ELSE ApplyFill(b, a, signed, IF signed > 0 THEN quotes[a] + Spread ELSE quotes[a] - Spread)

\* Each asset is traded once in a tick.
Traded(b, quotes, goal) ==
    LET done == FoldSet(LAMBDA a, acc : Trade(acc, quotes, a, goal[a] - b.pos[a].n), b, Assets)
    IN [done EXCEPT !.missed = @ \cup {a \in Open(b) : b.funded[a] < Now /\ done.pos[a] # b.pos[a]}]

\* ladder_scale(...) = 0.0
Drawn(b, marks) == 100 * Equity(b, marks) <= (100 - Kill) * b.peak

\* int(t * eq / m) for any weight: risk is added in a due rebalance only, and
\* an asset without a mark, inside the band or blocked keeps what it has.
Goals(b, marks) ==
    {goal \in [Assets -> -Cap..Cap] : \A a \in Assets :
        LET n == b.pos[a].n IN
        \/ goal[a] = n
        \/ /\ marks[a] # 0
           /\ \/ Now - b.rebalanced >= Every
              \/ Magnitude(goal[a]) < Magnitude(n) /\ (goal[a] = 0 \/ (goal[a] > 0) = (n > 0))}

Exits(b) == {goal \in [Assets -> -Cap..Cap] : \A a \in Assets : goal[a] \in {0, b.pos[a].n}}

-----------------------------------------------------------------------------
\* A session starts with an engine that loads the book.
Start ==
    /\ ~Running
    /\ engine' = [book |-> stateFile, marks |-> [a \in Assets |-> 0], quotes |-> [a \in Assets |-> 0]]
    /\ UNCHANGED <<market, history, tripped, stateFile>>

\* The engine after refresh_marks: some assets are not listed, some listed
\* ones have no quote; for those the last known stays.
Refreshed(listed, quoted) ==
    [engine EXCEPT !.marks = [a \in Assets |-> IF a \in listed THEN market[a] ELSE @[a]],
                   !.quotes = [a \in Assets |-> IF a \in quoted THEN market[a] ELSE @[a]]]

\* The tick as far as the book has it when orders are decided, for any
\* requests that fail.
Observed ==
    {[e EXCEPT !.book = Accrued(@, e.marks, failed)] :
        e \in {Refreshed(s[1], s[2]) : s \in {x \in (SUBSET Assets) \X (SUBSET Assets) : x[2] \subseteq x[1]}},
        failed \in SUBSET Assets}

Goes == Running /\ ~tripped /\ engine.book.interestAt < Now

\* No panel, or a strategy that raises: what has accrued stays in memory, and
\* is saved by the agent's graph unless it raised.
TickUndecided ==
    /\ Goes
    /\ \E e \in Observed : engine' = e /\ stateFile' \in {stateFile, e.book}
    /\ UNCHANGED <<market, history, tripped>>

\* The drawdown kill: whatever could be closed is, and the switch is thrown.
TickFlatten ==
    /\ Goes
    /\ \E e \in Observed : \E goal \in Exits(e.book) :
          LET b == Traded(e.book, e.quotes, goal) IN
          /\ Drawn(e.book, e.marks) /\ Open(e.book) # {}
          /\ engine' = [e EXCEPT !.book = b] /\ stateFile' = b
    /\ tripped' = TRUE
    /\ UNCHANGED <<market, history>>

\* The rest of the tick, stamped if a rebalance was due.
TickRebalance ==
    /\ Goes
    /\ \E e \in Observed : \E goal \in Goals(e.book, e.marks) :
          LET due == Now - e.book.rebalanced >= Every
              b == [Traded(e.book, e.quotes, goal) EXCEPT !.rebalanced = IF due THEN Now ELSE @]
          IN /\ ~Drawn(e.book, e.marks) \/ Open(e.book) = {}
             /\ engine' = [e EXCEPT !.book = b] /\ stateFile' = b
    /\ UNCHANGED <<market, history, tripped>>

\* Under the switch a tick only saves.
TickKill ==
    /\ Running /\ tripped /\ stateFile' = engine.book
    /\ UNCHANGED <<market, history, tripped, engine>>

\* The session ends at the switch or at its last minute and saves, or is
\* killed, within a tick or between two.
EndSession ==
    /\ Running /\ stateFile' = engine.book /\ engine' = Off
    /\ UNCHANGED <<market, history, tripped>>

Killed ==
    /\ Running /\ engine' = Off
    /\ UNCHANGED <<market, history, tripped, stateFile>>

\* Nothing but the owner takes the switch away.
OwnerResumes ==
    /\ tripped /\ tripped' = FALSE
    /\ UNCHANGED <<market, history, stateFile, engine>>

\* The venue publishes the funding of the interval, and prices move.
NextInterval ==
    /\ Now < MaxTime
    /\ \E rate \in [Assets -> Rates] :
          history' = Append(history, [rate |-> rate, price |-> market,
                                      held |-> [a \in Assets |-> stateFile.pos[a].n]])
    /\ market' \in [Assets -> Prices]
    /\ UNCHANGED <<tripped, stateFile, engine>>

Next ==
    \/ Start \/ TickKill \/ TickUndecided \/ TickFlatten \/ TickRebalance
    \/ EndSession \/ Killed \/ OwnerResumes \/ NextInterval

Spec == Init /\ [][Next]_paperVars

-----------------------------------------------------------------------------
Copies == {stateFile} \cup IF Running THEN {engine.book} ELSE {}

\* The cash is the bankroll and the profit, funding, interest and fees the book
\* reports; and what it holds at cost is what its fills cost, however it added,
\* reduced and flipped.
CashAddsUp(b) ==
    /\ b.cash = Bankroll + b.realized + b.funding + b.interest - b.fees
    /\ MapThenSumSet(LAMBDA a : b.pos[a].n * b.pos[a].avg, Assets) = b.spent + b.realized

\* Every funding time is paid once and for the contracts held then, or is
\* still to be paid for as many; but for assets traded in a tick whose funding
\* request failed.
FundingPaidOnce(b) ==
    b.missed = {} =>
        /\ b.funding = MapThenSumSet(
               LAMBDA a : MapThenSumSet(LAMBDA t : -history[t].held[a] * history[t].price[a] * history[t].rate[a],
                                        1 .. b.funded[a]), Assets)
        /\ \A a \in Assets : \A t \in b.funded[a] + 1 .. Now :
               history[t].held[a] \in {0, IF t > b.pos[a].opened THEN b.pos[a].n ELSE 0}

\* A killed engine, a session cut before its save, a tick that raises, and
\* positions that are added to, cut, flipped, closed and opened again: the book
\* that is saved and the one in memory explain every dollar.
PaperLedger == \A b \in Copies : CashAddsUp(b) /\ FundingPaidOnce(b)
=============================================================================
