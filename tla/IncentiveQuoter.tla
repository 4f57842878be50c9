-------------------------- MODULE IncentiveQuoter --------------------------
(***************************************************************************)
(* The incentive quoter (scripts/kalshi_incentive_quote.py): a live pass   *)
(* reads the resting orders, cancels the ones that stopped earning, and    *)
(* rests a bid on both sides of fresh markets within its capital.  A dry   *)
(* pass, or one whose first read fails, changes nothing and is left out.   *)
(*                                                                         *)
(* Prices are tenths of a dollar.  The exchange prices every order as the  *)
(* YES price, so a NO bid at q is an ask at Dollar - q.  An order's client *)
(* id is the market, side, price and day, so the record stands for the id. *)
(***************************************************************************)
EXTENDS Integers, FiniteSets, FiniteSetsExt, Sequences, SequencesExt

CONSTANTS
    QuotedMarkets,  \* tickers with a liquidity program
    References,     \* <<YES, NO>> reference prices a book may have
    Capital,        \* --capital
    MaxMarkets,     \* --markets
    MaxPerMarket,   \* --max-per-market
    ReadsFail,      \* the second read of the resting orders may fail
    MaxQuoteDay,    \* UTC days
    MaxPasses       \* passes

VARIABLES
    resting,   \* orders resting at the exchange
    seen,      \* ids the exchange has accepted
    quoteLog,  \* intents in kalshi_incentive_orders.jsonl
    quoteKill, \* KILL_SWITCH_KALSHI
    pass,      \* the running pass
    passes,    \* passes started
    quoteDay   \* the UTC day

quoterVars == <<resting, seen, quoteLog, quoteKill, pass, passes, quoteDay>>

Dollar == 10

\* Programs are finitely many; a reference price that is not positive is refused.
QuoterAssumption ==
    /\ IsFiniteSet(QuotedMarkets)
    /\ References \subseteq (1 .. (Dollar - 1)) \X (1 .. (Dollar - 1))
    /\ Capital \in Nat /\ MaxMarkets \in Nat /\ MaxPerMarket \in Nat

\* An assessed book: its reference prices and why it would not be kept or
\* funded: under its target size, ended or unreadable.
Book == [refs : References, earning : BOOLEAN]

-----------------------------------------------------------------------------
\* What an order locks: its YES price for a bid, the rest of the dollar for an ask.
Cost(o) == (IF o.side = "bid" THEN o.price ELSE Dollar - o.price) * o.count
\* What reconcile counts: px * ct, whatever the side.
Counted(o) == o.price * o.count
Ours(o) == IF o.side = "bid" THEN o.price ELSE Dollar - o.price
Ref(o, b) == IF o.side = "bid" THEN b.refs[1] ELSE b.refs[2]

\* Why an order is cancelled: the program ended or the book cannot be read or
\* is under target, or the price is more than two ticks below the reference.
Stale(o, b) == ~b.earning \/ Ref(o, b) - Ours(o) > 2

\* plan_market: whole contracts on both sides for the budget.
Budget == Min({MaxPerMarket, Capital \div Max({MaxMarkets, 1})})
Size(b) == Budget \div (b.refs[1] + b.refs[2])
Pair(m, b) == <<[market |-> m, side |-> "bid", price |-> b.refs[1], count |-> Size(b), day |-> 0],
                [market |-> m, side |-> "ask", price |-> Dollar - b.refs[2], count |-> Size(b), day |-> 0]>>
Fundable(b) == b.earning /\ Size(b) >= 1

\* One market more: its two legs if they fit in what is left.
Fund(acc, pair, headroom) ==
    LET cost == Cost(pair[1]) + Cost(pair[2])
    IN IF acc.spent + cost > headroom THEN acc
       ELSE [spent |-> acc.spent + cost, legs |-> acc.legs \o pair]

\* The legs of the markets that fit, in the order of their rank: a market that
\* does not fit is skipped, a later one may.
Funded(ranked, books, headroom) ==
    LET last == Min({MaxMarkets, Len(ranked)})
        funded[n \in 0 .. last] ==
            IF n = 0 THEN [spent |-> 0, legs |-> <<>>]
            ELSE Fund(funded[n - 1], Pair(ranked[n], books[ranked[n]]), headroom)
    IN funded[last].legs

Idle == [pc |-> "idle"]

Init ==
    /\ resting = {} /\ seen = {} /\ quoteLog = {}
    /\ quoteKill = FALSE
    /\ pass = Idle /\ passes = 0
    /\ quoteDay = 1

-----------------------------------------------------------------------------
\* Both gates open: main up to reconcile's own read of the resting orders.
\* That read may fail; then nothing is cancelled and nothing counts.
Begin ==
    /\ pass = Idle /\ ~quoteKill /\ passes < MaxPasses
    /\ passes' = passes + 1
    /\ \/ pass' = [pc |-> "reconcile", todo |-> resting, kept |-> {}]
       \/ ReadsFail /\ pass' = [pc |-> "reconcile", todo |-> {}, kept |-> {}]
    /\ UNCHANGED <<resting, seen, quoteLog, quoteKill, quoteDay>>

\* A market whose cancel failed does not count as held.
ReconcileForget ==
    /\ pass.pc = "reconcile"
    /\ \E o \in pass.todo, b \in Book :
          \/ /\ ~Stale(o, b)
             /\ pass' = [pass EXCEPT !.todo = @ \ {o}, !.kept = @ \cup {o}]
             /\ UNCHANGED resting
          \/ /\ Stale(o, b)
             /\ \E gone \in BOOLEAN : resting' = IF gone THEN resting \ {o} ELSE resting
             /\ pass' = [pass EXCEPT !.todo = @ \ {o}]
    /\ UNCHANGED <<seen, quoteLog, quoteKill, passes, quoteDay>>

\* One order of reconcile's loop, its market's book as it was read: kept, cancelled, or a cancel that raises
\* (the order may be gone all the same), which keeps it.
Reconcile ==
    /\ pass.pc = "reconcile"
    /\ \E o \in pass.todo, b \in Book :
          LET left == [pass EXCEPT !.todo = @ \ {o}] IN
          \/ ~Stale(o, b) /\ pass' = [left EXCEPT !.kept = @ \cup {o}] /\ UNCHANGED resting
          \/ Stale(o, b) /\ pass' = left /\ resting' = resting \ {o}
          \/ /\ Stale(o, b) /\ pass' = [left EXCEPT !.kept = @ \cup {o}]
             /\ \E gone \in BOOLEAN : resting' = IF gone THEN resting \ {o} ELSE resting
    /\ UNCHANGED <<seen, quoteLog, quoteKill, passes, quoteDay>>

\* Select: fresh markets that can be funded, in any rank, within the headroom.
Select ==
    /\ pass.pc = "reconcile" /\ pass.todo = {}
    /\ LET held == {o.market : o \in pass.kept}
           headroom == Capital - MapThenSumSet(Counted, pass.kept)
       IN \E books \in [QuotedMarkets \ held -> Book] :
             LET fundable == {m \in DOMAIN books : Fundable(books[m])} IN
             \E ranked \in SetToSeqs(fundable) :
                 pass' = [pc |-> "leg", legs |-> Funded(ranked, books, headroom)]
    /\ UNCHANGED <<resting, seen, quoteLog, quoteKill, passes, quoteDay>>

\* The pass ends with nothing left to send, or dies.
End ==
    /\ pass # Idle
    /\ pass' = Idle
    /\ UNCHANGED <<resting, seen, quoteLog, quoteKill, passes, quoteDay>>

\* The intent is logged under today's id, then the kill switch is read again.
Intend ==
    /\ pass.pc = "leg" /\ pass.legs # <<>>
    /\ LET o == [Head(pass.legs) EXCEPT !.day = quoteDay] IN
          /\ quoteLog' = quoteLog \cup {o}
          /\ pass' = IF quoteKill THEN Idle
                     ELSE [pc |-> "send", order |-> o, legs |-> Tail(pass.legs)]
    /\ UNCHANGED <<resting, seen, quoteKill, passes, quoteDay>>

\* Only a new id is accepted; the size is part of the request, not of the id.
Id(o) == [o EXCEPT !.count = 0]
New(o) == \A s \in seen : Id(s) # Id(o)

Accept(o) ==
    /\ New(o)
    /\ resting' = resting \cup {o} /\ seen' = seen \cup {o}

\* create_order: accepted and answered.
SendOk ==
    /\ pass.pc = "send"
    /\ Accept(pass.order)
    /\ pass' = [pc |-> "leg", legs |-> pass.legs]
    /\ UNCHANGED <<quoteLog, quoteKill, passes, quoteDay>>

\* create_order raises, which stops the pass: refused (crossing, a known id,
\* no funds), or accepted with an answer that never came, so that the client's
\* next try is refused as a duplicate.
SendError ==
    /\ pass.pc = "send"
    /\ \/ Accept(pass.order)
       \/ UNCHANGED <<resting, seen>>
    /\ pass' = Idle
    /\ UNCHANGED <<quoteLog, quoteKill, passes, quoteDay>>

\* --cancel-all, between two passes; a cancel that raises stops it.
CancelAll ==
    /\ pass = Idle /\ ~quoteKill /\ resting # {}
    /\ \E left \in SUBSET resting : left # resting /\ resting' = left
    /\ UNCHANGED <<seen, quoteLog, quoteKill, pass, passes, quoteDay>>

\* Somebody trades with a resting order, the owner sets the switch, the day turns.
Fill ==
    /\ \E o \in resting : resting' = resting \ {o}
    /\ UNCHANGED <<seen, quoteLog, quoteKill, pass, passes, quoteDay>>

Trip ==
    /\ quoteKill' = ~quoteKill
    /\ UNCHANGED <<resting, seen, quoteLog, pass, passes, quoteDay>>

NextDay ==
    /\ quoteDay < MaxQuoteDay
    /\ quoteDay' = quoteDay + 1
    /\ UNCHANGED <<resting, seen, quoteLog, quoteKill, pass, passes>>

Next ==
    \/ Begin \/ Reconcile \/ Select \/ Intend \/ SendOk \/ SendError \/ End
    \/ CancelAll \/ Fill \/ Trip \/ NextDay

Spec == Init /\ [][Next]_quoterVars

-----------------------------------------------------------------------------
(* Properties *)

\* A market never rests two quotes on one side, however a pass ended: lost
\* answers, failed cancels and restarts are covered by reading the exchange
\* first and by ids that repeat within a day.
OneQuotePerSide ==
    \A o, p \in resting : o.market = p.market /\ o.side = p.side => o = p

\* Every order the exchange ever accepted was logged before it was sent,
\* also if the pass died in between (main, "log BEFORE sending").
LoggedBeforeSent == seen \subseteq quoteLog

\* A pass leaves the exchange with nothing but logged orders, one a side.
QuotesAccounted == OneQuotePerSide /\ LoggedBeforeSent

-----------------------------------------------------------------------------
(* What makes these hold, as an inductive invariant.                        *)

Quotes == [market : QuotedMarkets, side : {"bid", "ask"}, price : Int, count : Int, day : Int]

TypeOK ==
    /\ resting \in SUBSET Quotes /\ seen \in SUBSET Quotes /\ quoteLog \in SUBSET Quotes
    /\ quoteKill \in BOOLEAN
    /\ pass \in {Idle} \cup [pc : {"reconcile"}, todo : SUBSET Quotes, kept : SUBSET Quotes]
                       \cup [pc : {"leg"}, legs : Seq(Quotes)]
                       \cup [pc : {"send"}, order : Quotes, legs : Seq(Quotes)]
    /\ passes \in Nat /\ quoteDay \in Nat

\* Not for the same side of the same market.
Apart(o, p) == o.market = p.market => o.side # p.side

\* Nothing rests that the pass has not read, and what it is still to send is
\* apart from what rests and from each other.
QuoterInv ==
    /\ pass.pc = "reconcile" => resting \subseteq pass.todo \cup pass.kept
    /\ pass.pc \in {"leg", "send"} =>
          \A i \in 1 .. Len(pass.legs) :
              /\ \A j \in 1 .. Len(pass.legs) : i # j => Apart(pass.legs[i], pass.legs[j])
              /\ \A o \in resting : Apart(pass.legs[i], o)
    /\ pass.pc = "send" =>
          /\ pass.order \in quoteLog
          /\ \A i \in 1 .. Len(pass.legs) : Apart(pass.order, pass.legs[i])
          /\ \A o \in resting : Apart(pass.order, o)
    /\ QuotesAccounted

=============================================================================
