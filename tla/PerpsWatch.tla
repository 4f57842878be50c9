----------------------------- MODULE PerpsWatch ------------------------------
(***************************************************************************)
(* The weekly watch of the perps desk (scripts/perps_watch.py): what it    *)
(* reports of the venue's listings and of each asset's funding, and the    *)
(* mark file with which it remembers what it has said.                     *)
(*                                                                         *)
(* A reading is [n, zero, carry]: intervals, the share of them inside the  *)
(* deadband and the yearly carry, both in percent.  drift_check's findings *)
(* depend on no memory and are a free choice.                              *)
(***************************************************************************)
EXTENDS Integers, FiniteSets

CONSTANTS
    Assets,         \* RESEARCH_UNIVERSE
    Metals, Coins,  \* tickers that specs.py does not know, outside crypto and in it
    Readings,       \* what the funding of an asset may read
    MinIntervals, Half, ShareMove, CarryMove,
    MaxWeek         \* bound: runs

VARIABLES
    listed,     \* tickers the venue lists besides the known ones
    funding,    \* asset -> its reading
    mark,       \* perps_watch_mark.json
    told,       \* what the owner knows from the emails, and what a cut-off run lost
    report,     \* the last run's findings
    week

\* Tickers that specs.py does not know are none of the universe, and a reading
\* that counts has at least one interval.
WatchAssumption ==
    /\ Assets \cap Coins = {} /\ Metals \cap Coins = {}
    /\ MinIntervals \in Nat \ {0}

watchVars == <<listed, funding, mark, told, report, week>>

NoReading == [n |-> 0, zero |-> 0, carry |-> 0]
NoReport == [ran |-> FALSE, listings |-> {}, changes |-> {}, quiet |-> TRUE]

\* Until told otherwise the owner knows what the docs say: funding rounds to zero.
Init ==
    /\ listed = {} /\ funding = [a \in Assets |-> NoReading]
    /\ mark = [listings |-> {}, funding |-> [a \in Assets |-> NoReading]]
    /\ told = [live |-> {}, coins |-> [c \in Coins |-> 0], lost |-> {}]
    /\ report = NoReport /\ week = 0

-----------------------------------------------------------------------------
Gap(x, y) == IF x < y THEN y - x ELSE x - y
Quiet(r) == r.zero >= Half
Known(r) == r # NoReading

\* funding_changed without the crossing of the deadband's half.
MovedFar(prev, now) ==
    IF ~Known(prev) THEN ~Quiet(now)
    ELSE Gap(now.zero, prev.zero) >= ShareMove \/ Gap(now.carry, prev.carry) >= CarryMove

\* funding_changed
FundingChanged(prev, now) ==
    IF ~Known(prev) THEN ~Quiet(now)
    ELSE \/ Quiet(now) # Quiet(prev)
         \/ Gap(now.zero, prev.zero) >= ShareMove
         \/ Gap(now.carry, prev.carry) >= CarryMove

\* venue_check: the listings to report, and what is seen after it.
NewListings == {t \in listed : t \in Metals \/ t \notin mark.listings}

\* The assets whose reading counts, and those with news.  A thin history is
\* not marked.
Readable == {a \in Assets : funding[a].n >= MinIntervals}
Changed == {a \in Readable : FundingChanged(mark.funding[a], funding[a])}
Marked ==
    [listings |-> mark.listings \cup listed,
     funding |-> [a \in Assets |-> IF a \in Readable THEN funding[a] ELSE mark.funding[a]]]

\* The owner reads what is printed.
Heard(listings, changes) ==
    [live |-> {a \in Assets : IF a \in changes THEN ~Quiet(funding[a]) ELSE a \in told.live},
     coins |-> [c \in Coins |-> IF c \in listings THEN told.coins[c] + 1 ELSE told.coins[c]],
     lost |-> told.lost \ changes]

\* main: the mark is saved when there is something to say, before it is said;
\* drifted is whether drift_check or a delisting had anything.
Run ==
    /\ week < MaxWeek /\ week' = week + 1
    /\ \E drifted, cut \in BOOLEAN :
          LET notable == NewListings # {} \/ Changed # {} \/ drifted IN
          /\ cut => notable
          /\ mark' = IF notable THEN Marked ELSE mark
          /\ told' = IF cut THEN [told EXCEPT !.lost = @ \cup Changed \cup NewListings]
                     ELSE Heard(NewListings, Changed)
          /\ report' = IF cut THEN [NoReport EXCEPT !.quiet = FALSE]
                       ELSE [ran |-> TRUE, listings |-> NewListings, changes |-> Changed, quiet |-> ~notable]
    /\ UNCHANGED <<listed, funding>>

\* The venue cannot be reached: that is said, and nothing is remembered.
Unreachable ==
    /\ week < MaxWeek /\ week' = week + 1
    /\ report' = [NoReport EXCEPT !.quiet = FALSE]
    /\ UNCHANGED <<listed, funding, mark, told>>

\* Listings come and go, funding moves and its history grows.
Market ==
    /\ report # NoReport /\ report' = NoReport
    /\ listed' \in SUBSET (Metals \cup Coins)
    /\ \E a \in Assets, r \in Readings : funding' = [funding EXCEPT ![a] = r]
    /\ UNCHANGED <<mark, told, week>>

Next == Run \/ Unreachable \/ Market

Spec == Init /\ [][Next]_watchVars

-----------------------------------------------------------------------------
\* After a run that reports, the owner has been told of every listed coin, once,
\* and knows of each asset with enough history whether most of its intervals
\* charge; however the reading came there, over silent weeks, thin histories,
\* weeks without the venue and saves for another finding.  What a cut-off run
\* lost is excepted, until the asset crosses again.
WatchTells ==
    /\ \A c \in Coins : told.coins[c] <= 1
    /\ report.ran =>
          /\ \A c \in (Coins \cap listed) \ told.lost : told.coins[c] = 1
          /\ \A a \in Readable \ told.lost : (a \in told.live) = ~Quiet(funding[a])

-----------------------------------------------------------------------------
(* What makes this hold, as an inductive invariant.                         *)

TypeOK ==
    /\ listed \in SUBSET (Metals \cup Coins)
    /\ funding \in [Assets -> Readings \cup {NoReading}]
    /\ mark \in [listings : SUBSET (Metals \cup Coins), funding : [Assets -> Readings \cup {NoReading}]]
    /\ told \in [live : SUBSET Assets, coins : [Coins -> Nat], lost : SUBSET (Assets \cup Metals \cup Coins)]
    /\ report \in [ran : BOOLEAN, listings : SUBSET (Metals \cup Coins), changes : SUBSET Assets,
                   quiet : BOOLEAN]
    /\ week \in Nat

\* What the mark remembers is what the owner was told, but for what was lost: a
\* coin is told when it is first marked, an asset is known as it is marked.
WatchInv ==
    /\ \A c \in Coins : told.coins[c] = 0 \/ (c \in mark.listings /\ told.coins[c] = 1)
    /\ \A c \in (Coins \cap mark.listings) \ told.lost : told.coins[c] = 1
    /\ \A a \in Assets \ told.lost :
          a \in told.live <=> Known(mark.funding[a]) /\ ~Quiet(mark.funding[a])
    /\ WatchTells
==============================================================================
