----------------------------- MODULE KalshiBook -----------------------------
(***************************************************************************)
(* The book of the Kalshi 15-minute desk (quantfirm/kalshi/paper.py): any  *)
(* number of engine processes that load one JSON state file, fill and      *)
(* settle positions in memory, append settlements to one CSV trade log and *)
(* now and then write the state file back, unioning the open positions.    *)
(* The loop around the ticks is PaperEngine.run or, on the production      *)
(* desk, run_agent (quantfirm/kalshi/agent.py).                            *)
(*                                                                         *)
(* A session is one run of an engine process.  Each step below is what a   *)
(* process does between two points at which another process, the exchange, *)
(* or SIGKILL can come in.  Money is in whole units: a position of lot n   *)
(* costs n and pays 2n if it wins; fees are left out.                      *)
(***************************************************************************)
EXTENDS Integers, FiniteSets, FiniteSetsExt

CONSTANTS
    Driver,        \* "run" or "agent": the loop around the ticks
    Engines,       \* engine processes that may run at the same time
    Tickers,       \* 15-minute markets
    Metals,        \* what they are written on
    MetalOf,       \* the metal of each market
    Lots,          \* what count and fill price of a position can be, together
    Bankroll0,     \* bankroll0
    StopLoss,      \* daily_stop_frac * bankroll, in units
    Adapters,      \* the books in use, of "shadow", "maker" and "live"
    MaxSessions,   \* sessions started in a behaviour
    MaxCrash,      \* of which so many may be killed
    DistinctKeys,  \* TRUE: no two fills agree in all that _pos_key looks at
    AtomicSaves,   \* TRUE: two processes never save at the same time
    OrderErrors    \* TRUE: create_order may raise after the exchange filled

ASSUME DriverAssumption == Driver \in {"run", "agent"}
ASSUME SetAssumption   == /\ IsFiniteSet(Lots) /\ Lots \subseteq Nat \ {0}
                          /\ MetalOf \in [Tickers -> Metals]
                          /\ Adapters \subseteq {"shadow", "maker", "live"}
ASSUME CountAssumption == {Bankroll0, StopLoss, MaxSessions, MaxCrash} \subseteq Nat
ASSUME FlagAssumption  == {DistinctKeys, AtomicSaves, OrderErrors} \subseteq BOOLEAN

VARIABLES
    market,    \* "open", or the result once the exchange has settled it
    kill,      \* state/KILL_SWITCH_KALSHI exists
    disk,      \* kalshi_paper_state.json: open positions and cash per book
    log,       \* rows of kalshi_paper_trades.csv
    eng,       \* the memory of each engine process
    sessions,  \* sessions started so far
    killed,    \* the sessions that were killed
    filled     \* observer: every position ever filled

vars == <<market, kill, disk, log, eng, sessions, killed, filled>>

-----------------------------------------------------------------------------
Books == {"shadow", "maker", "live"}
Sides == {"yes", "no"}

\* PaperPosition.  session tells apart fills the code tells apart only by
\* entry_ts or order_id.
Fill == [adapter : Books, ticker : Tickers, side : Sides, lot : Lots,
         session : 1..MaxSessions]

\* PaperState._pos_key.
Key(p) == <<p.adapter, p.ticker, p.side, p.lot>>
Keys(ps) == {Key(p) : p \in ps}

\* A row of the trade log, and the session that appended it.
Row == [fill : Fill, by : 1..MaxSessions]

Quote == [ticker : Tickers, side : Sides, lot : Lots]

Pcs == {"off", "loaded", "tick", "trade", "settle", "saving", "lastsave"}

\* The JSON state file.
State == [open : SUBSET Fill, cash : [Books -> Int]]

NoCash == [b \in Books |-> 0]
NoState == [open |-> {}, cash |-> NoCash]

\* What an engine process has in memory; image is the temporary file of a save
\* that has not replaced the state file yet.
Memory == [pc : Pcs, session : 0..MaxSessions, open : SUBSET Fill,
           cash : [Books -> Int], allowed : SUBSET Books, live : BOOLEAN,
           quotes : SUBSET Quote, image : State]

Off == [pc |-> "off", session |-> 0, open |-> {}, cash |-> NoCash,
        allowed |-> {}, live |-> FALSE, quotes |-> {},
        image |-> NoState]

TypeOK ==
    /\ market \in [Tickers -> {"open"} \cup Sides]
    /\ kill \in BOOLEAN
    /\ disk \in State
    /\ log \subseteq Row
    /\ eng \in [Engines -> Memory]
    /\ \A e \in Engines : eng[e].pc # "trade" => eng[e].allowed = {}
    /\ sessions \in 0..MaxSessions
    /\ killed \subseteq 1..MaxSessions
    /\ filled \subseteq Fill

Wins(p) == market[p.ticker] = p.side
Payout(p) == IF Wins(p) THEN 2 * p.lot ELSE 0
Pnl(p) == Payout(p) - p.lot

-----------------------------------------------------------------------------
Init ==
    /\ market = [t \in Tickers |-> "open"]
    /\ kill = FALSE
    /\ disk = [open |-> {}, cash |-> [b \in Books |-> Bankroll0]]
    /\ log = {}
    /\ eng = [e \in Engines |-> Off]
    /\ sessions = 0
    /\ killed = {}
    /\ filled = {}

\* Saved without the union: the plain rewrite it replaced.
SavedWhole(m, settled) ==
    [open |-> {p \in m.open : Key(p) \notin settled}, cash |-> m.cash]

\* Saved that does not drop what has settled.
SavedResurrects(m, settled) ==
    [open |-> m.open \cup {p \in disk.open : Key(p) \notin Keys(m.open)}, cash |-> m.cash]

\* Saved that forgets to write the cash.
SavedOldCash(m, settled) ==
    LET merged == m.open \cup {p \in disk.open : Key(p) \notin Keys(m.open)}
    IN  [open |-> {p \in merged : Key(p) \notin settled}, cash |-> disk.cash]

\* PaperState.save: what is in memory wins, what only the disk has is kept,
\* what has settled is dropped.  Cash is simply overwritten.
Saved(m, settled) ==
    LET merged == m.open \cup {p \in disk.open : Key(p) \notin Keys(m.open)}
    IN  [open |-> {p \in merged : Key(p) \notin settled}, cash |-> m.cash]

\* PaperEngine._settled_keys.
SettledKeys == {Key(r.fill) : r \in log}

\* PaperEngine.__init__: the whole state is loaded and whether orders go to
\* the exchange is decided, once for the session ...
Load(e) ==
    /\ eng[e].pc = "off" /\ sessions < MaxSessions
    /\ sessions' = sessions + 1
    /\ eng' = [eng EXCEPT ![e] = [Off EXCEPT !.pc = "loaded", !.session = sessions',
                    !.open = disk.open, !.cash = disk.cash,
                    !.live = ("live" \in Adapters /\ ~kill)]]
    /\ UNCHANGED <<market, kill, disk, log, killed, filled>>

\* The first half of a save: the file is read and the new one prepared.
StartSave(e, settled, pc) ==
    /\ AtomicSaves => \A f \in Engines : eng[f].pc \notin {"saving", "lastsave"}
    /\ eng' = [eng EXCEPT ![e].pc = pc, ![e].image = Saved(eng[e], settled)]
    /\ UNCHANGED <<market, kill, disk, log, sessions, killed, filled>>

\* The second: os.replace.  A process that saved for the last time exits, and
\* its resting quotes die with it.
Replace(e) ==
    /\ eng[e].pc \in {"saving", "lastsave"}
    /\ disk' = eng[e].image
    /\ eng' = [eng EXCEPT ![e] =
                  IF @.pc = "saving" THEN [@ EXCEPT !.pc = "tick", !.image = NoState]
                                     ELSE Off]
    /\ UNCHANGED <<market, kill, log, sessions, killed, filled>>

\* ... and the state is saved at once, with no settled keys to drop.
InitSave(e) == eng[e].pc = "loaded" /\ StartSave(e, {}, "saving")

\* What the loop passes to save after ticks: run passes the settled keys, the
\* persist node of the agent's graph and run_agent pass none.
DriverKeys == IF Driver = "run" THEN SettledKeys ELSE {}

\* _entries_allowed: the books whose loss of the day, summed over the trade log,
\* is within the stop.  All settlements fall on one day.
EntriesAllowed ==
    {b \in Books :
        MapThenSumSet(LAMBDA r : IF r.fill.adapter = b THEN Pnl(r.fill) ELSE 0, log)
            >= -StopLoss}

\* The agent's observe and risk nodes: no tick under the kill switch, or when
\* the stop has closed every book.
GraphGoes == Driver = "agent" => ~kill /\ EntriesAllowed # {}

\* BeginTick of a dark session that ends the tick without settling.
BeginTickSits(e) ==
    /\ eng[e].pc = "tick" /\ GraphGoes
    /\ \/ /\ eng' = [eng EXCEPT ![e].pc = "trade", ![e].allowed = EntriesAllowed]
          /\ UNCHANGED <<market, kill, disk, log, sessions, killed, filled>>
       \/ eng[e].live /\ StartSave(e, DriverKeys, "saving")

\* A tick starts; a live session whose commodity series are dark only settles.
BeginTick(e) ==
    /\ eng[e].pc = "tick" /\ GraphGoes
    /\ \/ eng' = [eng EXCEPT ![e].pc = "trade", ![e].allowed = EntriesAllowed]
       \/ eng[e].live /\ eng' = [eng EXCEPT ![e].pc = "settle"]
    /\ UNCHANGED <<market, kill, disk, log, sessions, killed, filled>>

-----------------------------------------------------------------------------
\* Holds that looks only at the shadow book.
HoldsShadow(e, book, t) ==
    \E p \in eng[e].open : p.adapter = "shadow" /\ p.ticker = t

Holds(e, book, t) == \E p \in eng[e].open : p.adapter = book /\ p.ticker = t

\* halt.blocked_by_corr: the same name is open on the same side.
blocked_by_corr(e, t, side) ==
    \E p \in eng[e].open : /\ p.adapter = "shadow" /\ p.side = side
                           /\ MetalOf[p.ticker] = MetalOf[t]

Position(e, book, t, side, lot) ==
    [adapter |-> book, ticker |-> t, side |-> side, lot |-> lot,
     session |-> eng[e].session]

Fresh(p) == DistinctKeys => Key(p) \notin Keys(filled)

\* The fills of a decision, of which the engine knows those that were answered.
Taken(e, lot, n, shadow, live, answered) ==
    /\ filled' = filled \cup shadow \cup live
    /\ eng' = [eng EXCEPT
          ![e].open = @ \cup shadow \cup answered,
          ![e].cash["shadow"] = IF shadow # {} THEN @ - lot ELSE @,
          ![e].cash["live"] = IF answered # {} THEN @ - n ELSE @]

\* decide_fn proposes, _execute acts: the shadow fill if the re-fetched book
\* still covers it and the shadow cash pays for it, then the exchange leg,
\* which does not depend on the shadow fill and may get a smaller lot.
Take(e, t, side) ==
    LET book == IF eng[e].live THEN "live" ELSE "shadow"
    IN
    /\ eng[e].pc = "trade" /\ market[t] = "open"
    /\ book \in eng[e].allowed
    /\ ~Holds(e, "shadow", t) /\ ~blocked_by_corr(e, t, side)
    /\ \E lot, n \in Lots :
       \E shadow \in SUBSET {Position(e, "shadow", t, side, lot)},
          live \in SUBSET {Position(e, "live", t, side, n)} :
       \E answered \in {live, {}} :
          /\ shadow \cup live # {}
          /\ shadow # {} => lot <= eng[e].cash["shadow"]
          /\ live # {} => eng[e].live /\ n <= lot /\ ~Holds(e, "live", t)
          /\ answered # live => OrderErrors
          /\ \A p \in shadow \cup live : Fresh(p)
          /\ Taken(e, lot, n, shadow, live, answered)
    /\ UNCHANGED <<market, kill, disk, log, sessions, killed>>

\* _maker_tick, no quote yet: rest one.
MakerRest(e, t, side) ==
    /\ "maker" \in Adapters
    /\ eng[e].pc = "trade" /\ market[t] = "open"
    /\ "maker" \in eng[e].allowed
    /\ ~Holds(e, "maker", t)
    /\ \A q \in eng[e].quotes : q.ticker # t
    /\ \E lot \in Lots :
         eng' = [eng EXCEPT ![e].quotes =
                    @ \cup {[ticker |-> t, side |-> side, lot |-> lot]}]
    /\ UNCHANGED <<market, kill, disk, log, sessions, killed, filled>>

\* _maker_tick, the tape traded through the quote: filled if the maker cash
\* pays for it; the quote is gone either way.  The quote may have been placed
\* before the stop was hit.
MakerFill(e, q) ==
    /\ eng[e].pc = "trade" /\ q \in eng[e].quotes
    /\ LET p == Position(e, "maker", q.ticker, q.side, q.lot)
       IN  IF q.lot <= eng[e].cash["maker"]
           THEN /\ Fresh(p)
                /\ filled' = filled \cup {p}
                /\ eng' = [eng EXCEPT ![e].open = @ \cup {p}, ![e].quotes = @ \ {q},
                                      ![e].cash["maker"] = @ - q.lot]
           ELSE /\ eng' = [eng EXCEPT ![e].quotes = @ \ {q}]
                /\ UNCHANGED filled
    /\ UNCHANGED <<market, kill, disk, log, sessions, killed>>

\* _maker_tick, fair value moved away or the window ends: cancelled.
MakerCancel(e, q) ==
    /\ eng[e].pc = "trade" /\ q \in eng[e].quotes
    /\ eng' = [eng EXCEPT ![e].quotes = @ \ {q}]
    /\ UNCHANGED <<market, kill, disk, log, sessions, killed, filled>>

EndTrade(e) ==
    /\ eng[e].pc = "trade"
    /\ eng' = [eng EXCEPT ![e].pc = "settle", ![e].allowed = {}]
    /\ UNCHANGED <<market, kill, disk, log, sessions, killed, filled>>

-----------------------------------------------------------------------------
\* settle_due, for one position whose market has a result: cash, a row in the
\* trade log, and out of memory.  The state file is not touched.
Settle(e, p) ==
    /\ eng[e].pc = "settle" /\ p \in eng[e].open
    /\ market[p.ticker] # "open"
    /\ log' = log \cup {[fill |-> p, by |-> eng[e].session]}
    /\ eng' = [eng EXCEPT ![e].open = @ \ {p}, ![e].cash[p.adapter] = @ + Payout(p)]
    /\ UNCHANGED <<market, kill, disk, sessions, killed, filled>>

\* The tick ends.  Due positions get_market could not read stay open.  run
\* saves the state every thirtieth tick, the agent's graph unless the tick
\* raised.
EndTick(e) ==
    /\ eng[e].pc = "settle"
    /\ \/ /\ eng' = [eng EXCEPT ![e].pc = "tick"]
          /\ UNCHANGED <<market, kill, disk, log, sessions, killed, filled>>
       \/ StartSave(e, DriverKeys, "saving")

\* The session's minutes are up, or the agent saw the kill switch: the last
\* save.
Finish(e) == eng[e].pc = "tick" /\ StartSave(e, DriverKeys, "lastsave")

\* The watchdog's kill -9, a container restart.
Crash(e) ==
    /\ eng[e].pc # "off" /\ Cardinality(killed) < MaxCrash
    /\ killed' = killed \cup {eng[e].session}
    /\ eng' = [eng EXCEPT ![e] = Off]
    /\ UNCHANGED <<market, kill, disk, log, sessions, filled>>

-----------------------------------------------------------------------------
\* The exchange settles a market.
Resolve(t) ==
    /\ market[t] = "open"
    /\ \E side \in Sides : market' = [market EXCEPT ![t] = side]
    /\ UNCHANGED <<kill, disk, log, eng, sessions, killed, filled>>

TripKill ==
    /\ "live" \in Adapters
    /\ ~kill /\ kill' = TRUE
    /\ UNCHANGED <<market, disk, log, eng, sessions, killed, filled>>

Tick(e) ==
    \/ BeginTick(e) \/ EndTrade(e) \/ EndTick(e)
    \/ \E t \in Tickers, side \in Sides : Take(e, t, side) \/ MakerRest(e, t, side)
    \/ \E q \in eng[e].quotes : MakerFill(e, q) \/ MakerCancel(e, q)
    \/ \E p \in eng[e].open : Settle(e, p)

Next ==
    \/ \E e \in Engines : Load(e) \/ InitSave(e) \/ Replace(e) \/ Tick(e) \/ Finish(e)
                         \/ Crash(e)
    \/ \E t \in Tickers : Resolve(t)
    \/ TripKill

Spec == Init /\ [][Next]_vars

\* A process that runs keeps ticking and its writes complete; the exchange
\* settles every market, and a result that is there is read in some tick.
Fairness ==
    /\ \A e \in Engines :
         /\ WF_vars(Load(e)) /\ WF_vars(InitSave(e)) /\ WF_vars(Replace(e))
         /\ WF_vars(BeginTick(e)) /\ WF_vars(EndTrade(e)) /\ WF_vars(EndTick(e))
         /\ SF_vars(\E p \in eng[e].open : Settle(e, p))
    /\ \A t \in Tickers : WF_vars(Resolve(t))

LiveSpec == Spec /\ Fairness

-----------------------------------------------------------------------------
Settled(p) == \E r \in log : r.fill = p

\* No fill is ever forgotten: it is in the state file, in the memory of a
\* running engine, or settled, or it died with the session that made it.  The
\* union in PaperState.save is there for this.
PositionAccounted ==
    \A p \in filled : \/ p \in disk.open
                      \/ \E e \in Engines : p \in eng[e].open
                      \/ Settled(p)
                      \/ p.session \in killed

\* Every settlement is in the trade log once, whatever sessions loaded the
\* position: _entries_allowed sums the log as if it were so.
RowsOnce == \A r1, r2 \in log : r1.fill = r2.fill => r1 = r2

\* What is settled; the open positions and the cash, in memory while a session
\* runs and in the state file between sessions; and all that is on the book.
Settlements == {r.fill : r \in log}
Held(e) == IF eng[e].pc = "off" THEN disk.open ELSE eng[e].open
HeldCash(e) == IF eng[e].pc = "off" THEN disk.cash ELSE eng[e].cash
Booked(e) == Held(e) \cup Settlements

\* What a book won and lost with these positions, and what they tie up.
Won(ps, b) == SumFunction([p \in ps |-> IF p.adapter = b THEN Pnl(p) ELSE 0])
Tied(ps, b) == SumFunction([p \in ps |-> IF p.adapter = b THEN p.lot ELSE 0])

\* The cash that sizes the next order is the bankroll, what the log says was
\* won and lost, less what is tied up.
CashMatchesBook ==
    \A e \in Engines, b \in Books :
        HeldCash(e)[b] = Bankroll0 + Won(Settlements, b) - Tied(Held(e), b)

\* The exchange fills at most one live order per market: no second clip in a
\* window, within a session or across sessions.
LiveOncePerMarket ==
    \A p, q \in filled :
        p.adapter = "live" /\ q.adapter = "live" /\ p.ticker = q.ticker => p = q

\* Every fill is settled in the end, if only sessions keep being started: again
\* and again there is no fill left to settle.
EventuallySettled ==
    []<> \/ \A p \in filled : Settled(p)
         \/ sessions = MaxSessions /\ \A e \in Engines : eng[e].pc = "off"

-----------------------------------------------------------------------------
(* What makes the last three true of one engine that is never killed, as   *)
(* an inductive invariant.                                                 *)

\* A book takes one position in a market, settled or not.
OncePerMarket(e) ==
    \A p, q \in Booked(e) : p.adapter = q.adapter /\ p.ticker = q.ticker => p = q

\* What is settled was closed by the exchange.
SettledClosed == \A p \in Settlements : market[p.ticker] # "open"

\* A quote rests in a market where the maker book has nothing, alone.
QuotesFree(e) ==
    \A q \in eng[e].quotes :
        /\ \A p \in Booked(e) : ~(p.adapter = "maker" /\ p.ticker = q.ticker)
        /\ \A r \in eng[e].quotes : r.ticker = q.ticker => r = q

\* The state file and the temporary one are no further than memory and log, and
\* the temporary one leaves out nothing but what is settled.
FilesBehind(e) ==
    /\ disk.open \subseteq Booked(e)
    /\ eng[e].pc \in {"saving", "lastsave"} =>
          /\ eng[e].image.open \subseteq Booked(e)
          /\ eng[e].open \subseteq eng[e].image.open \cup Settlements

BookInv ==
    SettledClosed /\ \A e \in Engines : OncePerMarket(e) /\ QuotesFree(e) /\ FilesBehind(e)

\* Every fill was answered and is on the book.
FilledBooked == \A e \in Engines : filled \subseteq Booked(e)

\* Nothing that is settled is still held ...
NothingTwice(e) == Held(e) \cap Settlements = {}

\* ... because what is saved is what is in memory, from the start of the session.
SavesMemory(e) ==
    /\ eng[e].pc \in {"saving", "lastsave"} =>
          eng[e].image = [open |-> eng[e].open, cash |-> eng[e].cash]
    /\ eng[e].pc = "loaded" => disk = [open |-> eng[e].open, cash |-> eng[e].cash]

LedgerInv ==
    /\ \A e \in Engines : NothingTwice(e) /\ SavesMemory(e) /\ IsFiniteSet(Held(e))
    /\ IsFiniteSet(Settlements) /\ RowsOnce /\ CashMatchesBook
=============================================================================
