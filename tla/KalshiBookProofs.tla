-------------------------- MODULE KalshiBookProofs --------------------------
(* Theorems about KalshiBook, for any number of engines, markets, lots,    *)
(* sessions and kills, both drivers and every set of books.                *)
EXTENDS KalshiBook, SumTheorems

\* An engine process that does not run.
LEMMA OffType == Off \in Memory /\ Off.pc = "off" /\ Off.open = {} /\ Off.allowed = {} /\ NoState \in State
<1>1. NoCash \in [Books -> Int] /\ NoState \in State
  BY DEF NoCash, NoState, State
<1>2. 0 \in 0..MaxSessions
  BY CountAssumption
<1>3. "off" \in Pcs
  BY DEF Pcs
<1> QED
  BY <1>1, <1>2, <1>3 DEF Off, Memory

\* A save writes a state.
LEMMA SavedType ==
    ASSUME NEW m \in Memory, disk \in State, NEW settled
    PROVE  Saved(m, settled) \in State
  BY DEF Saved, Memory, State

LEMMA PayoutType == ASSUME NEW p \in Fill PROVE Payout(p) \in Int
<1>1. p.lot \in Nat
  BY SetAssumption DEF Fill
<1>2. 2 * p.lot \in Int
  BY <1>1
<1> QED
  BY <1>2 DEF Payout

-----------------------------------------------------------------------------
(* Types.                                                                  *)

\* A new position, and what it costs.
LEMMA PositionType ==
    ASSUME TypeOK, NEW e \in Engines, eng[e].session # 0, NEW book \in Books, NEW t \in Tickers,
           NEW side \in Sides, NEW lot \in Lots
    PROVE  Position(e, book, t, side, lot) \in Fill /\ lot \in Nat
<1>1. eng[e].session \in 1..MaxSessions
  BY CountAssumption DEF TypeOK, Memory
<1> QED
  BY <1>1, SetAssumption DEF Position, Fill

\* An engine that runs is of a session.
SessionOK == \A e \in Engines : eng[e].pc # "off" => eng[e].session # 0

LEMMA InitType == Init => TypeOK /\ SessionOK
<1> SUFFICES ASSUME Init PROVE TypeOK /\ SessionOK
  OBVIOUS
<1>1. disk \in State
  BY CountAssumption DEF Init, State
<1>2. 0 \in 0..MaxSessions
  BY CountAssumption
<1>3. \A e \in Engines : eng[e] = Off
  BY DEF Init
<1> QED
  BY <1>1, <1>2, <1>3, OffType DEF Init, TypeOK, SessionOK

\* One engine gets a new memory.
LEMMA EngineType ==
    ASSUME TypeOK, SessionOK, NEW e \in Engines, NEW m \in Memory, eng' = [eng EXCEPT ![e] = m],
           m.pc # "trade" => m.allowed = {}, m.pc # "off" => m.session # 0
    PROVE  /\ eng' \in [Engines -> Memory] /\ SessionOK'
           /\ \A f \in Engines : eng'[f].pc # "trade" => eng'[f].allowed = {}
<1>1. eng' \in [Engines -> Memory] /\ eng'[e] = m /\ \A f \in Engines \ {e} : eng'[f] = eng[f]
  BY DEF TypeOK
<1> QED
  BY <1>1 DEF TypeOK, SessionOK

LEMMA LoadType ==
    ASSUME TypeOK, SessionOK, NEW e \in Engines, Load(e)
    PROVE  TypeOK' /\ SessionOK'
<1>1. sessions' \in 1..MaxSessions /\ ("live" \in Adapters /\ ~kill) \in BOOLEAN
  BY CountAssumption DEF Load, TypeOK
<1>2. ASSUME NEW n \in 1..MaxSessions, NEW live \in BOOLEAN
      PROVE  LET m == [Off EXCEPT !.pc = "loaded", !.session = n,
                          !.open = disk.open, !.cash = disk.cash, !.live = live]
             IN  m \in Memory /\ m.pc = "loaded" /\ m.allowed = {} /\ m.session = n
  <2> DEFINE m == [Off EXCEPT !.pc = "loaded", !.session = n,
                      !.open = disk.open, !.cash = disk.cash, !.live = live]
  <2>1. n \in 0..MaxSessions /\ disk.open \in SUBSET Fill /\ disk.cash \in [Books -> Int]
    BY CountAssumption DEF TypeOK, State
  <2>2. m \in Memory
    BY <2>1, OffType DEF Memory, Pcs
  <2>3. m.pc = "loaded" /\ m.session = n /\ m.allowed = {}
    BY OffType DEF Memory
  <2> QED
    BY <2>2, <2>3
<1>3. PICK m \in Memory : /\ eng' = [eng EXCEPT ![e] = m]
                          /\ m.pc = "loaded" /\ m.allowed = {} /\ m.session = sessions'
  BY <1>1, <1>2 DEF Load
<1>4. sessions' # 0 /\ sessions' \in 0..MaxSessions
  BY <1>1, CountAssumption
<1>5. /\ eng' \in [Engines -> Memory] /\ SessionOK'
      /\ \A f \in Engines : eng'[f].pc # "trade" => eng'[f].allowed = {}
  BY <1>3, <1>4, EngineType
<1> QED
  BY <1>4, <1>5 DEF Load, TypeOK

LEMMA SaveType ==
    ASSUME TypeOK, SessionOK, NEW e \in Engines, InitSave(e) \/ EndTick(e) \/ Finish(e)
    PROVE  TypeOK' /\ SessionOK'
<1>1. eng[e] \in Memory
  BY DEF TypeOK
<1>2. ASSUME NEW settled, NEW pc \in {"saving", "lastsave"}, StartSave(e, settled, pc),
             eng[e].pc \notin {"off", "trade"}
      PROVE  TypeOK' /\ SessionOK'
  <2> DEFINE image == Saved(eng[e], settled)
  <2>1. image \in State
    BY <1>1, SavedType DEF TypeOK
  <2> HIDE DEF image
  <2> DEFINE m == [eng[e] EXCEPT !.pc = pc, !.image = image]
  <2>2. m \in Memory /\ m.pc = pc /\ m.allowed = eng[e].allowed /\ m.session = eng[e].session
    BY <1>1, <2>1 DEF Memory, Pcs
  <2>3. eng' = [eng EXCEPT ![e] = m]
    BY <1>2 DEF StartSave, image
  <2> HIDE DEF m
  <2> QED
    BY <1>2, <2>2, <2>3, EngineType DEF StartSave, TypeOK, SessionOK
<1>3. ASSUME eng[e].pc = "settle", eng' = [eng EXCEPT ![e].pc = "tick"],
             UNCHANGED <<market, kill, disk, log, sessions, killed, filled>>
      PROVE  TypeOK' /\ SessionOK'
  <2> DEFINE m == [eng[e] EXCEPT !.pc = "tick"]
  <2>1. m \in Memory /\ m.pc = "tick" /\ m.allowed = eng[e].allowed /\ m.session = eng[e].session
    BY <1>1 DEF Memory, Pcs
  <2>2. eng' = [eng EXCEPT ![e] = m]
    BY <1>3
  <2> HIDE DEF m
  <2> QED
    BY <1>3, <2>1, <2>2, EngineType DEF TypeOK, SessionOK
<1> QED
  <2>1. CASE InitSave(e)
    BY <1>2, <2>1 DEF InitSave
  <2>2. CASE Finish(e)
    BY <1>2, <2>2 DEF Finish
  <2>3. CASE EndTick(e)
    BY <1>2, <1>3, <2>3 DEF EndTick
  <2> QED
    BY <2>1, <2>2, <2>3

LEMMA ReplaceType ==
    ASSUME TypeOK, SessionOK, NEW e \in Engines, Replace(e)
    PROVE  TypeOK' /\ SessionOK'
<1>1. eng[e] \in Memory /\ eng[e].image \in State
  BY DEF TypeOK, Memory
<1>2. [eng[e] EXCEPT !.pc = "tick", !.image = NoState] \in Memory
  BY <1>1, OffType DEF Memory, Pcs
<1>3. PICK m \in Memory : /\ eng' = [eng EXCEPT ![e] = m]
                          /\ m.allowed = {}
                          /\ m.pc # "off" => m.session = eng[e].session
  <2>1. CASE eng[e].pc = "saving"
    <3> DEFINE m == [eng[e] EXCEPT !.pc = "tick", !.image = NoState]
    <3>1. m.allowed = eng[e].allowed /\ m.session = eng[e].session
      BY <1>1 DEF Memory
    <3>2. eng' = [eng EXCEPT ![e] = m]
      BY <2>1 DEF Replace
    <3> QED
      BY <1>2, <2>1, <3>1, <3>2 DEF TypeOK
  <2>2. CASE eng[e].pc = "lastsave"
    <3>1. eng' = [eng EXCEPT ![e] = Off]
      BY <2>2 DEF Replace
    <3> QED
      BY <3>1, OffType
  <2> QED
    BY <2>1, <2>2 DEF Replace
<1>4. eng[e].session # 0
  BY DEF Replace, SessionOK
<1> QED
  BY <1>1, <1>3, <1>4, EngineType DEF Replace, TypeOK

\* A tick starts or ends its trading.
LEMMA StageType ==
    ASSUME TypeOK, SessionOK, NEW e \in Engines, BeginTick(e) \/ EndTrade(e)
    PROVE  TypeOK' /\ SessionOK'
<1>1. eng[e] \in Memory /\ eng[e].pc # "off" /\ eng[e].session # 0
  BY DEF TypeOK, SessionOK, BeginTick, EndTrade
<1>2. EntriesAllowed \in SUBSET Books
  BY DEF EntriesAllowed
<1>3. PICK m \in Memory : /\ eng' = [eng EXCEPT ![e] = m] /\ m.session = eng[e].session
                          /\ m.pc # "trade" => m.allowed = {}
  <2>1. ASSUME NEW allowed \in SUBSET Books, NEW pc \in Pcs
        PROVE  /\ [eng[e] EXCEPT !.pc = pc, !.allowed = allowed] \in Memory
               /\ [eng[e] EXCEPT !.pc = pc, !.allowed = allowed].session = eng[e].session
               /\ [eng[e] EXCEPT !.pc = pc, !.allowed = allowed].pc = pc
               /\ [eng[e] EXCEPT !.pc = pc, !.allowed = allowed].allowed = allowed
    BY <1>1 DEF Memory
  <2>2. CASE eng' = [eng EXCEPT ![e].pc = "trade", ![e].allowed = EntriesAllowed]
    <3> DEFINE m == [eng[e] EXCEPT !.pc = "trade", !.allowed = EntriesAllowed]
    <3>0. "trade" \in Pcs /\ EntriesAllowed \in SUBSET Books
      BY <1>2 DEF Pcs
    <3>1. m \in Memory /\ m.session = eng[e].session /\ m.pc = "trade"
      BY <2>1, <3>0
    <3>2. eng' = [eng EXCEPT ![e] = m]
      BY <2>2
    <3> HIDE DEF m
    <3> QED
      BY <3>1, <3>2
  <2>3. CASE eng[e].pc = "tick" /\ eng' = [eng EXCEPT ![e].pc = "settle"]
    <3>1. /\ [eng[e] EXCEPT !.pc = "settle"] \in Memory
          /\ [eng[e] EXCEPT !.pc = "settle"].session = eng[e].session
          /\ [eng[e] EXCEPT !.pc = "settle"].allowed = eng[e].allowed
      BY <1>1 DEF Memory, Pcs
    <3> QED
      BY <2>3, <3>1 DEF TypeOK
  <2>4. CASE eng' = [eng EXCEPT ![e].pc = "settle", ![e].allowed = {}]
    <3>1. eng' = [eng EXCEPT ![e] = [eng[e] EXCEPT !.pc = "settle", !.allowed = {}]]
      BY <2>4
    <3> QED
      BY <1>2, <2>1, <3>1 DEF Pcs
  <2> QED
    BY <2>2, <2>3, <2>4 DEF BeginTick, EndTrade
<1>4. /\ eng' \in [Engines -> Memory] /\ SessionOK'
      /\ \A f \in Engines : eng'[f].pc # "trade" => eng'[f].allowed = {}
  BY <1>1, <1>3, EngineType
<1> QED
  BY <1>4 DEF BeginTick, EndTrade, TypeOK

\* An engine that trades fills a position, rests a quote, or drops one.
LEMMA TradeMemory ==
    ASSUME TypeOK, SessionOK, NEW e \in Engines, eng[e].pc = "trade", NEW m \in Memory,
           m.pc = "trade", m.session = eng[e].session, eng' = [eng EXCEPT ![e] = m],
           UNCHANGED <<market, kill, disk, log, sessions, killed>>, filled' \subseteq Fill
    PROVE  TypeOK' /\ SessionOK'
<1>1. /\ eng' \in [Engines -> Memory] /\ SessionOK'
      /\ \A f \in Engines : eng'[f].pc # "trade" => eng'[f].allowed = {}
  BY EngineType DEF SessionOK
<1> QED
  BY <1>1 DEF TypeOK

LEMMA MakerType ==
    ASSUME TypeOK, SessionOK, NEW e \in Engines,
           \/ \E t \in Tickers, side \in Sides : MakerRest(e, t, side)
           \/ \E q \in eng[e].quotes : MakerFill(e, q) \/ MakerCancel(e, q)
    PROVE  TypeOK' /\ SessionOK'
<1>1. eng[e] \in Memory /\ eng[e].pc = "trade" /\ eng[e].session # 0 /\ filled \subseteq Fill
  BY DEF TypeOK, SessionOK, MakerRest, MakerFill, MakerCancel
<1>2. ASSUME NEW quotes \in SUBSET Quote
      PROVE  /\ [eng[e] EXCEPT !.quotes = quotes] \in Memory
             /\ [eng[e] EXCEPT !.quotes = quotes].pc = eng[e].pc
             /\ [eng[e] EXCEPT !.quotes = quotes].session = eng[e].session
  BY <1>1 DEF Memory
<1>3. ASSUME NEW t \in Tickers, NEW side \in Sides, MakerRest(e, t, side)
      PROVE  TypeOK' /\ SessionOK'
  <2>1. PICK lot \in Lots :
            eng' = [eng EXCEPT ![e].quotes = @ \cup {[ticker |-> t, side |-> side, lot |-> lot]}]
    BY <1>3 DEF MakerRest
  <2>2. eng[e].quotes \cup {[ticker |-> t, side |-> side, lot |-> lot]} \in SUBSET Quote
    BY <1>1 DEF Memory, Quote
  <2> QED
    BY <1>1, <1>2, <1>3, <2>1, <2>2, TradeMemory DEF MakerRest
<1>4. ASSUME NEW q \in eng[e].quotes, MakerCancel(e, q)
      PROVE  TypeOK' /\ SessionOK'
  <2>1. eng[e].quotes \ {q} \in SUBSET Quote
    BY <1>1 DEF Memory
  <2> QED
    BY <1>1, <1>2, <1>4, <2>1, TradeMemory DEF MakerCancel
<1>5. ASSUME NEW q \in eng[e].quotes, MakerFill(e, q)
      PROVE  TypeOK' /\ SessionOK'
  <2> DEFINE p == Position(e, "maker", q.ticker, q.side, q.lot)
  <2>1. q \in Quote /\ eng[e].quotes \ {q} \in SUBSET Quote
    BY <1>1 DEF Memory
  <2>2. q.ticker \in Tickers /\ q.side \in Sides /\ q.lot \in Lots /\ "maker" \in Books
    BY <2>1 DEF Quote, Books
  <2>3. p \in Fill /\ q.lot \in Nat
    BY <1>1, <2>2, PositionType
  <2> HIDE DEF p
  <2>4. CASE q.lot <= eng[e].cash["maker"]
    <3>1. eng[e].cash["maker"] - q.lot \in Int
      BY <1>1, <2>2, <2>3 DEF Memory
    <3> DEFINE m == [eng[e] EXCEPT !.open = @ \cup {p}, !.quotes = @ \ {q},
                                   !.cash["maker"] = @ - q.lot]
    <3>2. m \in Memory /\ m.pc = eng[e].pc /\ m.session = eng[e].session
      BY <1>1, <2>1, <2>3, <3>1 DEF Memory
    <3>3. eng' = [eng EXCEPT ![e] = m] /\ filled' = filled \cup {p}
      BY <1>5, <2>4 DEF MakerFill, p
    <3> HIDE DEF m
    <3> QED
      BY <1>1, <1>5, <2>3, <3>2, <3>3, TradeMemory DEF MakerFill
  <2>5. CASE ~(q.lot <= eng[e].cash["maker"])
    BY <1>1, <1>2, <1>5, <2>1, <2>5, TradeMemory DEF MakerFill
  <2> QED
    BY <2>4, <2>5
<1> QED
  BY <1>3, <1>4, <1>5

LEMMA TakeType ==
    ASSUME TypeOK, SessionOK, NEW e \in Engines, NEW t \in Tickers, NEW side \in Sides,
           Take(e, t, side)
    PROVE  TypeOK' /\ SessionOK'
<1>1. eng[e] \in Memory /\ eng[e].pc = "trade" /\ eng[e].session # 0 /\ filled \subseteq Fill
  BY DEF TypeOK, SessionOK, Take
<1>2. PICK lot \in Lots, n \in Lots :
          \E shadow \in SUBSET {Position(e, "shadow", t, side, lot)},
             live \in SUBSET {Position(e, "live", t, side, n)} :
          \E answered \in {live, {}} : Taken(e, lot, n, shadow, live, answered)
  BY DEF Take
<1>3. PICK shadow \in SUBSET {Position(e, "shadow", t, side, lot)},
           live \in SUBSET {Position(e, "live", t, side, n)} :
          \E answered \in {live, {}} : Taken(e, lot, n, shadow, live, answered)
  BY <1>2
<1>4. PICK answered \in {live, {}} : Taken(e, lot, n, shadow, live, answered)
  BY <1>3
<1>5. "shadow" \in Books /\ "live" \in Books
  BY DEF Books
<1>6. shadow \in SUBSET Fill /\ live \in SUBSET Fill /\ answered \in SUBSET Fill
  BY <1>1, <1>5, PositionType
<1>7. lot \in Nat /\ n \in Nat
  BY <1>1, <1>5, PositionType
<1>8. /\ eng[e].cash["shadow"] \in Int /\ eng[e].cash["shadow"] - lot \in Int
      /\ eng[e].cash["live"] \in Int /\ eng[e].cash["live"] - n \in Int
  BY <1>1, <1>5, <1>7 DEF Memory
<1> DEFINE m == [eng[e] EXCEPT
                    !.open = @ \cup shadow \cup answered,
                    !.cash["shadow"] = IF shadow # {} THEN @ - lot ELSE @,
                    !.cash["live"] = IF answered # {} THEN @ - n ELSE @]
<1>9. m \in Memory /\ m.pc = "trade" /\ m.session = eng[e].session
  BY <1>1, <1>6, <1>8 DEF Memory
<1>10. eng' = [eng EXCEPT ![e] = m] /\ filled' = filled \cup shadow \cup live
  BY <1>4 DEF Taken
<1> HIDE DEF m
<1> QED
  BY <1>1, <1>6, <1>9, <1>10, TradeMemory DEF Take

LEMMA SettleType ==
    ASSUME TypeOK, SessionOK, NEW e \in Engines, NEW p \in eng[e].open, Settle(e, p)
    PROVE  TypeOK' /\ SessionOK'
<1>1. eng[e] \in Memory /\ eng[e].pc = "settle" /\ eng[e].session # 0 /\ p \in Fill
  BY DEF TypeOK, SessionOK, Settle, Memory
<1>2. [fill |-> p, by |-> eng[e].session] \in Row
  BY <1>1, CountAssumption DEF Row, Memory
<1>3. p.adapter \in Books /\ eng[e].cash[p.adapter] + Payout(p) \in Int
  BY <1>1, PayoutType DEF Fill, Memory
<1> DEFINE m == [eng[e] EXCEPT !.open = @ \ {p}, !.cash[p.adapter] = @ + Payout(p)]
<1>4. m \in Memory /\ m.pc = eng[e].pc /\ m.session = eng[e].session /\ m.allowed = eng[e].allowed
  BY <1>1, <1>3 DEF Memory
<1>5. eng' = [eng EXCEPT ![e] = m]
  BY DEF Settle
<1> HIDE DEF m
<1>6. /\ eng' \in [Engines -> Memory] /\ SessionOK'
      /\ \A f \in Engines : eng'[f].pc # "trade" => eng'[f].allowed = {}
  BY <1>1, <1>4, <1>5, EngineType DEF TypeOK
<1> QED
  BY <1>2, <1>6 DEF Settle, TypeOK

LEMMA CrashType ==
    ASSUME TypeOK, SessionOK, NEW e \in Engines, Crash(e)
    PROVE  TypeOK' /\ SessionOK'
<1>1. eng[e].session \in 1..MaxSessions
  BY CountAssumption DEF Crash, TypeOK, SessionOK, Memory
<1>2. /\ eng' \in [Engines -> Memory] /\ SessionOK'
      /\ \A f \in Engines : eng'[f].pc # "trade" => eng'[f].allowed = {}
  BY OffType, EngineType DEF Crash
<1> QED
  BY <1>1, <1>2 DEF Crash, TypeOK

LEMMA StepType == TypeOK /\ SessionOK /\ [Next]_vars => TypeOK' /\ SessionOK'
<1>1. TypeOK /\ SessionOK /\ UNCHANGED vars => TypeOK' /\ SessionOK'
  BY DEF vars, TypeOK, SessionOK
<1>2. ASSUME TypeOK, SessionOK, TripKill \/ \E t \in Tickers : Resolve(t)
      PROVE  TypeOK' /\ SessionOK'
  BY <1>2 DEF TripKill, Resolve, TypeOK, SessionOK
<1> QED
  BY <1>1, <1>2, LoadType, SaveType, ReplaceType, StageType, MakerType, TakeType, SettleType, CrashType
     DEF Next, Tick

\* Every variable keeps its type: an engine that runs has a session, and books
\* and logs hold fills of markets, sides and lots.
THEOREM TypeCorrect == Spec => []TypeOK
  BY InitType, StepType, PTL DEF Spec

-----------------------------------------------------------------------------
(* No fill is forgotten.                                                   *)

\* What the result rests on: keys tell fills apart, saves do not overlap, and
\* the exchange answers.
Trusted == DistinctKeys /\ AtomicSaves /\ ~OrderErrors

Saving(e) == eng[e].pc \in {"saving", "lastsave"}

\* A key is one fill's, and all that is held or written somewhere was filled.
KeysInv ==
    /\ \A p, q \in filled : Key(p) = Key(q) => p = q
    /\ disk.open \subseteq filled /\ \A r \in log : r.fill \in filled
    /\ \A e \in Engines : eng[e].open \subseteq filled

\* One process saves at a time, and what its image leaves out of the state file
\* and of its memory has settled.  What is only in a memory was filled in it.
SavesInv ==
    /\ \A e, f \in Engines : Saving(e) /\ Saving(f) => e = f
    /\ \A e \in Engines : Saving(e) =>
          /\ eng[e].image.open \subseteq filled
          /\ \A p \in disk.open \cup eng[e].open : p \in eng[e].image.open \/ Settled(p)
    /\ \A e \in Engines : \A p \in eng[e].open :
          p.session = eng[e].session \/ p \in disk.open \/ Settled(p)
    /\ \A e \in Engines : eng[e].pc = "off" => eng[e].open = {}

AccountInv == KeysInv /\ SavesInv /\ PositionAccounted

LEMMA InitAccount == Init => AccountInv
  BY OffType DEF Init, AccountInv, KeysInv, SavesInv, PositionAccounted, Saving

\* Nothing that counts here changes but where an engine is, which is not a save.
LEMMA MoveAccount ==
    ASSUME TypeOK, AccountInv, NEW e \in Engines, ~Saving(e), eng[e].pc # "off",
           eng' \in [Engines -> Memory], \A f \in Engines \ {e} : eng'[f] = eng[f],
           eng'[e].pc \in {"tick", "trade", "settle"}, eng'[e].open = eng[e].open,
           eng'[e].session = eng[e].session, UNCHANGED <<disk, log, killed, filled>>
    PROVE  AccountInv'
<1>1. KeysInv'
  BY DEF AccountInv, KeysInv
<1>2. SavesInv'
  BY DEF AccountInv, SavesInv, Saving, Settled
<1>3. PositionAccounted'
  BY DEF AccountInv, PositionAccounted, Settled
<1> QED
  BY <1>1, <1>2, <1>3 DEF AccountInv

LEMMA LoadAccount ==
    ASSUME TypeOK, AccountInv, NEW e \in Engines, Load(e)
    PROVE  AccountInv'
<1>1. /\ eng'[e].pc = "loaded" /\ eng'[e].open = disk.open
      /\ \A f \in Engines \ {e} : eng'[f] = eng[f]
  BY OffType DEF Load, TypeOK, Memory
<1>2. UNCHANGED <<disk, log, killed, filled>> /\ eng[e].pc = "off"
  BY DEF Load
<1>3. KeysInv'
  BY <1>1, <1>2 DEF AccountInv, KeysInv
<1>4. SavesInv'
  BY <1>1, <1>2 DEF AccountInv, SavesInv, Saving, Settled
<1>5. PositionAccounted'
  BY <1>1, <1>2 DEF AccountInv, SavesInv, PositionAccounted, Settled
<1> QED
  BY <1>3, <1>4, <1>5 DEF AccountInv

\* The union keeps all that has not settled.
LEMMA UnionKeeps ==
    ASSUME TypeOK, KeysInv, NEW e \in Engines, NEW settled, settled \subseteq SettledKeys,
           NEW p \in disk.open \cup eng[e].open, p \notin Saved(eng[e], settled).open
    PROVE  Settled(p)
<1>1. p \in filled
  BY DEF KeysInv
<1>2. p \in eng[e].open \cup {q \in disk.open : Key(q) \notin Keys(eng[e].open)}
  <2>1. ASSUME Key(p) \in Keys(eng[e].open)
        PROVE  p \in eng[e].open
    <3>1. PICK q \in eng[e].open : Key(p) = Key(q)
      BY <2>1 DEF Keys
    <3> QED
      BY <1>1, <3>1 DEF KeysInv
  <2> QED
    BY <2>1
<1>3. Key(p) \in SettledKeys
  BY <1>2 DEF Saved
<1>4. PICK r \in log : Key(r.fill) = Key(p)
  BY <1>3 DEF SettledKeys
<1> QED
  BY <1>1, <1>4 DEF KeysInv, Settled

LEMMA SaveAccount ==
    ASSUME Trusted, TypeOK, AccountInv, NEW e \in Engines, NEW settled, settled \subseteq SettledKeys,
           NEW pc \in {"saving", "lastsave"}, StartSave(e, settled, pc), ~Saving(e), eng[e].pc # "off"
    PROVE  AccountInv'
<1> DEFINE image == Saved(eng[e], settled)
<1>1. /\ eng'[e].pc = pc /\ eng'[e].image = image /\ eng'[e].open = eng[e].open
      /\ eng'[e].session = eng[e].session /\ \A f \in Engines \ {e} : eng'[f] = eng[f]
  BY DEF StartSave, TypeOK, Memory
<1>2. UNCHANGED <<disk, log, killed, filled>> /\ \A f \in Engines : ~Saving(f)
  BY DEF StartSave, Trusted, Saving
<1>3. image.open \subseteq filled
  BY DEF Saved, AccountInv, KeysInv
<1>4. \A p \in disk.open \cup eng[e].open : p \in image.open \/ Settled(p)
  BY UnionKeeps DEF AccountInv
<1> HIDE DEF image
<1>5. KeysInv'
  BY <1>1, <1>2 DEF AccountInv, KeysInv
<1>6. SavesInv'
  BY <1>1, <1>2, <1>3, <1>4 DEF AccountInv, SavesInv, Saving, Settled
<1>7. PositionAccounted'
  BY <1>1, <1>2 DEF AccountInv, PositionAccounted, Settled
<1> QED
  BY <1>5, <1>6, <1>7 DEF AccountInv

LEMMA ReplaceAccount ==
    ASSUME TypeOK, AccountInv, NEW e \in Engines, Replace(e)
    PROVE  AccountInv'
<1>1. /\ Saving(e) /\ disk' = eng[e].image /\ UNCHANGED <<log, killed, filled>>
      /\ \A f \in Engines \ {e} : eng'[f] = eng[f] /\ ~Saving(f)
  BY DEF Replace, Saving, TypeOK, AccountInv, SavesInv
<1>2. /\ \/ eng'[e].pc = "tick" /\ eng'[e].open = eng[e].open /\ eng'[e].session = eng[e].session
         \/ eng'[e].pc = "off" /\ eng'[e].open = {}
  BY OffType DEF Replace, TypeOK, Memory
<1>3. KeysInv'
  BY <1>1, <1>2 DEF AccountInv, KeysInv, SavesInv
<1>4. \A p \in disk.open \cup eng[e].open : p \in disk'.open \/ Settled(p)'
  BY <1>1 DEF AccountInv, SavesInv, Settled
<1>5. SavesInv'
  BY <1>1, <1>2, <1>4 DEF AccountInv, SavesInv, Saving, Settled
<1>6. PositionAccounted'
  BY <1>1, <1>2, <1>4 DEF AccountInv, PositionAccounted, Settled
<1> QED
  BY <1>3, <1>5, <1>6 DEF AccountInv

\* A trading engine fills positions whose keys are new, and knows of them.
LEMMA FillAccount ==
    ASSUME TypeOK, AccountInv, NEW e \in Engines, eng[e].pc = "trade", NEW new \in SUBSET Fill,
           \A p \in new : Key(p) \notin Keys(filled) /\ p.session = eng[e].session,
           \A p, q \in new : Key(p) = Key(q) => p = q,
           filled' = filled \cup new, eng' \in [Engines -> Memory],
           \A f \in Engines \ {e} : eng'[f] = eng[f], eng'[e].pc = "trade",
           eng'[e].open = eng[e].open \cup new, eng'[e].session = eng[e].session,
           UNCHANGED <<disk, log, killed>>
    PROVE  AccountInv'
<1>1. \A p \in new, q \in filled : Key(p) # Key(q)
  BY DEF Keys
<1>2. KeysInv'
  BY <1>1 DEF AccountInv, KeysInv, Key
<1>3. SavesInv'
  BY DEF AccountInv, SavesInv, Saving, Settled
<1>4. PositionAccounted'
  BY DEF AccountInv, PositionAccounted, Settled
<1> QED
  BY <1>2, <1>3, <1>4 DEF AccountInv

LEMMA TradeAccount ==
    ASSUME Trusted, TypeOK, TypeOK', AccountInv, NEW e \in Engines,
           \/ \E t \in Tickers, side \in Sides : Take(e, t, side) \/ MakerRest(e, t, side)
           \/ \E q \in eng[e].quotes : MakerFill(e, q) \/ MakerCancel(e, q)
    PROVE  AccountInv'
<1>1. eng[e] \in Memory /\ eng' \in [Engines -> Memory] /\ filled' \subseteq Fill
  BY DEF TypeOK
<1>2. ASSUME NEW t \in Tickers, NEW side \in Sides, Take(e, t, side)
      PROVE  AccountInv'
  <2>1. PICK lot \in Lots, n \in Lots :
            \E shadow \in SUBSET {Position(e, "shadow", t, side, lot)},
               live \in SUBSET {Position(e, "live", t, side, n)} :
               /\ \A p \in shadow \cup live : Fresh(p)
               /\ Taken(e, lot, n, shadow, live, live)
    BY <1>2 DEF Take, Trusted
  <2>2. PICK shadow \in SUBSET {Position(e, "shadow", t, side, lot)},
             live \in SUBSET {Position(e, "live", t, side, n)} :
               /\ \A p \in shadow \cup live : Fresh(p)
               /\ Taken(e, lot, n, shadow, live, live)
    BY <2>1
  <2> DEFINE new == shadow \cup live
  <2>3. \A p \in new : Key(p) \notin Keys(filled) /\ p.session = eng[e].session
    BY <2>2 DEF Fresh, Trusted, Position
  <2>4. \A p, q \in new : Key(p) = Key(q) => p = q
    BY <2>2 DEF Key, Position
  <2> DEFINE m == [eng[e] EXCEPT
                      !.open = @ \cup shadow \cup live,
                      !.cash["shadow"] = IF shadow # {} THEN @ - lot ELSE @,
                      !.cash["live"] = IF live # {} THEN @ - n ELSE @]
  <2>5. m.pc = eng[e].pc /\ m.open = eng[e].open \cup new /\ m.session = eng[e].session
    BY <1>1 DEF Memory
  <2>6. eng' = [eng EXCEPT ![e] = m]
    BY <2>2 DEF Taken
  <2>7. filled' = filled \cup shadow \cup live
    BY <2>2 DEF Taken
  <2>8. filled' = filled \cup new
    BY <2>7
  <2>9. eng[e].pc = "trade" /\ disk' = disk /\ log' = log /\ killed' = killed
    BY <1>2 DEF Take
  <2> HIDE DEF m
  <2>10. /\ eng'[e].pc = "trade" /\ eng'[e].open = eng[e].open \cup new
         /\ eng'[e].session = eng[e].session /\ \A f \in Engines \ {e} : eng'[f] = eng[f]
    BY <2>5, <2>6, <2>9 DEF TypeOK
  <2> HIDE DEF new
  <2>11. new \in SUBSET Fill
    BY <1>1, <2>8
  <2> QED
    BY <1>1, <2>3, <2>4, <2>8, <2>9, <2>10, <2>11, FillAccount
<1>3. ASSUME NEW quotes, eng[e].pc = "trade", eng' = [eng EXCEPT ![e].quotes = quotes],
             UNCHANGED <<disk, log, killed, filled>>
      PROVE  AccountInv'
  BY <1>1, <1>3, MoveAccount DEF Saving, TypeOK, Memory
<1>4. ASSUME NEW t \in Tickers, NEW side \in Sides, MakerRest(e, t, side)
      PROVE  AccountInv'
  BY <1>3, <1>4 DEF MakerRest
<1>5. ASSUME NEW q \in eng[e].quotes, MakerCancel(e, q)
      PROVE  AccountInv'
  BY <1>3, <1>5 DEF MakerCancel
<1>6. ASSUME NEW q \in eng[e].quotes, MakerFill(e, q)
      PROVE  AccountInv'
  <2>1. CASE q.lot <= eng[e].cash["maker"]
    <3> DEFINE p == Position(e, "maker", q.ticker, q.side, q.lot)
    <3>1. filled' = filled \cup {p} /\ Key(p) \notin Keys(filled) /\ p.session = eng[e].session
      BY <1>6, <2>1 DEF MakerFill, Fresh, Trusted, Position
    <3> DEFINE m == [eng[e] EXCEPT !.open = @ \cup {p}, !.quotes = @ \ {q},
                                   !.cash["maker"] = @ - q.lot]
    <3>2. m.pc = eng[e].pc /\ m.open = eng[e].open \cup {p} /\ m.session = eng[e].session
      BY <1>1 DEF Memory
    <3>3. eng' = [eng EXCEPT ![e] = m] /\ eng[e].pc = "trade"
      BY <1>6, <2>1 DEF MakerFill
    <3> HIDE DEF m
    <3>4. /\ eng'[e].pc = "trade" /\ eng'[e].open = eng[e].open \cup {p}
          /\ eng'[e].session = eng[e].session /\ \A f \in Engines \ {e} : eng'[f] = eng[f]
          /\ eng[e].pc = "trade"
      BY <3>2, <3>3 DEF TypeOK
    <3>5. {p} \in SUBSET Fill
      BY <1>1, <3>1
    <3> HIDE DEF p
    <3> DEFINE new == {p}
    <3>6. /\ \A x \in new : Key(x) \notin Keys(filled) /\ x.session = eng[e].session
          /\ \A x, y \in new : Key(x) = Key(y) => x = y
      BY <3>1
    <3>7. /\ filled' = filled \cup new /\ eng'[e].open = eng[e].open \cup new
          /\ new \in SUBSET Fill /\ UNCHANGED <<disk, log, killed>>
      BY <1>6, <3>1, <3>4, <3>5 DEF MakerFill
    <3> HIDE DEF new
    <3> QED
      BY <1>1, <3>4, <3>6, <3>7, FillAccount
  <2>2. CASE ~(q.lot <= eng[e].cash["maker"])
    BY <1>3, <1>6, <2>2 DEF MakerFill
  <2> QED
    BY <2>1, <2>2
<1> QED
  BY <1>2, <1>4, <1>5, <1>6

LEMMA SettleAccount ==
    ASSUME TypeOK, TypeOK', AccountInv, NEW e \in Engines, NEW p \in eng[e].open, Settle(e, p)
    PROVE  AccountInv'
<1>1. /\ eng'[e].pc = "settle" /\ eng'[e].open = eng[e].open \ {p}
      /\ eng'[e].session = eng[e].session /\ \A f \in Engines \ {e} : eng'[f] = eng[f]
      /\ eng[e].pc = "settle" /\ UNCHANGED <<disk, killed, filled>>
  BY DEF Settle, TypeOK, Memory
<1>2. log' = log \cup {[fill |-> p, by |-> eng[e].session]}
  BY DEF Settle
<1>3. (\E r \in log' : r.fill = p) /\ log \subseteq log'
  <2>1. [fill |-> p, by |-> eng[e].session].fill = p
    OBVIOUS
  <2> QED
    BY <1>2, <2>1
<1>4. KeysInv'
  BY <1>1, <1>2 DEF AccountInv, KeysInv
<1>5. SavesInv'
  BY <1>1, <1>3 DEF AccountInv, SavesInv, Saving, Settled
<1>6. PositionAccounted'
  BY <1>1, <1>3 DEF AccountInv, PositionAccounted, Settled
<1> QED
  BY <1>4, <1>5, <1>6 DEF AccountInv

LEMMA CrashAccount ==
    ASSUME TypeOK, AccountInv, NEW e \in Engines, Crash(e)
    PROVE  AccountInv'
<1>1. /\ eng'[e].pc = "off" /\ eng'[e].open = {} /\ \A f \in Engines \ {e} : eng'[f] = eng[f]
      /\ killed' = killed \cup {eng[e].session} /\ UNCHANGED <<disk, log, filled>>
  BY OffType DEF Crash, TypeOK
<1>2. KeysInv'
  BY <1>1 DEF AccountInv, KeysInv
<1>3. SavesInv'
  BY <1>1 DEF AccountInv, SavesInv, Saving, Settled
<1>4. PositionAccounted'
  BY <1>1 DEF AccountInv, SavesInv, PositionAccounted, Settled
<1> QED
  BY <1>2, <1>3, <1>4 DEF AccountInv

LEMMA StepAccount == Trusted /\ TypeOK /\ TypeOK' /\ AccountInv /\ [Next]_vars => AccountInv'
<1> SUFFICES ASSUME Trusted, TypeOK, TypeOK', AccountInv, [Next]_vars
             PROVE  AccountInv'
  OBVIOUS
<1>1. ASSUME UNCHANGED <<disk, log, eng, killed, filled>>
      PROVE  AccountInv'
  BY <1>1 DEF AccountInv, KeysInv, SavesInv, PositionAccounted, Saving, Settled
<1>2. {} \subseteq SettledKeys /\ DriverKeys \subseteq SettledKeys
  BY DEF DriverKeys
<1>3. ASSUME NEW e \in Engines, InitSave(e) \/ Finish(e)
      PROVE  AccountInv'
  BY <1>2, <1>3, SaveAccount DEF InitSave, Finish, Saving
<1>4. ASSUME NEW e \in Engines, EndTick(e)
      PROVE  AccountInv'
  <2>1. CASE StartSave(e, DriverKeys, "saving")
    BY <1>2, <1>4, <2>1, SaveAccount DEF EndTick, Saving
  <2>2. CASE eng' = [eng EXCEPT ![e].pc = "tick"] /\ UNCHANGED <<disk, log, killed, filled>>
    BY <1>4, <2>2, MoveAccount DEF EndTick, Saving, TypeOK, Memory
  <2> QED
    BY <1>4, <2>1, <2>2 DEF EndTick
<1>5. ASSUME NEW e \in Engines, BeginTick(e) \/ EndTrade(e)
      PROVE  AccountInv'
  <2>1. /\ eng'[e].pc \in {"trade", "settle"} /\ eng'[e].open = eng[e].open
        /\ eng'[e].session = eng[e].session /\ \A f \in Engines \ {e} : eng'[f] = eng[f]
        /\ eng[e].pc \in {"tick", "trade"} /\ UNCHANGED <<disk, log, killed, filled>>
    BY <1>5 DEF BeginTick, EndTrade, TypeOK, Memory
  <2> QED
    BY <2>1, MoveAccount DEF TypeOK, Saving
<1> QED
  BY <1>1, <1>3, <1>4, <1>5, LoadAccount, ReplaceAccount, TradeAccount, SettleAccount, CrashAccount
     DEF Next, Tick, Resolve, TripKill, vars

\* Nobody's fill is forgotten: as long as keys tell fills apart, saves do not
\* overlap and the exchange answers, any number of engines may load, trade,
\* settle, save and be killed over one state file, and every fill is in it, in
\* the memory of an engine, settled, or was made by a session that was killed.
THEOREM NoFillForgotten == ASSUME Trusted PROVE Spec => []PositionAccounted
<1>1. AccountInv => PositionAccounted
  BY DEF AccountInv
<1>2. TypeOK /\ TypeOK' /\ AccountInv /\ [Next]_vars => AccountInv'
  BY StepAccount
<1> QED
  BY <1>1, <1>2, InitAccount, TypeCorrect, PTL DEF Spec

-----------------------------------------------------------------------------
(* One engine that is never killed: what is on the book.                   *)

\* One engine process, and nothing kills it.
Sole == MaxCrash = 0 /\ \E e \in Engines : Engines = {e}

LEMMA NoKill == ASSUME Sole, TypeOK, NEW e \in Engines PROVE ~Crash(e)
<1>1. IsFiniteSet(1..MaxSessions)
  BY FS_Interval, CountAssumption
<1>2. Cardinality(killed) \in Nat
  BY <1>1, FS_Subset, FS_CardinalityType DEF TypeOK
<1> QED
  BY <1>2 DEF Sole, Crash

LEMMA OneEngineOnly ==
    ASSUME Sole, NEW e \in Engines
    PROVE  Engines = {e}
  BY DEF Sole

LEMMA LoadBook ==
    ASSUME TypeOK, NEW e \in Engines, Load(e)
    PROVE  /\ Held(e)' = Held(e) /\ HeldCash(e)' = HeldCash(e)
           /\ eng'[e].pc = "loaded" /\ eng'[e].quotes = {}
           /\ eng'[e].open = disk.open /\ eng'[e].cash = disk.cash
           /\ UNCHANGED <<market, disk, log, filled>>
<1> DEFINE m == [Off EXCEPT !.pc = "loaded", !.session = sessions',
                    !.open = disk.open, !.cash = disk.cash,
                    !.live = ("live" \in Adapters /\ ~kill)]
<1>1. eng'[e] = m
  BY DEF Load, TypeOK
<1>2. m.pc = "loaded" /\ m.quotes = {} /\ m.open = disk.open /\ m.cash = disk.cash
  BY DEF Off
<1> HIDE DEF m
<1> QED
  BY <1>1, <1>2 DEF Load, Held, HeldCash

LEMMA SaveBook ==
    ASSUME TypeOK, NEW e \in Engines, NEW settled, NEW pc \in {"saving", "lastsave"},
           eng[e].pc # "off", StartSave(e, settled, pc)
    PROVE  /\ Held(e)' = Held(e) /\ HeldCash(e)' = HeldCash(e)
           /\ eng'[e].pc = pc /\ eng'[e].quotes = eng[e].quotes
           /\ eng'[e].open = eng[e].open /\ eng'[e].cash = eng[e].cash
           /\ eng'[e].image = Saved(eng[e], settled)
           /\ UNCHANGED <<market, disk, log, filled>>
<1> DEFINE image == Saved(eng[e], settled)
<1>1. eng[e] \in Memory
  BY DEF TypeOK
<1> HIDE DEF image
<1> DEFINE m == [eng[e] EXCEPT !.pc = pc, !.image = image]
<1>2. m.pc = pc /\ m.image = image /\ m.open = eng[e].open /\ m.cash = eng[e].cash
      /\ m.quotes = eng[e].quotes
  BY <1>1 DEF Memory
<1>3. eng'[e] = m
  BY DEF StartSave, TypeOK, image
<1> HIDE DEF m
<1> QED
  BY <1>2, <1>3 DEF StartSave, Held, HeldCash, image

LEMMA ReplaceBook ==
    ASSUME TypeOK, NEW e \in Engines, Replace(e)
    PROVE  /\ disk' = eng[e].image
           /\ \/ /\ eng'[e].pc = "tick" /\ eng'[e].open = eng[e].open
                 /\ eng'[e].cash = eng[e].cash /\ eng'[e].quotes = eng[e].quotes
              \/ eng'[e].pc = "off" /\ eng'[e].quotes = {}
           /\ UNCHANGED <<market, log, filled>>
<1>1. eng[e] \in Memory
  BY DEF TypeOK
<1>2. CASE eng[e].pc = "saving"
  <2> DEFINE m == [eng[e] EXCEPT !.pc = "tick", !.image = NoState]
  <2>1. m.pc = "tick" /\ m.open = eng[e].open /\ m.cash = eng[e].cash /\ m.quotes = eng[e].quotes
    BY <1>1 DEF Memory
  <2>2. eng'[e] = m
    BY <1>2 DEF Replace, TypeOK
  <2> QED
    BY <2>1, <2>2 DEF Replace
<1>3. CASE eng[e].pc = "lastsave"
  <2>1. eng'[e] = Off
    BY <1>3 DEF Replace, TypeOK
  <2> QED
    BY <2>1 DEF Replace, Off
<1> QED
  BY <1>2, <1>3 DEF Replace

\* A step within a tick that books nothing.
Quiet(e) ==
    /\ eng[e].pc \notin {"off", "saving", "lastsave", "loaded"}
    /\ eng'[e].pc \notin {"off", "saving", "lastsave", "loaded"}
    /\ eng'[e].open = eng[e].open /\ eng'[e].cash = eng[e].cash
    /\ UNCHANGED <<market, disk, log, filled>>

LEMMA StageQuiet ==
    ASSUME TypeOK, NEW e \in Engines,
           \/ BeginTick(e) /\ eng'[e].pc # "saving"
           \/ EndTrade(e)
           \/ /\ eng[e].pc = "settle" /\ eng' = [eng EXCEPT ![e].pc = "tick"]
              /\ UNCHANGED <<market, kill, disk, log, sessions, killed, filled>>
    PROVE  Quiet(e) /\ eng'[e].quotes = eng[e].quotes
<1>1. eng[e] \in Memory
  BY DEF TypeOK
<1>2. ASSUME NEW allowed, NEW pc
      PROVE  LET m == [eng[e] EXCEPT !.pc = pc, !.allowed = allowed]
             IN  m.pc = pc /\ m.open = eng[e].open /\ m.cash = eng[e].cash
                 /\ m.quotes = eng[e].quotes
  BY <1>1 DEF Memory
<1>3. ASSUME NEW pc
      PROVE  LET m == [eng[e] EXCEPT !.pc = pc]
             IN  m.pc = pc /\ m.open = eng[e].open /\ m.cash = eng[e].cash
                 /\ m.quotes = eng[e].quotes
  BY <1>1 DEF Memory
<1>4. CASE EndTrade(e)
  BY <1>2, <1>4 DEF EndTrade, TypeOK, Quiet
<1>5. CASE BeginTick(e)
  <2>1. CASE eng' = [eng EXCEPT ![e].pc = "trade", ![e].allowed = EntriesAllowed]
    BY <1>2, <1>5, <2>1 DEF BeginTick, TypeOK, Quiet
  <2>2. CASE eng' = [eng EXCEPT ![e].pc = "settle"]
    BY <1>3, <1>5, <2>2 DEF BeginTick, TypeOK, Quiet
  <2> QED
    BY <1>5, <2>1, <2>2 DEF BeginTick
<1>6. CASE eng[e].pc = "settle" /\ eng' = [eng EXCEPT ![e].pc = "tick"]
           /\ UNCHANGED <<market, kill, disk, log, sessions, killed, filled>>
  BY <1>3, <1>6 DEF TypeOK, Quiet
<1> QED
  BY <1>4, <1>5, <1>6

LEMMA QuoteQuiet ==
    ASSUME TypeOK, NEW e \in Engines, NEW quotes, eng[e].pc = "trade",
           eng' = [eng EXCEPT ![e].quotes = quotes],
           UNCHANGED <<market, disk, log, filled>>
    PROVE  Quiet(e) /\ eng'[e].quotes = quotes
<1>1. eng[e] \in Memory
  BY DEF TypeOK
<1> DEFINE m == [eng[e] EXCEPT !.quotes = quotes]
<1>2. m.pc = eng[e].pc /\ m.open = eng[e].open /\ m.cash = eng[e].cash /\ m.quotes = quotes
  BY <1>1 DEF Memory
<1>3. eng'[e] = m
  BY DEF TypeOK
<1> QED
  BY <1>2, <1>3 DEF Quiet

\* What a decision books, and what for.
Booking(e, t, lot, n, shadow, live, answered) ==
    /\ market[t] = "open" /\ ~Holds(e, "shadow", t)
    /\ live # {} => ~Holds(e, "live", t)
    /\ answered \subseteq live /\ (answered # live => OrderErrors)
    /\ eng[e].pc = "trade" /\ eng'[e].pc = "trade"
    /\ eng'[e].quotes = eng[e].quotes
    /\ eng'[e].open = eng[e].open \cup shadow \cup answered
    /\ eng'[e].cash = [eng[e].cash EXCEPT
                          !["shadow"] = IF shadow # {} THEN @ - lot ELSE @,
                          !["live"] = IF answered # {} THEN @ - n ELSE @]
    /\ filled' = filled \cup shadow \cup live
    /\ UNCHANGED <<market, disk, log>>

LEMMA TakeBook ==
    ASSUME TypeOK, NEW e \in Engines, NEW t \in Tickers, NEW side \in Sides, Take(e, t, side)
    PROVE  \E lot \in Lots, n \in Lots :
           \E shadow \in SUBSET {Position(e, "shadow", t, side, lot)},
              live \in SUBSET {Position(e, "live", t, side, n)},
              answered \in SUBSET {Position(e, "live", t, side, n)} :
              Booking(e, t, lot, n, shadow, live, answered)
<1>1. eng[e] \in Memory
  BY DEF TypeOK
<1>2. PICK lot \in Lots, n \in Lots :
       \E shadow \in SUBSET {Position(e, "shadow", t, side, lot)},
          live \in SUBSET {Position(e, "live", t, side, n)} :
       \E answered \in {live, {}} :
          /\ live # {} => ~Holds(e, "live", t)
          /\ answered # live => OrderErrors
          /\ Taken(e, lot, n, shadow, live, answered)
  BY DEF Take
<1>3. PICK shadow \in SUBSET {Position(e, "shadow", t, side, lot)},
           live \in SUBSET {Position(e, "live", t, side, n)} :
       \E answered \in {live, {}} :
          /\ live # {} => ~Holds(e, "live", t)
          /\ answered # live => OrderErrors
          /\ Taken(e, lot, n, shadow, live, answered)
  BY <1>2
<1>4. PICK answered \in {live, {}} :
          /\ live # {} => ~Holds(e, "live", t)
          /\ answered # live => OrderErrors
          /\ Taken(e, lot, n, shadow, live, answered)
  BY <1>3
<1> DEFINE m == [eng[e] EXCEPT
                    !.open = @ \cup shadow \cup answered,
                    !.cash["shadow"] = IF shadow # {} THEN @ - lot ELSE @,
                    !.cash["live"] = IF answered # {} THEN @ - n ELSE @]
<1>5. /\ m.pc = eng[e].pc /\ m.quotes = eng[e].quotes
      /\ m.open = eng[e].open \cup shadow \cup answered
      /\ m.cash = [eng[e].cash EXCEPT
                     !["shadow"] = IF shadow # {} THEN @ - lot ELSE @,
                     !["live"] = IF answered # {} THEN @ - n ELSE @]
  BY <1>1 DEF Memory
<1>6. eng'[e] = m /\ filled' = filled \cup shadow \cup live
  BY <1>4 DEF Taken, TypeOK
<1> HIDE DEF m
<1>7. answered \in SUBSET {Position(e, "live", t, side, n)} /\ answered \subseteq live
  OBVIOUS
<1>8. Booking(e, t, lot, n, shadow, live, answered)
  BY <1>4, <1>5, <1>6, <1>7 DEF Take, Booking
<1> QED
  BY <1>7, <1>8

LEMMA MakerBook ==
    ASSUME TypeOK, NEW e \in Engines, NEW q \in eng[e].quotes, MakerFill(e, q)
    PROVE  \/ Quiet(e) /\ eng'[e].quotes = eng[e].quotes \ {q}
           \/ LET p == Position(e, "maker", q.ticker, q.side, q.lot)
              IN  /\ eng[e].pc = "trade" /\ eng'[e].pc = "trade"
                  /\ eng'[e].quotes = eng[e].quotes \ {q}
                  /\ eng'[e].open = eng[e].open \cup {p}
                  /\ eng'[e].cash = [eng[e].cash EXCEPT !["maker"] = @ - q.lot]
                  /\ filled' = filled \cup {p}
                  /\ UNCHANGED <<market, disk, log>>
<1> DEFINE p == Position(e, "maker", q.ticker, q.side, q.lot)
<1>1. eng[e] \in Memory
  BY DEF TypeOK
<1> HIDE DEF p
<1>2. CASE q.lot <= eng[e].cash["maker"]
  <2> DEFINE m == [eng[e] EXCEPT !.open = @ \cup {p}, !.quotes = @ \ {q},
                                 !.cash["maker"] = @ - q.lot]
  <2>1. /\ m.pc = eng[e].pc /\ m.quotes = eng[e].quotes \ {q}
        /\ m.open = eng[e].open \cup {p}
        /\ m.cash = [eng[e].cash EXCEPT !["maker"] = @ - q.lot]
    BY <1>1 DEF Memory
  <2>2. eng'[e] = m /\ filled' = filled \cup {p}
    BY <1>2 DEF MakerFill, TypeOK, p
  <2> HIDE DEF m
  <2> QED
    BY <2>1, <2>2 DEF MakerFill, p
<1>3. CASE ~(q.lot <= eng[e].cash["maker"])
  <2>1. eng' = [eng EXCEPT ![e].quotes = eng[e].quotes \ {q}] /\ UNCHANGED <<market, disk, log, filled>>
        /\ eng[e].pc = "trade"
    BY <1>3 DEF MakerFill
  <2> QED
    BY <2>1, QuoteQuiet
<1> QED
  BY <1>2, <1>3

LEMMA SettleBook ==
    ASSUME TypeOK, NEW e \in Engines, NEW p \in eng[e].open, Settle(e, p)
    PROVE  /\ eng[e].pc = "settle" /\ eng'[e].pc = "settle" /\ market[p.ticker] # "open"
           /\ eng'[e].open = eng[e].open \ {p}
           /\ eng'[e].cash = [eng[e].cash EXCEPT ![p.adapter] = @ + Payout(p)]
           /\ eng'[e].quotes = eng[e].quotes
           /\ log' = log \cup {[fill |-> p, by |-> eng[e].session]}
           /\ Settlements' = Settlements \cup {p}
           /\ UNCHANGED <<market, disk, filled>>
<1>1. eng[e] \in Memory
  BY DEF TypeOK
<1> DEFINE m == [eng[e] EXCEPT !.open = @ \ {p}, !.cash[p.adapter] = @ + Payout(p)]
<1>2. /\ m.pc = eng[e].pc /\ m.quotes = eng[e].quotes
      /\ m.open = eng[e].open \ {p}
      /\ m.cash = [eng[e].cash EXCEPT ![p.adapter] = @ + Payout(p)]
  BY <1>1 DEF Memory
<1>3. eng'[e] = m
  BY DEF Settle, TypeOK
<1> HIDE DEF m
<1> DEFINE row == [fill |-> p, by |-> eng[e].session]
<1>4. Settlements' = Settlements \cup {p}
  <2>1. row.fill = p /\ log' = log \cup {row}
    BY DEF Settle
  <2> HIDE DEF row
  <2>2. {r.fill : r \in log \cup {row}} = {r.fill : r \in log} \cup {row.fill}
    OBVIOUS
  <2> QED
    BY <2>1, <2>2 DEF Settlements
<1> QED
  BY <1>2, <1>3, <1>4 DEF Settle

LEMMA SavedBook ==
    ASSUME NEW e \in Engines, OncePerMarket(e), FilesBehind(e), eng[e].pc # "off",
           NEW settled \in {{}, SettledKeys}
    PROVE  /\ Saved(eng[e], settled).open \subseteq Booked(e)
           /\ eng[e].open \subseteq Saved(eng[e], settled).open \cup Settlements
           /\ Saved(eng[e], settled).cash = eng[e].cash
<1> DEFINE merged == eng[e].open \cup {p \in disk.open : Key(p) \notin Keys(eng[e].open)}
<1>1. /\ Saved(eng[e], settled).open = {p \in merged : Key(p) \notin settled}
      /\ Saved(eng[e], settled).cash = eng[e].cash
  BY DEF Saved
<1>2. Held(e) = eng[e].open /\ merged \subseteq Booked(e)
  BY DEF Held, FilesBehind, Booked
<1>3. ASSUME NEW p \in eng[e].open, Key(p) \in settled
      PROVE  p \in Settlements
  <2>1. PICK r \in log : Key(p) = Key(r.fill)
    BY <1>3 DEF SettledKeys
  <2>2. p.adapter = r.fill.adapter /\ p.ticker = r.fill.ticker
    BY <2>1 DEF Key
  <2>3. p \in Booked(e) /\ r.fill \in Booked(e) /\ r.fill \in Settlements
    BY <1>2 DEF Booked, Settlements
  <2> QED
    BY <2>2, <2>3 DEF OncePerMarket
<1> QED
  BY <1>1, <1>2, <1>3

\* A step after which the book is what it was.
LEMMA KeepsBook ==
    ASSUME NEW e \in Engines, OncePerMarket(e), SettledClosed, Held(e)' = Held(e),
           UNCHANGED <<market, log>>
    PROVE  OncePerMarket(e)' /\ SettledClosed' /\ Booked(e)' = Booked(e) /\ Settlements' = Settlements
<1>1. Settlements' = Settlements
  BY DEF Settlements
<1>2. Booked(e)' = Booked(e)
  BY <1>1 DEF Booked
<1> QED
  BY <1>1, <1>2 DEF OncePerMarket, SettledClosed

LEMMA LoadKeeps ==
    ASSUME TypeOK, NEW e \in Engines, SettledClosed, OncePerMarket(e), QuotesFree(e), FilesBehind(e),
           Load(e)
    PROVE  /\ SettledClosed' /\ OncePerMarket(e)' /\ QuotesFree(e)' /\ FilesBehind(e)'
           /\ Booked(e)' = Booked(e) /\ filled' = filled
<1>1. /\ OncePerMarket(e)' /\ SettledClosed' /\ Booked(e)' = Booked(e)
      /\ eng'[e].pc = "loaded" /\ eng'[e].quotes = {} /\ disk' = disk /\ filled' = filled
  BY LoadBook, KeepsBook
<1> QED
  BY <1>1 DEF QuotesFree, FilesBehind

LEMMA SaveKeeps ==
    ASSUME TypeOK, NEW e \in Engines, SettledClosed, OncePerMarket(e), QuotesFree(e), FilesBehind(e),
           NEW settled \in {{}, SettledKeys}, NEW pc \in {"saving", "lastsave"},
           eng[e].pc # "off", StartSave(e, settled, pc)
    PROVE  /\ SettledClosed' /\ OncePerMarket(e)' /\ QuotesFree(e)' /\ FilesBehind(e)'
           /\ Booked(e)' = Booked(e) /\ filled' = filled
<1>1. /\ OncePerMarket(e)' /\ SettledClosed' /\ Booked(e)' = Booked(e) /\ Settlements' = Settlements
      /\ eng'[e].open = eng[e].open /\ eng'[e].quotes = eng[e].quotes
      /\ eng'[e].image = Saved(eng[e], settled) /\ disk' = disk /\ filled' = filled
  BY SaveBook, KeepsBook
<1>2. /\ Saved(eng[e], settled).open \subseteq Booked(e)
      /\ eng[e].open \subseteq Saved(eng[e], settled).open \cup Settlements
  BY SavedBook
<1>3. FilesBehind(e)'
  BY <1>1, <1>2 DEF FilesBehind
<1>4. QuotesFree(e)'
  BY <1>1 DEF QuotesFree
<1> QED
  BY <1>1, <1>3, <1>4

LEMMA ReplaceKeeps ==
    ASSUME TypeOK, NEW e \in Engines, SettledClosed, OncePerMarket(e), QuotesFree(e), FilesBehind(e),
           Replace(e)
    PROVE  /\ SettledClosed' /\ OncePerMarket(e)' /\ QuotesFree(e)' /\ FilesBehind(e)'
           /\ Booked(e)' = Booked(e) /\ filled' = filled
<1>1. eng[e].pc \in {"saving", "lastsave"}
  BY DEF Replace
<1>2. disk'.open \subseteq Booked(e) /\ eng[e].open \subseteq disk'.open \cup Settlements
      /\ Held(e) = eng[e].open
  BY <1>1, ReplaceBook DEF FilesBehind, Held
<1>3. Settlements' = Settlements
  BY ReplaceBook DEF Settlements
<1>4. CASE /\ eng'[e].pc = "tick" /\ eng'[e].open = eng[e].open
           /\ eng'[e].cash = eng[e].cash /\ eng'[e].quotes = eng[e].quotes
  <2>1. Held(e)' = Held(e)
    BY <1>2, <1>4 DEF Held
  <2>2. OncePerMarket(e)' /\ SettledClosed' /\ Booked(e)' = Booked(e)
    BY <2>1, ReplaceBook, KeepsBook
  <2> QED
    BY <1>2, <1>4, <2>2, ReplaceBook DEF QuotesFree, FilesBehind
<1>5. CASE eng'[e].pc = "off" /\ eng'[e].quotes = {}
  <2>1. Held(e)' = disk'.open
    BY <1>5 DEF Held
  <2>2. Booked(e)' = Booked(e)
    BY <1>2, <1>3, <2>1 DEF Booked
  <2>3. OncePerMarket(e)' /\ SettledClosed'
    BY <1>3, <2>2, ReplaceBook DEF OncePerMarket, SettledClosed
  <2> QED
    BY <1>2, <1>5, <2>2, <2>3, ReplaceBook DEF QuotesFree, FilesBehind
<1> QED
  BY <1>4, <1>5, ReplaceBook

LEMMA QuietKeeps ==
    ASSUME TypeOK, NEW e \in Engines, SettledClosed, OncePerMarket(e), QuotesFree(e), FilesBehind(e),
           Quiet(e)
    PROVE  /\ SettledClosed' /\ OncePerMarket(e)' /\ FilesBehind(e)'
           /\ eng'[e].quotes \subseteq eng[e].quotes => QuotesFree(e)'
           /\ Booked(e)' = Booked(e) /\ filled' = filled
<1>1. Held(e)' = Held(e)
  BY DEF Quiet, Held
<1>2. OncePerMarket(e)' /\ SettledClosed' /\ Booked(e)' = Booked(e)
  BY <1>1, KeepsBook DEF Quiet
<1> QED
  BY <1>2 DEF Quiet, QuotesFree, FilesBehind

LEMMA RestKeeps ==
    ASSUME TypeOK, NEW e \in Engines, SettledClosed, OncePerMarket(e), QuotesFree(e), FilesBehind(e),
           NEW t \in Tickers, NEW side \in Sides, MakerRest(e, t, side)
    PROVE  /\ SettledClosed' /\ OncePerMarket(e)' /\ QuotesFree(e)' /\ FilesBehind(e)'
           /\ Booked(e)' = Booked(e) /\ filled' = filled
<1>1. PICK lot \in Lots :
        eng' = [eng EXCEPT ![e].quotes = @ \cup {[ticker |-> t, side |-> side, lot |-> lot]}]
  BY DEF MakerRest
<1> DEFINE q == [ticker |-> t, side |-> side, lot |-> lot]
<1>2. q.ticker = t
  OBVIOUS
<1> HIDE DEF q
<1>3. eng' = [eng EXCEPT ![e].quotes = eng[e].quotes \cup {q}]
  BY <1>1 DEF q
<1>4. Quiet(e) /\ eng'[e].quotes = eng[e].quotes \cup {q}
  BY <1>3, QuoteQuiet DEF MakerRest
<1>5. /\ SettledClosed' /\ OncePerMarket(e)' /\ FilesBehind(e)'
      /\ Booked(e)' = Booked(e) /\ filled' = filled
  BY <1>4, QuietKeeps
<1>6. Held(e) = eng[e].open
  BY DEF MakerRest, Held
<1>7. ASSUME NEW p \in Booked(e) PROVE ~(p.adapter = "maker" /\ p.ticker = t)
  <2>1. CASE p \in eng[e].open
    BY <2>1 DEF MakerRest, Holds
  <2>2. CASE p \in Settlements
    BY <2>2 DEF MakerRest, SettledClosed
  <2> QED
    BY <1>6, <2>1, <2>2 DEF Booked
<1>8. \A r \in eng[e].quotes : r.ticker # t
  BY DEF MakerRest
<1>9. QuotesFree(e)'
  BY <1>2, <1>4, <1>5, <1>7, <1>8 DEF QuotesFree
<1> QED
  BY <1>5, <1>9

LEMMA TakeKeeps ==
    ASSUME TypeOK, NEW e \in Engines, SettledClosed, OncePerMarket(e), QuotesFree(e), FilesBehind(e),
           NEW t \in Tickers, NEW side \in Sides, Take(e, t, side)
    PROVE  /\ SettledClosed' /\ OncePerMarket(e)' /\ QuotesFree(e)' /\ FilesBehind(e)'
           /\ ~OrderErrors /\ filled \subseteq Booked(e) => filled' \subseteq Booked(e)'
<1>1. PICK lot \in Lots, n \in Lots :
           \E shadow \in SUBSET {Position(e, "shadow", t, side, lot)},
              live \in SUBSET {Position(e, "live", t, side, n)},
              answered \in SUBSET {Position(e, "live", t, side, n)} :
              Booking(e, t, lot, n, shadow, live, answered)
  BY TakeBook
<1> DEFINE sp == Position(e, "shadow", t, side, lot)
           lp == Position(e, "live", t, side, n)
<1>2. /\ sp.adapter = "shadow" /\ sp.ticker = t
      /\ lp.adapter = "live" /\ lp.ticker = t
  BY DEF Position
<1>3. PICK shadow \in SUBSET {sp}, live \in SUBSET {lp}, answered \in SUBSET {lp} :
              Booking(e, t, lot, n, shadow, live, answered)
  BY <1>1
<1> USE DEF Booking
<1> HIDE DEF sp, lp
<1>4. Held(e) = eng[e].open /\ Held(e)' = eng[e].open \cup shadow \cup answered
      /\ Settlements' = Settlements
  BY <1>3 DEF Held, Settlements
<1>5. Booked(e)' = Booked(e) \cup shadow \cup answered
  BY <1>4 DEF Booked
<1>6. ASSUME NEW p \in Booked(e), p.ticker = t
      PROVE  p.adapter # "shadow" /\ (live # {} => p.adapter # "live")
  <2>1. p \in eng[e].open
    BY <1>3, <1>4, <1>6 DEF Booked, SettledClosed
  <2> QED
    BY <1>3, <1>6, <2>1 DEF Holds
<1>7. \A p \in shadow \cup answered : p \in {sp, lp} /\ (p = lp => live # {} \/ p \in shadow)
  BY <1>3
<1>8. OncePerMarket(e)'
  BY <1>2, <1>3, <1>5, <1>6 DEF OncePerMarket
<1>9. QuotesFree(e)'
  BY <1>2, <1>3, <1>5 DEF QuotesFree
<1>10. FilesBehind(e)' /\ SettledClosed'
  BY <1>3, <1>4, <1>5 DEF FilesBehind, SettledClosed
<1>11. ~OrderErrors /\ filled \subseteq Booked(e) => filled' \subseteq Booked(e)'
  BY <1>3, <1>5
<1> QED
  BY <1>8, <1>9, <1>10, <1>11

LEMMA FillKeeps ==
    ASSUME TypeOK, NEW e \in Engines, SettledClosed, OncePerMarket(e), QuotesFree(e), FilesBehind(e),
           NEW q \in eng[e].quotes, MakerFill(e, q)
    PROVE  /\ SettledClosed' /\ OncePerMarket(e)' /\ QuotesFree(e)' /\ FilesBehind(e)'
           /\ filled \subseteq Booked(e) => filled' \subseteq Booked(e)'
<1> DEFINE p == Position(e, "maker", q.ticker, q.side, q.lot)
<1>1. p.adapter = "maker" /\ p.ticker = q.ticker
  BY DEF Position
<1>2. \/ Quiet(e) /\ eng'[e].quotes = eng[e].quotes \ {q}
      \/ /\ eng[e].pc = "trade" /\ eng'[e].pc = "trade"
         /\ eng'[e].quotes = eng[e].quotes \ {q}
         /\ eng'[e].open = eng[e].open \cup {p}
         /\ filled' = filled \cup {p}
         /\ UNCHANGED <<market, disk, log>>
  BY MakerBook
<1> HIDE DEF p
<1>3. CASE Quiet(e) /\ eng'[e].quotes = eng[e].quotes \ {q}
  BY <1>3, QuietKeeps
<1>4. CASE /\ eng[e].pc = "trade" /\ eng'[e].pc = "trade"
           /\ eng'[e].quotes = eng[e].quotes \ {q}
           /\ eng'[e].open = eng[e].open \cup {p}
           /\ filled' = filled \cup {p}
           /\ UNCHANGED <<market, disk, log>>
  <2>1. Held(e) = eng[e].open /\ Held(e)' = eng[e].open \cup {p} /\ Settlements' = Settlements
    BY <1>4 DEF Held, Settlements
  <2>2. Booked(e)' = Booked(e) \cup {p}
    BY <2>1 DEF Booked
  <2>3. \A r \in Booked(e) : ~(r.adapter = "maker" /\ r.ticker = p.ticker)
    BY <1>1 DEF QuotesFree
  <2>4. OncePerMarket(e)'
    BY <1>1, <2>2, <2>3 DEF OncePerMarket
  <2>5. QuotesFree(e)'
    BY <1>1, <1>4, <2>2 DEF QuotesFree
  <2>6. FilesBehind(e)' /\ SettledClosed'
    BY <1>4, <2>1, <2>2 DEF FilesBehind, SettledClosed
  <2> QED
    BY <1>4, <2>2, <2>4, <2>5, <2>6
<1> QED
  BY <1>2, <1>3, <1>4

LEMMA SettleKeeps ==
    ASSUME TypeOK, NEW e \in Engines, SettledClosed, OncePerMarket(e), QuotesFree(e), FilesBehind(e),
           NEW p \in eng[e].open, Settle(e, p)
    PROVE  /\ SettledClosed' /\ OncePerMarket(e)' /\ QuotesFree(e)' /\ FilesBehind(e)'
           /\ Booked(e)' = Booked(e) /\ filled' = filled
<1>1. Held(e) = eng[e].open /\ Held(e)' = eng[e].open \ {p} /\ Settlements' = Settlements \cup {p}
  BY SettleBook DEF Held
<1>2. Booked(e)' = Booked(e)
  BY <1>1 DEF Booked
<1>3. SettledClosed'
  BY <1>1, SettleBook DEF SettledClosed
<1>4. /\ eng[e].pc = "settle" /\ eng'[e].pc = "settle"
      /\ eng'[e].quotes = eng[e].quotes /\ disk' = disk
  BY SettleBook
<1>5. OncePerMarket(e)' /\ QuotesFree(e)'
  BY <1>2, <1>4 DEF OncePerMarket, QuotesFree
<1>6. FilesBehind(e)'
  BY <1>2, <1>4 DEF FilesBehind
<1> QED
  BY <1>2, <1>3, <1>5, <1>6, SettleBook

\* Every step.
LEMMA StepBook ==
    ASSUME Sole, TypeOK, BookInv, [Next]_vars
    PROVE  BookInv' /\ (~OrderErrors /\ FilledBooked => FilledBooked')
<1> DEFINE Here(e) == OncePerMarket(e) /\ QuotesFree(e) /\ FilesBehind(e)
           Counted(e) == ~OrderErrors /\ filled \subseteq Booked(e) => filled' \subseteq Booked(e)'
<1>1. ASSUME NEW e \in Engines, SettledClosed' /\ Here(e)' /\ Counted(e)
      PROVE  BookInv' /\ (~OrderErrors /\ FilledBooked => FilledBooked')
  <2>1. Engines = {e}
    BY OneEngineOnly
  <2>2. BookInv'
    BY <1>1, <2>1 DEF BookInv
  <2>3. ~OrderErrors /\ FilledBooked => FilledBooked'
    BY <1>1, <2>1 DEF FilledBooked
  <2> QED
    BY <2>2, <2>3
<1>2. ASSUME NEW e \in Engines, Load(e) PROVE SettledClosed' /\ Here(e)' /\ Counted(e)
  BY <1>2, LoadKeeps DEF BookInv
<1>3. ASSUME NEW e \in Engines, InitSave(e) \/ EndTick(e) \/ Finish(e)
      PROVE  SettledClosed' /\ Here(e)' /\ Counted(e)
  <2>1. DriverKeys \in {{}, SettledKeys}
    BY DEF DriverKeys
  <2>2. ASSUME NEW settled \in {{}, SettledKeys}, NEW pc \in {"saving", "lastsave"},
               eng[e].pc # "off", StartSave(e, settled, pc)
        PROVE  SettledClosed' /\ Here(e)' /\ Counted(e)
    BY <2>2, SaveKeeps DEF BookInv
  <2>3. CASE InitSave(e)
    BY <2>2, <2>3 DEF InitSave
  <2>4. CASE Finish(e)
    BY <2>1, <2>2, <2>4 DEF Finish
  <2>5. CASE eng[e].pc = "settle" /\ StartSave(e, DriverKeys, "saving")
    BY <2>1, <2>2, <2>5
  <2>6. CASE eng[e].pc = "settle" /\ eng' = [eng EXCEPT ![e].pc = "tick"]
             /\ UNCHANGED <<market, kill, disk, log, sessions, killed, filled>>
    BY <2>6, StageQuiet, QuietKeeps DEF BookInv
  <2> QED
    BY <1>3, <2>3, <2>4, <2>5, <2>6 DEF EndTick
<1>4. ASSUME NEW e \in Engines, Replace(e) PROVE SettledClosed' /\ Here(e)' /\ Counted(e)
  BY <1>4, ReplaceKeeps DEF BookInv
<1>5. ASSUME NEW e \in Engines, BeginTick(e) \/ EndTrade(e)
      PROVE  SettledClosed' /\ Here(e)' /\ Counted(e)
  <2>1. Quiet(e) /\ eng'[e].quotes = eng[e].quotes
    <3>1. BeginTick(e) => eng'[e].pc # "saving"
      BY DEF BeginTick, TypeOK, Memory
    <3> QED
      BY <1>5, <3>1, StageQuiet
  <2> QED
    BY <2>1, QuietKeeps DEF BookInv
<1>6. ASSUME NEW e \in Engines, NEW t \in Tickers, NEW side \in Sides, Take(e, t, side)
      PROVE  SettledClosed' /\ Here(e)' /\ Counted(e)
  BY <1>6, TakeKeeps DEF BookInv
<1>7. ASSUME NEW e \in Engines, NEW t \in Tickers, NEW side \in Sides, MakerRest(e, t, side)
      PROVE  SettledClosed' /\ Here(e)' /\ Counted(e)
  BY <1>7, RestKeeps DEF BookInv
<1>8. ASSUME NEW e \in Engines, NEW q \in eng[e].quotes, MakerFill(e, q)
      PROVE  SettledClosed' /\ Here(e)' /\ Counted(e)
  BY <1>8, FillKeeps DEF BookInv
<1>9. ASSUME NEW e \in Engines, NEW q \in eng[e].quotes, MakerCancel(e, q)
      PROVE  SettledClosed' /\ Here(e)' /\ Counted(e)
  <2>1. Quiet(e) /\ eng'[e].quotes = eng[e].quotes \ {q}
    BY <1>9, QuoteQuiet DEF MakerCancel
  <2> QED
    BY <2>1, QuietKeeps DEF BookInv
<1>10. ASSUME NEW e \in Engines, NEW p \in eng[e].open, Settle(e, p)
       PROVE  SettledClosed' /\ Here(e)' /\ Counted(e)
  BY <1>10, SettleKeeps DEF BookInv
<1>11. CASE UNCHANGED vars
  BY <1>11 DEF vars, BookInv, SettledClosed, Settlements, OncePerMarket, QuotesFree, FilesBehind,
     Booked, Held, FilledBooked
<1>12. CASE TripKill \/ \E t \in Tickers : Resolve(t)
  <2>1. /\ UNCHANGED <<disk, log, eng, filled>>
        /\ \A t \in Tickers : market[t] # "open" => market'[t] = market[t]
    BY <1>12 DEF TripKill, Resolve, TypeOK
  <2>2. \A p \in Settlements : p.ticker \in Tickers
    BY DEF Settlements, TypeOK, Row, Fill
  <2>3. SettledClosed'
    BY <2>1, <2>2 DEF BookInv, SettledClosed, Settlements
  <2> QED
    BY <2>1, <2>3 DEF BookInv, Settlements, OncePerMarket, QuotesFree, FilesBehind, Booked, Held,
       FilledBooked
<1> HIDE DEF Here, Counted
<1>13. CASE \E e \in Engines : Load(e) \/ InitSave(e) \/ Replace(e) \/ Tick(e) \/ Finish(e) \/ Crash(e)
  <2>1. PICK e \in Engines : Load(e) \/ InitSave(e) \/ Replace(e) \/ Tick(e) \/ Finish(e)
    BY <1>13, NoKill
  <2> QED
    BY <1>1, <1>2, <1>3, <1>4, <1>5, <1>6, <1>7, <1>8, <1>9, <1>10, <2>1 DEF Tick
<1> QED
  BY <1>11, <1>12, <1>13 DEF Next

-----------------------------------------------------------------------------
(* One engine that is never killed, under run: what the log and the cash   *)
(* say of the book.                                                        *)

\* Won, with the results as a parameter.
WonIn(results, ps, b) ==
    SumFunction([p \in ps |->
        IF p.adapter = b THEN (IF results[p.ticker] = p.side THEN 2 * p.lot ELSE 0) - p.lot ELSE 0])

LEMMA WonIsWonIn ==
    ASSUME NEW b
    PROVE  /\ Won(Settlements, b) = WonIn(market, Settlements, b)
           /\ Won(Settlements, b)' = WonIn(market', Settlements', b)
  BY DEF Won, WonIn, Pnl, Payout, Wins

\* What a position costs.
LEMMA LotType == ASSUME NEW p \in Fill PROVE p.lot \in Nat /\ p.lot \in Int
<1>1. p.lot \in Lots
  BY DEF Fill
<1>2. Lots \subseteq Nat
  BY SetAssumption
<1>3. \A n \in Nat : n \in Int
  OBVIOUS
<1> QED
  BY <1>1, <1>2, <1>3, Zenon

\* A new position ties up what it costs.
LEMMA TiedAdds ==
    ASSUME NEW ps \in SUBSET Fill, IsFiniteSet(ps), NEW p \in Fill, p \notin ps, NEW b
    PROVE  /\ Tied(ps \cup {p}, b) = Tied(ps, b) + (IF p.adapter = b THEN p.lot ELSE 0)
           /\ Tied(ps, b) \in Int
<1> DEFINE f == [x \in ps |-> IF x.adapter = b THEN x.lot ELSE 0]
           g == [x \in ps \cup {p} |-> IF x.adapter = b THEN x.lot ELSE 0]
<1>1. \A x \in ps \cup {p} : x.lot \in Int
  BY LotType
<1>2. /\ DOMAIN f = ps /\ DOMAIN g = ps \cup {p} /\ g[p] \in Int
      /\ \A x \in ps : f[x] \in Int /\ g[x] = f[x]
  BY <1>1
<1>3. g[p] = IF p.adapter = b THEN p.lot ELSE 0
  OBVIOUS
<1>4. Tied(ps, b) = SumFunction(f) /\ Tied(ps \cup {p}, b) = SumFunction(g)
  BY DEF Tied
<1> HIDE DEF f, g
<1>5. SumFunction(g) = SumFunction(f) + g[p] /\ SumFunction(f) \in Int
  BY <1>2, SumGrows
<1> QED
  BY <1>3, <1>4, <1>5

LEMMA TiedMaybe ==
    ASSUME NEW ps \in SUBSET Fill, IsFiniteSet(ps), NEW p \in Fill, NEW new \in SUBSET {p},
           new \cap ps = {}, NEW b
    PROVE  /\ Tied(ps \cup new, b) = Tied(ps, b) + (IF new # {} /\ p.adapter = b THEN p.lot ELSE 0)
           /\ Tied(ps, b) \in Int /\ IsFiniteSet(ps \cup new)
<1>1. Tied(ps, b) \in Int
  <2> DEFINE f == [x \in ps |-> IF x.adapter = b THEN x.lot ELSE 0]
  <2>1. \A x \in ps : f[x] \in Int
    BY LotType
  <2>2. DOMAIN f = ps /\ Tied(ps, b) = SumFunction(f)
    BY DEF Tied
  <2> HIDE DEF f
  <2> QED
    BY <2>1, <2>2, SumStays
<1>2. CASE new = {}
  <2>1. ps \cup new = ps
    BY <1>2
  <2> QED
    BY <1>1, <1>2, <2>1
<1>3. CASE new = {p}
  <2>1. p \notin ps
    BY <1>3
  <2>2. Tied(ps \cup {p}, b) = Tied(ps, b) + (IF p.adapter = b THEN p.lot ELSE 0)
    BY <2>1, TiedAdds
  <2> QED
    BY <1>1, <1>3, <2>2, FS_AddElement
<1> QED
  BY <1>2, <1>3

\* A settlement adds what it won or lost.
LEMMA WonAdds ==
    ASSUME NEW results, NEW ps \in SUBSET Fill, IsFiniteSet(ps), NEW p \in Fill, p \notin ps, NEW b
    PROVE  /\ WonIn(results, ps \cup {p}, b) = WonIn(results, ps, b)
                + (IF p.adapter = b
                     THEN (IF results[p.ticker] = p.side THEN 2 * p.lot ELSE 0) - p.lot ELSE 0)
           /\ WonIn(results, ps, b) \in Int
<1> DEFINE v(x) == IF x.adapter = b
                     THEN (IF results[x.ticker] = x.side THEN 2 * x.lot ELSE 0) - x.lot ELSE 0
           f == [x \in ps |-> v(x)]
           g == [x \in ps \cup {p} |-> v(x)]
<1>1. \A x \in ps \cup {p} : v(x) \in Int
  <2>1. \A x \in ps \cup {p} : x.lot \in Int
    BY LotType
  <2> QED
    BY <2>1
<1>2. WonIn(results, ps, b) = SumFunction(f) /\ WonIn(results, ps \cup {p}, b) = SumFunction(g)
  BY DEF WonIn
<1>3. g[p] = v(p) /\ v(p) = IF p.adapter = b
             THEN (IF results[p.ticker] = p.side THEN 2 * p.lot ELSE 0) - p.lot ELSE 0
  OBVIOUS
<1> HIDE DEF v
<1>4. /\ DOMAIN f = ps /\ DOMAIN g = ps \cup {p} /\ g[p] \in Int
      /\ \A x \in ps : f[x] \in Int /\ g[x] = f[x]
  BY <1>1
<1> HIDE DEF f, g
<1>5. SumFunction(g) = SumFunction(f) + g[p] /\ SumFunction(f) \in Int
  BY <1>4, SumGrows
<1> QED
  BY <1>2, <1>3, <1>5

\* Results that differ only where nothing is settled.
LEMMA WonStays ==
    ASSUME NEW r1, NEW r2, NEW ps \in SUBSET Fill, IsFiniteSet(ps), NEW b,
           \A p \in ps : r1[p.ticker] = r2[p.ticker]
    PROVE  WonIn(r1, ps, b) = WonIn(r2, ps, b) /\ WonIn(r1, ps, b) \in Int
<1> DEFINE v(r, x) == IF x.adapter = b
                     THEN (IF r[x.ticker] = x.side THEN 2 * x.lot ELSE 0) - x.lot ELSE 0
           f == [x \in ps |-> v(r1, x)]
           g == [x \in ps |-> v(r2, x)]
<1>1. \A x \in ps : v(r1, x) \in Int /\ v(r1, x) = v(r2, x)
  <2>1. \A x \in ps : x.lot \in Int
    BY LotType
  <2> QED
    BY <2>1
<1>2. WonIn(r1, ps, b) = SumFunction(f) /\ WonIn(r2, ps, b) = SumFunction(g)
  BY DEF WonIn
<1> HIDE DEF v
<1>3. DOMAIN f = ps /\ DOMAIN g = ps /\ \A x \in ps : f[x] \in Int /\ g[x] = f[x]
  BY <1>1
<1> HIDE DEF f, g
<1> QED
  BY <1>2, <1>3, SumStays

\* What CashMatchesBook says of one engine.
CashHere(e) ==
    \A b \in Books :
        HeldCash(e)[b] = Bankroll0 + WonIn(market, Settlements, b) - Tied(Held(e), b)

LEMMA CashIsHere ==
    /\ CashMatchesBook <=> \A e \in Engines : CashHere(e)
    /\ CashMatchesBook' <=> \A e \in Engines : CashHere(e)'
<1>1. CashMatchesBook <=> \A e \in Engines : CashHere(e)
  BY WonIsWonIn DEF CashMatchesBook, CashHere
<1>2. CashMatchesBook' <=> \A e \in Engines : CashHere(e)'
  BY WonIsWonIn DEF CashMatchesBook, CashHere
<1> QED
  BY <1>1, <1>2

\* The part of the invariant about one engine.
Sound(e) ==
    /\ NothingTwice(e) /\ SavesMemory(e) /\ IsFiniteSet(Held(e)) /\ IsFiniteSet(Settlements)
    /\ RowsOnce /\ CashHere(e)

LEMMA HeldType ==
    ASSUME TypeOK, NEW e \in Engines
    PROVE  /\ Held(e) \in SUBSET Fill /\ HeldCash(e) \in [Books -> Int]
           /\ Settlements \in SUBSET Fill /\ eng[e] \in Memory
  BY DEF TypeOK, State, Memory, Held, HeldCash, Settlements, Row

\* A step that leaves book, cash and log alone.
LEMMA SoundStays ==
    ASSUME NEW e \in Engines, Sound(e), Held(e)' = Held(e), HeldCash(e)' = HeldCash(e),
           UNCHANGED <<market, log>>, SavesMemory(e)'
    PROVE  Sound(e)'
<1>1. Settlements' = Settlements
  BY DEF Settlements
<1>2. CashHere(e)'
  BY <1>1 DEF Sound, CashHere
<1> QED
  BY <1>1, <1>2 DEF Sound, NothingTwice, RowsOnce

\* What is saved is what is in memory.
LEMMA SavedIsMemory ==
    ASSUME NEW e \in Engines, OncePerMarket(e), FilesBehind(e), NothingTwice(e), SavesMemory(e),
           eng[e].pc # "off"
    PROVE  /\ Saved(eng[e], SettledKeys) = [open |-> eng[e].open, cash |-> eng[e].cash]
           /\ eng[e].pc = "loaded" =>
                 Saved(eng[e], {}) = [open |-> eng[e].open, cash |-> eng[e].cash]
<1> DEFINE more == {p \in disk.open : Key(p) \notin Keys(eng[e].open)}
           kept == {p \in eng[e].open \cup more : Key(p) \notin SettledKeys}
<1>1. Held(e) = eng[e].open
  BY DEF Held
<1>2. ASSUME eng[e].pc = "loaded"
      PROVE  Saved(eng[e], {}) = [open |-> eng[e].open, cash |-> eng[e].cash]
  <2>1. disk.open = eng[e].open
    BY <1>2 DEF SavesMemory
  <2>2. more = {}
    BY <2>1 DEF Keys
  <2> QED
    BY <1>2, <2>2 DEF Saved
<1>3. Saved(eng[e], SettledKeys) = [open |-> eng[e].open, cash |-> eng[e].cash]
  <2>1. ASSUME NEW p \in eng[e].open PROVE Key(p) \notin SettledKeys
    <3> SUFFICES ASSUME Key(p) \in SettledKeys PROVE FALSE
      OBVIOUS
    <3>1. PICK r \in log : Key(p) = Key(r.fill)
      BY DEF SettledKeys
    <3>2. p.adapter = r.fill.adapter /\ p.ticker = r.fill.ticker
      BY <3>1 DEF Key
    <3>3. p \in Booked(e) /\ r.fill \in Booked(e) /\ r.fill \in Settlements
      BY <1>1 DEF Booked, Settlements
    <3> QED
      BY <1>1, <3>2, <3>3 DEF OncePerMarket, NothingTwice
  <2>2. ASSUME NEW p \in more PROVE Key(p) \in SettledKeys
    <3>1. p \in Settlements
      BY <1>1 DEF FilesBehind, Booked, Keys
    <3> QED
      BY <3>1 DEF Settlements, SettledKeys
  <2>3. kept = eng[e].open
    BY <2>1, <2>2
  <2> QED
    BY <2>3 DEF Saved
<1> QED
  BY <1>2, <1>3

\* A fill: the position is new, and the cash pays for it.
LEMMA FillSound ==
    ASSUME TypeOK, TypeOK', NEW e \in Engines, Sound(e), NEW p \in Fill, p \notin Booked(e),
           eng'[e].pc = "trade", UNCHANGED <<market, disk, log>>,
           Held(e)' = Held(e) \cup {p},
           HeldCash(e)' = [HeldCash(e) EXCEPT ![p.adapter] = @ - p.lot]
    PROVE  Sound(e)'
<1>1. /\ Held(e) \in SUBSET Fill /\ HeldCash(e) \in [Books -> Int]
      /\ Settlements \in SUBSET Fill /\ Settlements' = Settlements
  BY HeldType DEF Settlements
<1>2. p.adapter \in Books /\ p.lot \in Int /\ p \notin Held(e) /\ p \notin Settlements
  BY LotType DEF Fill, Booked
<1>3. ASSUME NEW b \in Books
      PROVE  HeldCash(e)'[b] = Bankroll0 + WonIn(market, Settlements, b) - Tied(Held(e) \cup {p}, b)
  <2> DEFINE w == WonIn(market, Settlements, b)
             t == Tied(Held(e), b)
             c == HeldCash(e)[b]
             u == IF p.adapter = b THEN p.lot ELSE 0
  <2>1. Tied(Held(e) \cup {p}, b) = t + u /\ t \in Int
    BY <1>1, <1>2, TiedAdds DEF Sound
  <2>2. w \in Int
    BY <1>1, WonStays DEF Sound
  <2>3. c = Bankroll0 + w - t
    BY DEF Sound, CashHere
  <2>4. HeldCash(e)'[b] = c - u
    BY <1>1, <1>2
  <2>5. u \in Int /\ Bankroll0 \in Int
    BY <1>2, CountAssumption
  <2>6. w = WonIn(market, Settlements, b)
    OBVIOUS
  <2> HIDE DEF w, t, c, u
  <2> QED
    BY <2>1, <2>2, <2>3, <2>4, <2>5, <2>6
<1>4. CashHere(e)'
  BY <1>1, <1>3 DEF CashHere
<1>5. NothingTwice(e)'
  BY <1>1, <1>2 DEF Sound, NothingTwice
<1>6. IsFiniteSet(Held(e))'
  BY FS_AddElement DEF Sound
<1> QED
  BY <1>1, <1>4, <1>5, <1>6 DEF Sound, SavesMemory, RowsOnce

\* A decision fills one position, or one in each of two books.
LEMMA TakeSound ==
    ASSUME TypeOK, TypeOK', SessionOK, NEW e \in Engines, Sound(e), SettledClosed,
           NEW t \in Tickers, NEW side \in Sides, Take(e, t, side)
    PROVE  Sound(e)'
<1>1. PICK lot \in Lots, n \in Lots :
           \E shadow \in SUBSET {Position(e, "shadow", t, side, lot)},
              live \in SUBSET {Position(e, "live", t, side, n)},
              answered \in SUBSET {Position(e, "live", t, side, n)} :
              Booking(e, t, lot, n, shadow, live, answered)
  BY TakeBook
<1> DEFINE sp == Position(e, "shadow", t, side, lot)
           lp == Position(e, "live", t, side, n)
<1>2. /\ sp.adapter = "shadow" /\ sp.ticker = t /\ sp.lot = lot
      /\ lp.adapter = "live" /\ lp.ticker = t /\ lp.lot = n
  BY DEF Position
<1>3. PICK shadow \in SUBSET {sp}, live \in SUBSET {lp}, answered \in SUBSET {lp} :
              Booking(e, t, lot, n, shadow, live, answered)
  BY <1>1
<1>4. eng[e].session # 0 /\ "shadow" \in Books /\ "live" \in Books
  BY <1>3 DEF Booking, SessionOK, Books
<1>5. sp \in Fill /\ lp \in Fill
  BY <1>4, PositionType
<1> HIDE DEF sp, lp
<1>6. /\ Held(e) = eng[e].open /\ Held(e)' = Held(e) \cup shadow \cup answered
      /\ HeldCash(e) = eng[e].cash /\ Settlements' = Settlements
      /\ HeldCash(e)' = [HeldCash(e) EXCEPT
                          !["shadow"] = IF shadow # {} THEN @ - lot ELSE @,
                          !["live"] = IF answered # {} THEN @ - n ELSE @]
  BY <1>3 DEF Booking, Held, HeldCash, Settlements
<1>7. /\ Held(e) \in SUBSET Fill /\ HeldCash(e) \in [Books -> Int] /\ Settlements \in SUBSET Fill
  BY HeldType
<1>8. ASSUME NEW p \in Booked(e), p.ticker = t
      PROVE  p.adapter # "shadow" /\ (live # {} => p.adapter # "live")
  <2>1. p \in eng[e].open
    BY <1>3, <1>6, <1>8 DEF Booked, SettledClosed, Booking
  <2> QED
    BY <1>3, <1>8, <2>1 DEF Holds, Booking
<1>9. shadow \cap Booked(e) = {} /\ answered \cap Booked(e) = {} /\ answered \cap shadow = {}
  <2>1. answered \subseteq live
    BY <1>3 DEF Booking
  <2> QED
    BY <1>2, <1>8, <2>1
<1>10. /\ lot \in Int /\ n \in Int
       /\ shadow \cap Held(e) = {} /\ IsFiniteSet(Held(e))
  BY <1>2, <1>5, <1>9, LotType DEF Booked, Sound
<1> DEFINE one == Held(e) \cup shadow
<1>11. one \in SUBSET Fill /\ IsFiniteSet(one) /\ IsFiniteSet(one \cup answered)
  <2>1. one \in SUBSET Fill
    BY <1>5, <1>7
  <2>2. IsFiniteSet(one)
    BY <1>5, <1>7, <1>10, TiedMaybe
  <2>3. answered \cap one = {}
    BY <1>9 DEF Booked
  <2> HIDE DEF one
  <2>4. IsFiniteSet(one \cup answered)
    BY <1>5, <2>1, <2>2, <2>3, TiedMaybe
  <2> QED
    BY <2>1, <2>2, <2>4
<1>12. ASSUME NEW b \in Books
       PROVE  HeldCash(e)'[b] = Bankroll0 + WonIn(market, Settlements, b) - Tied(one \cup answered, b)
  <2> DEFINE w == WonIn(market, Settlements, b)
             d == Tied(Held(e), b)
             c == HeldCash(e)[b]
             u == IF shadow # {} /\ b = "shadow" THEN lot ELSE 0
             v == IF answered # {} /\ b = "live" THEN n ELSE 0
  <2>1. Tied(one, b) = d + u /\ d \in Int
    <3> DEFINE h == Held(e)
    <3>1. /\ h \in SUBSET Fill /\ IsFiniteSet(h) /\ shadow \cap h = {}
          /\ one = h \cup shadow /\ d = Tied(h, b)
      BY <1>7, <1>10
    <3>2. u = IF shadow # {} /\ sp.adapter = b THEN sp.lot ELSE 0
      BY <1>2
    <3> HIDE DEF h, one, d, u
    <3>3. Tied(h \cup shadow, b) = Tied(h, b) + (IF shadow # {} /\ sp.adapter = b THEN sp.lot ELSE 0)
          /\ Tied(h, b) \in Int
      BY <1>5, <3>1, TiedMaybe, SMTT(60)
    <3> QED
      BY <3>1, <3>2, <3>3
  <2>2. Tied(one \cup answered, b) = Tied(one, b) + v
    <3>1. answered \cap one = {}
      BY <1>9 DEF Booked
    <3> HIDE DEF one
    <3> QED
      BY <1>2, <1>5, <1>11, <3>1, TiedMaybe
  <2>3. w \in Int
    BY <1>7, WonStays DEF Sound
  <2>4. c = Bankroll0 + w - d
    BY DEF Sound, CashHere
  <2>5. HeldCash(e)'[b] = c - u - v
    <3>1. c \in Int
      BY <1>7
    <3> QED
      BY <1>4, <1>6, <1>7, <1>10, <3>1
  <2>6. u \in Int /\ v \in Int /\ Bankroll0 \in Int
    BY <1>10, CountAssumption
  <2>7. w = WonIn(market, Settlements, b) /\ Tied(one \cup answered, b) = d + u + v
    BY <2>1, <2>2
  <2> HIDE DEF w, d, c, u, v, one
  <2> QED
    BY <2>1, <2>3, <2>4, <2>5, <2>6, <2>7
<1>13. CashHere(e)'
  <2>1. market' = market
    BY <1>3 DEF Booking
  <2> QED
    BY <1>6, <1>12, <2>1 DEF CashHere
<1>14. NothingTwice(e)'
  BY <1>6, <1>9 DEF Sound, NothingTwice, Booked
<1> QED
  BY <1>3, <1>6, <1>11, <1>13, <1>14 DEF Sound, SavesMemory, RowsOnce, Booking

LEMMA MakerSound ==
    ASSUME TypeOK, TypeOK', SessionOK, NEW e \in Engines, Sound(e), QuotesFree(e),
           NEW q \in eng[e].quotes, MakerFill(e, q)
    PROVE  Sound(e)'
<1> DEFINE p == Position(e, "maker", q.ticker, q.side, q.lot)
<1>1. /\ eng[e].pc = "trade" /\ eng[e] \in Memory /\ eng[e].session # 0 /\ "maker" \in Books
  BY DEF MakerFill, SessionOK, TypeOK, Books
<1>2. q.ticker \in Tickers /\ q.side \in Sides /\ q.lot \in Lots
  BY <1>1 DEF Memory, Quote
<1>3. p \in Fill
  BY <1>1, <1>2, PositionType
<1>4. p.adapter = "maker" /\ p.ticker = q.ticker /\ p.lot = q.lot
  BY DEF Position
<1>5. \/ Quiet(e)
      \/ /\ eng'[e].pc = "trade"
         /\ eng'[e].open = eng[e].open \cup {p}
         /\ eng'[e].cash = [eng[e].cash EXCEPT !["maker"] = @ - q.lot]
         /\ UNCHANGED <<market, disk, log>>
  BY MakerBook
<1> HIDE DEF p
<1>6. CASE Quiet(e)
  <2>1. Held(e)' = Held(e) /\ HeldCash(e)' = HeldCash(e) /\ SavesMemory(e)' /\ UNCHANGED <<market, log>>
    BY <1>6 DEF Quiet, Held, HeldCash, SavesMemory
  <2> QED
    BY <2>1, SoundStays
<1>7. CASE /\ eng'[e].pc = "trade"
           /\ eng'[e].open = eng[e].open \cup {p}
           /\ eng'[e].cash = [eng[e].cash EXCEPT !["maker"] = @ - q.lot]
           /\ UNCHANGED <<market, disk, log>>
  <2>1. /\ Held(e)' = Held(e) \cup {p}
        /\ HeldCash(e)' = [HeldCash(e) EXCEPT ![p.adapter] = @ - p.lot]
    BY <1>1, <1>4, <1>7 DEF Held, HeldCash
  <2>2. p \notin Booked(e)
    BY <1>4 DEF QuotesFree
  <2> QED
    BY <1>3, <1>7, <2>1, <2>2, FillSound
<1> QED
  BY <1>5, <1>6, <1>7

LEMMA SettleSound ==
    ASSUME TypeOK, TypeOK', NEW e \in Engines, Sound(e), NEW p \in eng[e].open, Settle(e, p)
    PROVE  Sound(e)'
<1>1. /\ Held(e) \in SUBSET Fill /\ HeldCash(e) \in [Books -> Int]
      /\ Settlements \in SUBSET Fill /\ eng[e] \in Memory
  BY HeldType
<1>2. /\ Held(e) = eng[e].open /\ Held(e)' = Held(e) \ {p} /\ Settlements' = Settlements \cup {p}
      /\ HeldCash(e)' = [HeldCash(e) EXCEPT ![p.adapter] = @ + Payout(p)]
      /\ UNCHANGED <<market, disk>> /\ eng'[e].pc = "settle"
      /\ log' = log \cup {[fill |-> p, by |-> eng[e].session]}
  BY SettleBook DEF Held, HeldCash
<1>3. p \in Fill /\ p \in Held(e) /\ p \notin Settlements
  BY <1>1, <1>2 DEF Sound, NothingTwice
<1>4. p.adapter \in Books /\ p.lot \in Int
  BY <1>3, LotType DEF Fill
<1> DEFINE rest == Held(e) \ {p}
           paid == IF market[p.ticker] = p.side THEN 2 * p.lot ELSE 0
<1>5. rest \in SUBSET Fill /\ IsFiniteSet(rest) /\ p \notin rest /\ rest \cup {p} = Held(e)
  BY <1>1, <1>3, FS_RemoveElement DEF Sound
<1>6. Payout(p) = paid /\ paid \in Int
  BY <1>4 DEF Payout, Wins
<1>7. ASSUME NEW b \in Books
      PROVE  HeldCash(e)'[b] = Bankroll0 + WonIn(market, Settlements \cup {p}, b) - Tied(rest, b)
  <2> DEFINE w == WonIn(market, Settlements, b)
             d == Tied(rest, b)
             c == HeldCash(e)[b]
  <2>1. Tied(Held(e), b) = d + (IF p.adapter = b THEN p.lot ELSE 0) /\ d \in Int
    <3> HIDE DEF rest
    <3> QED
      BY <1>3, <1>5, TiedAdds
  <2>2. /\ WonIn(market, Settlements \cup {p}, b) = w + (IF p.adapter = b THEN paid - p.lot ELSE 0)
        /\ w \in Int
    BY <1>1, <1>3, WonAdds DEF Sound
  <2>3. c = Bankroll0 + w - Tied(Held(e), b)
    BY DEF Sound, CashHere
  <2>4. HeldCash(e)'[b] = IF p.adapter = b THEN c + paid ELSE c
    BY <1>1, <1>2, <1>4, <1>6
  <2>5. Bankroll0 \in Int
    BY CountAssumption
  <2>8. d = Tied(rest, b)
    OBVIOUS
  <2> HIDE DEF w, d, c, paid, rest
  <2>6. CASE p.adapter = b
    BY <1>4, <1>6, <2>1, <2>2, <2>3, <2>4, <2>5, <2>6, <2>8
  <2>7. CASE p.adapter # b
    BY <2>1, <2>2, <2>3, <2>4, <2>5, <2>7, <2>8
  <2> QED
    BY <2>6, <2>7
<1>8. CashHere(e)'
  BY <1>2, <1>7 DEF CashHere
<1>9. NothingTwice(e)'
  BY <1>2 DEF Sound, NothingTwice
<1>10. IsFiniteSet(Held(e))' /\ IsFiniteSet(Settlements)'
  BY <1>2, <1>5, FS_AddElement DEF Sound
<1>11. RowsOnce'
  <2> DEFINE row == [fill |-> p, by |-> eng[e].session]
  <2>1. row.fill = p
    OBVIOUS
  <2> HIDE DEF row
  <2>2. log' = log \cup {row} /\ \A r \in log : r.fill # p
    BY <1>2, <1>3 DEF row, Settlements
  <2> QED
    BY <2>1, <2>2 DEF Sound, RowsOnce
<1>12. SavesMemory(e)'
  BY <1>2 DEF SavesMemory
<1> QED
  BY <1>8, <1>9, <1>10, <1>11, <1>12 DEF Sound

LEMMA SaveSound ==
    ASSUME TypeOK, NEW e \in Engines, Sound(e), OncePerMarket(e), FilesBehind(e),
           NEW pc \in {"saving", "lastsave"}, eng[e].pc # "off", StartSave(e, SettledKeys, pc)
    PROVE  Sound(e)'
<1>1. Saved(eng[e], SettledKeys) = [open |-> eng[e].open, cash |-> eng[e].cash]
  BY SavedIsMemory DEF Sound
<1>2. /\ Held(e)' = Held(e) /\ HeldCash(e)' = HeldCash(e)
      /\ eng'[e].pc = pc /\ eng'[e].open = eng[e].open /\ eng'[e].cash = eng[e].cash
      /\ eng'[e].image = Saved(eng[e], SettledKeys) /\ UNCHANGED <<market, log>>
  BY SaveBook
<1>3. SavesMemory(e)'
  BY <1>1, <1>2 DEF SavesMemory
<1> QED
  BY <1>2, <1>3, SoundStays

LEMMA InitSaveSound ==
    ASSUME TypeOK, NEW e \in Engines, Sound(e), OncePerMarket(e), FilesBehind(e), InitSave(e)
    PROVE  Sound(e)'
<1>1. Saved(eng[e], {}) = [open |-> eng[e].open, cash |-> eng[e].cash]
  BY SavedIsMemory DEF Sound, InitSave
<1>2. /\ Held(e)' = Held(e) /\ HeldCash(e)' = HeldCash(e)
      /\ eng'[e].pc = "saving" /\ eng'[e].open = eng[e].open /\ eng'[e].cash = eng[e].cash
      /\ eng'[e].image = Saved(eng[e], {}) /\ UNCHANGED <<market, log>>
  BY SaveBook DEF InitSave
<1>3. SavesMemory(e)'
  BY <1>1, <1>2 DEF SavesMemory
<1> QED
  BY <1>2, <1>3, SoundStays

LEMMA ReplaceSound ==
    ASSUME TypeOK, NEW e \in Engines, Sound(e), Replace(e)
    PROVE  Sound(e)'
<1>1. eng[e].image = [open |-> eng[e].open, cash |-> eng[e].cash] /\ eng[e].pc # "off"
  BY DEF Sound, SavesMemory, Replace
<1>2. disk'.open = eng[e].open /\ disk'.cash = eng[e].cash
  BY <1>1, ReplaceBook
<1>3. Held(e)' = Held(e) /\ HeldCash(e)' = HeldCash(e)
  BY <1>1, <1>2, ReplaceBook DEF Held, HeldCash
<1>4. SavesMemory(e)'
  BY ReplaceBook DEF SavesMemory
<1> QED
  BY <1>3, <1>4, ReplaceBook, SoundStays

LEMMA QuietSound ==
    ASSUME NEW e \in Engines, Sound(e), Quiet(e)
    PROVE  Sound(e)'
<1>1. Held(e)' = Held(e) /\ HeldCash(e)' = HeldCash(e) /\ SavesMemory(e)' /\ UNCHANGED <<market, log>>
  BY DEF Quiet, Held, HeldCash, SavesMemory
<1> QED
  BY <1>1, SoundStays

LEMMA LoadSound ==
    ASSUME TypeOK, NEW e \in Engines, Sound(e), Load(e)
    PROVE  Sound(e)'
<1>1. disk = [open |-> disk.open, cash |-> disk.cash]
  BY DEF TypeOK, State
<1>2. SavesMemory(e)'
  BY <1>1, LoadBook DEF SavesMemory
<1> QED
  BY <1>2, LoadBook, SoundStays

\* Every step.
LEMMA StepLedger ==
    ASSUME Sole, Driver = "run", TypeOK, TypeOK', SessionOK, BookInv, LedgerInv, [Next]_vars
    PROVE  LedgerInv'
<1>1. LedgerInv /\ \A e \in Engines : Sound(e)
  BY CashIsHere DEF LedgerInv, Sound
<1>2. ASSUME NEW e \in Engines, Sound(e)' PROVE LedgerInv'
  <2>1. Engines = {e}
    BY OneEngineOnly
  <2>2. CashMatchesBook'
    BY <1>2, <2>1, CashIsHere DEF Sound
  <2> QED
    BY <1>2, <2>1, <2>2 DEF LedgerInv, Sound
<1>3. ASSUME NEW e \in Engines, Load(e) PROVE Sound(e)'
  BY <1>1, <1>3, LoadSound
<1>4. ASSUME NEW e \in Engines, InitSave(e) \/ EndTick(e) \/ Finish(e) PROVE Sound(e)'
  <2>1. DriverKeys = SettledKeys
    BY DEF DriverKeys
  <2>2. ASSUME NEW pc \in {"saving", "lastsave"}, eng[e].pc # "off", StartSave(e, DriverKeys, pc)
        PROVE  Sound(e)'
    <3>1. StartSave(e, SettledKeys, pc) /\ eng[e].pc # "off"
      BY <2>1, <2>2
    <3>2. Sound(e) /\ OncePerMarket(e) /\ FilesBehind(e)
      BY <1>1 DEF BookInv
    <3> QED
      BY <3>1, <3>2, SaveSound
  <2>3. CASE InitSave(e)
    BY <1>1, <2>3, InitSaveSound DEF BookInv
  <2>4. CASE Finish(e)
    BY <2>1, <2>2, <2>4 DEF Finish
  <2>5. CASE eng[e].pc = "settle" /\ StartSave(e, DriverKeys, "saving")
    BY <2>1, <2>2, <2>5
  <2>6. CASE eng[e].pc = "settle" /\ eng' = [eng EXCEPT ![e].pc = "tick"]
             /\ UNCHANGED <<market, kill, disk, log, sessions, killed, filled>>
    BY <1>1, <2>6, StageQuiet, QuietSound
  <2> QED
    BY <1>4, <2>3, <2>4, <2>5, <2>6 DEF EndTick
<1>5. ASSUME NEW e \in Engines, Replace(e) PROVE Sound(e)'
  BY <1>1, <1>5, ReplaceSound
<1>6. ASSUME NEW e \in Engines, BeginTick(e) \/ EndTrade(e) PROVE Sound(e)'
  <2>1. BeginTick(e) => eng'[e].pc # "saving"
    BY DEF BeginTick, TypeOK, Memory
  <2> QED
    BY <1>1, <1>6, <2>1, StageQuiet, QuietSound
<1>7. ASSUME NEW e \in Engines, NEW t \in Tickers, NEW side \in Sides, Take(e, t, side)
      PROVE  Sound(e)'
  BY <1>1, <1>7, TakeSound DEF BookInv
<1>8. ASSUME NEW e \in Engines, NEW t \in Tickers, NEW side \in Sides, MakerRest(e, t, side)
      PROVE  Sound(e)'
  <2>1. PICK lot \in Lots :
          eng' = [eng EXCEPT ![e].quotes = @ \cup {[ticker |-> t, side |-> side, lot |-> lot]}]
    BY <1>8 DEF MakerRest
  <2>2. Quiet(e)
    BY <1>8, <2>1, QuoteQuiet DEF MakerRest
  <2> QED
    BY <1>1, <2>2, QuietSound
<1>9. ASSUME NEW e \in Engines, NEW q \in eng[e].quotes, MakerFill(e, q) PROVE Sound(e)'
  BY <1>1, <1>9, MakerSound DEF BookInv
<1>10. ASSUME NEW e \in Engines, NEW q \in eng[e].quotes, MakerCancel(e, q) PROVE Sound(e)'
  <2>1. Quiet(e)
    BY <1>10, QuoteQuiet DEF MakerCancel
  <2> QED
    BY <1>1, <2>1, QuietSound
<1>11. ASSUME NEW e \in Engines, NEW p \in eng[e].open, Settle(e, p) PROVE Sound(e)'
  BY <1>1, <1>11, SettleSound
<1>12. ASSUME NEW e \in Engines, UNCHANGED vars \/ TripKill \/ \E t \in Tickers : Resolve(t)
       PROVE  Sound(e)'
  <2>1. UNCHANGED <<disk, log, eng, filled>>
    BY <1>12 DEF TripKill, Resolve, vars
  <2>2. \A t \in Tickers : market[t] # "open" => market'[t] = market[t]
    BY <1>12 DEF TripKill, Resolve, vars, TypeOK
  <2>3. /\ Settlements' = Settlements /\ Settlements \in SUBSET Fill
        /\ Held(e)' = Held(e) /\ HeldCash(e)' = HeldCash(e)
    BY <2>1, HeldType DEF Settlements, Held, HeldCash
  <2>4. \A p \in Settlements : market[p.ticker] = market'[p.ticker]
    BY <2>2, <2>3 DEF BookInv, SettledClosed, Fill
  <2>5. ASSUME NEW b \in Books
        PROVE  WonIn(market', Settlements, b) = WonIn(market, Settlements, b)
    <3>1. IsFiniteSet(Settlements)
      BY DEF LedgerInv
    <3> QED
      BY <2>3, <2>4, <3>1, WonStays
  <2>6. CashHere(e)'
    BY <1>1, <2>3, <2>5 DEF CashHere, Sound
  <2> QED
    BY <1>1, <2>1, <2>3, <2>6 DEF Sound, NothingTwice, RowsOnce, SavesMemory
<1>13. CASE \E e \in Engines : Load(e) \/ InitSave(e) \/ Replace(e) \/ Tick(e) \/ Finish(e) \/ Crash(e)
  <2>1. PICK e \in Engines : Load(e) \/ InitSave(e) \/ Replace(e) \/ Tick(e) \/ Finish(e)
    BY <1>13, NoKill
  <2>2. Sound(e)'
    BY <1>3, <1>4, <1>5, <1>6, <1>7, <1>8, <1>9, <1>10, <1>11, <2>1 DEF Tick
  <2> QED
    BY <1>2, <2>2
<1>14. Engines # {}
  BY DEF Sole
<1> QED
  BY <1>2, <1>12, <1>13, <1>14 DEF Next

LEMMA InitBook == Init => BookInv /\ FilledBooked /\ LedgerInv
<1> SUFFICES ASSUME Init PROVE BookInv /\ FilledBooked /\ LedgerInv
  OBVIOUS
<1>1. /\ Settlements = {} /\ log = {} /\ filled = {} /\ disk.open = {}
      /\ disk.cash = [b \in Books |-> Bankroll0]
  BY DEF Init, Settlements
<1>2. \A e \in Engines : eng[e].pc = "off" /\ eng[e].quotes = {}
  BY DEF Init, Off
<1>3. \A e \in Engines : Held(e) = {} /\ HeldCash(e) = [b \in Books |-> Bankroll0]
  BY <1>1, <1>2 DEF Held, HeldCash
<1>4. BookInv /\ FilledBooked
  BY <1>1, <1>2, <1>3 DEF BookInv, SettledClosed, OncePerMarket, QuotesFree, FilesBehind, FilledBooked,
     Booked
<1>5. \A b \in Books : Won({}, b) = 0 /\ Tied({}, b) = 0
  <2> TAKE b \in Books
  <2>1. DOMAIN [p \in {} |-> IF p.adapter = b THEN Pnl(p) ELSE 0] = {}
        /\ DOMAIN [p \in {} |-> IF p.adapter = b THEN p.lot ELSE 0] = {}
    OBVIOUS
  <2> QED
    BY <2>1, SumEmpty DEF Won, Tied, SumFunction
<1>6. CashMatchesBook
  <2>1. ASSUME NEW e \in Engines, NEW b \in Books
        PROVE  HeldCash(e)[b] = Bankroll0 + Won(Settlements, b) - Tied(Held(e), b)
    <3>1. Bankroll0 \in Int /\ HeldCash(e)[b] = Bankroll0
      BY <1>3, CountAssumption
    <3>2. Won(Settlements, b) = 0 /\ Tied(Held(e), b) = 0
      BY <1>1, <1>3, <1>5
    <3> QED
      BY <3>1, <3>2
  <2> QED
    BY <2>1 DEF CashMatchesBook
<1>7. LedgerInv
  BY <1>1, <1>2, <1>3, <1>6, FS_EmptySet DEF LedgerInv, NothingTwice, SavesMemory, RowsOnce
<1> QED
  BY <1>4, <1>7

\* The invariant of the book holds of one engine that is never killed.
LEMMA BookInvariant == ASSUME Sole PROVE Spec => []BookInv
<1>1. TypeOK /\ BookInv /\ [Next]_vars => BookInv'
  BY StepBook
<1> QED
  BY <1>1, InitBook, TypeCorrect, PTL DEF Spec

\* One engine that is never killed, whichever loop drives it, if every order is
\* answered: the exchange fills one live order per market at most, also when the
\* session that placed it is over and another one trades the same window.
THEOREM OneLiveOrderPerMarket ==
    ASSUME Sole, ~OrderErrors
    PROVE  Spec => []LiveOncePerMarket
<1>1. TypeOK /\ BookInv /\ FilledBooked /\ [Next]_vars => FilledBooked'
  BY StepBook
<1>2. BookInv /\ FilledBooked => LiveOncePerMarket
  BY DEF Sole, BookInv, FilledBooked, OncePerMarket, LiveOncePerMarket
<1> QED
  BY <1>1, <1>2, InitBook, BookInvariant, TypeCorrect, PTL DEF Spec

\* One engine that is never killed, driven by run: cash, log and positions agree.
LEMMA LedgerInvariant == ASSUME Sole, Driver = "run" PROVE Spec => []LedgerInv
<1>1. TypeOK /\ TypeOK' /\ SessionOK /\ BookInv /\ LedgerInv /\ [Next]_vars => LedgerInv'
  BY StepLedger
<1>2. Init => TypeOK /\ SessionOK
  BY InitType
<1>3. TypeOK /\ SessionOK /\ [Next]_vars => TypeOK' /\ SessionOK'
  BY StepType
<1> QED
  BY <1>1, <1>2, <1>3, InitBook, BookInvariant, PTL DEF Spec

\* ... so every settlement is in the trade log once, which the daily loss stop
\* relies on, however often the state file is written, replaced and loaded,
\* whether or not orders are answered, and whatever _pos_key tells apart.
THEOREM SettledOnce == ASSUME Sole, Driver = "run" PROVE Spec => []RowsOnce
<1>1. LedgerInv => RowsOnce
  BY DEF LedgerInv
<1> QED
  BY <1>1, LedgerInvariant, PTL

\* ... and the cash that sizes the next order is the bankroll, what the log says
\* was won and lost, less what the open positions cost, in memory and on disk.
THEOREM CashIsAccounted == ASSUME Sole, Driver = "run" PROVE Spec => []CashMatchesBook
<1>1. LedgerInv => CashMatchesBook
  BY DEF LedgerInv
<1> QED
  BY <1>1, LedgerInvariant, PTL
=============================================================================
