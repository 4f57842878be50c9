---------------------------- MODULE CommandProofs ----------------------------
(***************************************************************************)
(* Proofs about the commands a person or a timer starts and that may be    *)
(* cut off at any step: the research protocol of the perps desk, what      *)
(* belongs to the owner of a clone, the incentive quoter and its paper     *)
(* log and the perps watch; and about the programs that test a strategy:   *)
(* the perps backtester, the Kalshi strategies, replay and strike ladders, *)
(* the crypto strategies and the walk-forward scores.                      *)
(* Each is proved with an inductive invariant of its module.               *)
(***************************************************************************)
EXTENDS Integers, FiniteSets, Sequences, FiniteSetTheorems, SumTheorems, TLAPS

-----------------------------------------------------------------------------
(* The research protocol.                                                  *)

CONSTANTS Strategies, Points, Declared, MaxCommands
VARIABLES registry, marker, contest, judge, verdicts, opened, commands

Protocol == INSTANCE TrialProtocol

LEMMA SameSets ==
    ASSUME NEW S
    PROVE  (Protocol!IsFiniteSet(S) <=> IsFiniteSet(S)) /\ Protocol!Cardinality(S) = Cardinality(S)
<1>1. Protocol!IsFiniteSet(S) <=> IsFiniteSet(S)
    BY Zenon DEF Protocol!IsFiniteSet, IsFiniteSet
<1>2. Protocol!Cardinality(S) = Cardinality(S)
    BY Zenon DEF Protocol!Cardinality, Cardinality
<1> QED BY <1>1, <1>2

LEMMA ConfigsFinite ==
    ASSUME Protocol!ProtocolAssumption, NEW S \in SUBSET Protocol!Configs
    PROVE  IsFiniteSet(S) /\ Cardinality(S) \in Nat
<1>1. IsFiniteSet(Protocol!Configs)
    BY SameSets, FS_Product DEF Protocol!ProtocolAssumption, Protocol!Configs
<1> QED
    BY <1>1, FS_Subset, FS_CardinalityType

\* The greater of two numbers.
LEMMA MaxOfTwo ==
    ASSUME NEW a \in Nat, NEW b \in Nat
    PROVE  Protocol!Max({a, b}) \in Nat /\ Protocol!Max({a, b}) >= a /\ Protocol!Max({a, b}) >= b
<1> DEFINE P(x) == x \in {a, b} /\ \A y \in {a, b} : x >= y
<1>1. \E x : P(x)
    <2>1. CASE a >= b
        BY <2>1
    <2>2. CASE ~(a >= b)
        BY <2>2
    <2> QED BY <2>1, <2>2
<1>2. Protocol!Max({a, b}) = CHOOSE x : P(x)
    BY Zenon DEF Protocol!Max
<1> HIDE DEF P
<1>3. P(Protocol!Max({a, b}))
    BY <1>1, <1>2, Zenon
<1> QED
    BY <1>3 DEF P

LEMMA ProtocolInitial ==
    ASSUME Protocol!Init
    PROVE  Protocol!TypeOK /\ Protocol!ProtocolInv
<1> USE DEF Protocol!Init, Protocol!Idle
<1>1. Protocol!TypeOK
    BY DEF Protocol!TypeOK
<1>2. Protocol!ProtocolInv
    BY DEF Protocol!ProtocolInv, Protocol!ProtocolKept, Protocol!NCountsEverything,
           Protocol!OpeningsLeaveMarker
<1> QED
    BY <1>1, <1>2

\* The tournament's count is of everything tried before it and everything it
\* will try.
LEMMA CountCovers ==
    ASSUME Protocol!ProtocolAssumption, Protocol!TypeOK, NEW D \in SUBSET Protocol!Configs
    PROVE  /\ Protocol!Uniques(registry, "dev") \in SUBSET Protocol!Configs
           /\ Protocol!NTrials(D) \in Nat
           /\ Protocol!Cardinality(Protocol!Uniques(registry, "dev") \cup D) <= Protocol!NTrials(D)
<1> DEFINE U == Protocol!Uniques(registry, "dev")
<1>1. U \in SUBSET Protocol!Configs
    BY DEF Protocol!Uniques, Protocol!TypeOK
<1> HIDE DEF U
<1>2. /\ IsFiniteSet(U) /\ IsFiniteSet(D) /\ IsFiniteSet(U \cap D)
      /\ Cardinality(U) \in Nat /\ Cardinality(D) \in Nat /\ Cardinality(U \cap D) \in Nat
      /\ Cardinality(U \cup D) = Cardinality(U) + Cardinality(D) - Cardinality(U \cap D)
    BY <1>1, ConfigsFinite, FS_Union
<1>3. Protocol!NTrials(D) = Protocol!Max({Cardinality(D), Cardinality(U) + Cardinality(D)})
    <2>1. Protocol!Cardinality(D) = Cardinality(D) /\ Protocol!Cardinality(U) = Cardinality(U)
        BY SameSets
    <2>2. Protocol!NTrials(D) = Protocol!Max({Protocol!Cardinality(D),
                                              Protocol!Cardinality(U) + Protocol!Cardinality(D)})
        BY Zenon DEF Protocol!NTrials, U
    <2> QED BY <2>1, <2>2, Zenon
<1>4. Protocol!NTrials(D) \in Nat /\ Protocol!NTrials(D) >= Cardinality(U) + Cardinality(D)
    BY <1>2, <1>3, MaxOfTwo
<1>5. Cardinality(U \cup D) <= Protocol!NTrials(D)
    BY <1>2, <1>4
<1> QED
    BY <1>1, <1>4, <1>5, SameSets DEF U

LEMMA ProtocolTypes ==
    ASSUME Protocol!ProtocolAssumption, Protocol!TypeOK, [Protocol!Next]_(Protocol!vars)
    PROVE  Protocol!TypeOK'
<1> USE DEF Protocol!TypeOK
<1> DEFINE Rows == [cfg : Protocol!Configs, split : Protocol!Splits]
<1>0. /\ \A c \in Protocol!Configs, split \in Protocol!Splits : Protocol!Row(c, split) \in Rows
      /\ "dev" \in Protocol!Splits
      /\ \A c \in Protocol!Configs : c[1] \in Strategies
    BY DEF Protocol!Row, Protocol!Configs, Protocol!Splits
<1>1. ASSUME NEW c \in Protocol!Configs, NEW split \in Protocol!Splits, NEW isJudge \in BOOLEAN,
             Protocol!Backtest(c, split, isJudge)
      PROVE  Protocol!TypeOK'
    BY <1>0, <1>1 DEF Protocol!Backtest, Protocol!Start
<1>2. ASSUME NEW s \in Strategies, NEW picks \in SUBSET Points, Protocol!WalkForward(s, picks)
      PROVE  Protocol!TypeOK'
    <2>1. \A p \in picks : <<s, p>> \in Protocol!Configs
        BY DEF Protocol!Configs
    <2>2. {Protocol!Row(<<s, p>>, "dev") : p \in picks} \subseteq Rows
        BY <1>0, <2>1
    <2>3. registry' = registry \cup {Protocol!Row(<<s, p>>, "dev") : p \in picks}
        BY <1>2, Zenon DEF Protocol!WalkForward
    <2>4. commands' \in Nat
        BY <1>2 DEF Protocol!WalkForward, Protocol!Start
    <2>5. registry' \in SUBSET Rows
        BY <2>2, <2>3
    <2> QED BY <1>2, <2>4, <2>5 DEF Protocol!WalkForward
<1>3. CASE Protocol!Robust
    BY <1>3 DEF Protocol!Robust, Protocol!Start
<1>4. ASSUME NEW families \in SUBSET Strategies, Protocol!Enter(families)
      PROVE  Protocol!TypeOK'
    <2> DEFINE D == {c \in Declared : c[1] \in families}
    <2>1. D \in SUBSET Protocol!Configs
        BY DEF Protocol!ProtocolAssumption
    <2>2. contest' = [at |-> "runs", n |-> Protocol!NTrials(D), left |-> D,
                      tried |-> Protocol!Uniques(registry, "dev") \cup D]
        BY <1>4 DEF Protocol!Enter
    <2>3. commands' \in Nat /\ UNCHANGED <<registry, marker, judge, verdicts, opened>>
        BY <1>4 DEF Protocol!Enter, Protocol!Start
    <2> HIDE DEF D
    <2>4. Protocol!NTrials(D) \in Nat /\ Protocol!Uniques(registry, "dev") \in SUBSET Protocol!Configs
        BY <2>1, CountCovers
    <2> QED BY <2>1, <2>2, <2>3, <2>4
<1>5. CASE Protocol!Score
    BY <1>0, <1>5 DEF Protocol!Score, Protocol!Idle
<1>6. CASE Protocol!Publish
    <2>1. contest.n \in Nat /\ Protocol!Cardinality(contest.tried) \in Nat
        BY <1>6, ConfigsFinite, SameSets DEF Protocol!Publish, Protocol!Idle
    <2> QED BY <1>6, <2>1 DEF Protocol!Publish
<1>7. CASE Protocol!Abort
    BY <1>7 DEF Protocol!Abort
<1>8. ASSUME NEW c \in Protocol!Configs, NEW force \in BOOLEAN, Protocol!OpenHoldout(c, force)
      PROVE  Protocol!TypeOK'
    BY <1>8 DEF Protocol!OpenHoldout, Protocol!Start
<1>9. CASE Protocol!Mark
    BY <1>0, <1>9 DEF Protocol!Mark, Protocol!Idle
<1>10. CASE Protocol!Reveal
    BY <1>10 DEF Protocol!Reveal, Protocol!Idle
<1>11. CASE Protocol!JudgeDies
    BY <1>11 DEF Protocol!JudgeDies
<1>12. CASE UNCHANGED Protocol!vars
    BY <1>12 DEF Protocol!vars
<1> QED
    BY <1>1, <1>2, <1>3, <1>4, <1>5, <1>6, <1>7, <1>8, <1>9, <1>10, <1>11, <1>12 DEF Protocol!Next

LEMMA ProtocolStep ==
    ASSUME Protocol!ProtocolAssumption, Protocol!TypeOK, Protocol!ProtocolInv,
           [Protocol!Next]_(Protocol!vars)
    PROVE  Protocol!ProtocolInv'
<1> USE DEF Protocol!ProtocolInv, Protocol!ProtocolKept, Protocol!NCountsEverything,
            Protocol!OpeningsLeaveMarker
<1>0. /\ \A c \in Protocol!Configs : c[1] \in Strategies
      /\ marker \in [Strategies -> Nat]
      /\ contest \in {Protocol!Idle} \cup [at : {"runs"}, n : Nat, left : SUBSET Protocol!Configs,
                                           tried : SUBSET Protocol!Configs]
      /\ judge \in {Protocol!Idle} \cup [at : {"scored", "marked"}, cfg : Protocol!Configs]
      /\ opened \in SUBSET [cfg : Protocol!Configs, by : {"judge", "anyone", "holdout"}]
    BY DEF Protocol!Configs, Protocol!TypeOK
<1>1. ASSUME NEW c \in Protocol!Configs, NEW split \in Protocol!Splits, NEW isJudge \in BOOLEAN,
             Protocol!Backtest(c, split, isJudge)
      PROVE  Protocol!ProtocolInv'
    <2>1. UNCHANGED <<marker, contest, judge, verdicts>>
        BY <1>1 DEF Protocol!Backtest
    <2>2. \A o \in opened' : o \in opened \/ o.by # "holdout"
        BY <1>1 DEF Protocol!Backtest
    <2> QED BY <2>1, <2>2
<1>2. CASE \/ \E s \in Strategies, picks \in SUBSET Points : Protocol!WalkForward(s, picks)
           \/ Protocol!Robust \/ Protocol!Abort \/ Protocol!JudgeDies \/ Protocol!Score
           \/ UNCHANGED Protocol!vars
    BY <1>0, <1>2 DEF Protocol!WalkForward, Protocol!Robust, Protocol!Abort, Protocol!JudgeDies,
                      Protocol!Score, Protocol!vars, Protocol!Idle
<1>3. ASSUME NEW families \in SUBSET Strategies, Protocol!Enter(families)
      PROVE  Protocol!ProtocolInv'
    <2> DEFINE D == {c \in Declared : c[1] \in families}
    <2>1. D \in SUBSET Protocol!Configs
        BY DEF Protocol!ProtocolAssumption
    <2>2. contest' = [at |-> "runs", n |-> Protocol!NTrials(D), left |-> D,
                      tried |-> Protocol!Uniques(registry, "dev") \cup D]
        BY <1>3 DEF Protocol!Enter
    <2>3. UNCHANGED <<registry, marker, judge, verdicts, opened>>
        BY <1>3 DEF Protocol!Enter
    <2> HIDE DEF D
    <2>4. Protocol!Cardinality(contest'.tried) <= contest'.n
        <3>1. contest'.tried = Protocol!Uniques(registry, "dev") \cup D /\ contest'.n = Protocol!NTrials(D)
            BY <2>2
        <3>2. Protocol!Cardinality(Protocol!Uniques(registry, "dev") \cup D) <= Protocol!NTrials(D)
            BY <2>1, CountCovers
        <3> QED BY <3>1, <3>2, Zenon
    <2> QED BY <2>3, <2>4
<1>4. CASE Protocol!Publish
    BY <1>0, <1>4 DEF Protocol!Publish, Protocol!Idle
<1>5. ASSUME NEW c \in Protocol!Configs, NEW force \in BOOLEAN, Protocol!OpenHoldout(c, force)
      PROVE  Protocol!ProtocolInv'
    BY <1>5 DEF Protocol!OpenHoldout
<1>6. CASE Protocol!Mark
    <2>1. \A s \in Strategies : marker'[s] >= marker[s] /\ marker'[s] \in Nat
        BY <1>0, <1>6 DEF Protocol!Mark, Protocol!Idle
    <2>2. judge.cfg \in Protocol!Configs /\ marker'[judge.cfg[1]] > 0 /\ judge'.cfg = judge.cfg
        BY <1>0, <1>6 DEF Protocol!Mark, Protocol!Idle
    <2>3. UNCHANGED <<contest, verdicts, opened>>
        BY <1>6 DEF Protocol!Mark
    <2> QED BY <1>0, <2>1, <2>2, <2>3
<1>7. CASE Protocol!Reveal
    BY <1>0, <1>7 DEF Protocol!Reveal, Protocol!Idle
<1> QED
    BY <1>1, <1>2, <1>3, <1>4, <1>5, <1>6, <1>7 DEF Protocol!Next

\* N for the deflated Sharpe counts everything ever tried on the dev window, and
\* the judge's command shows no holdout number that left no marker, however many
\* commands run side by side and wherever each is killed.
THEOREM ProtocolIsKept ==
    ASSUME Protocol!ProtocolAssumption
    PROVE  Protocol!Spec => []Protocol!ProtocolKept
<1>1. Protocol!Init => Protocol!TypeOK /\ Protocol!ProtocolInv
    BY ProtocolInitial
<1>2. Protocol!TypeOK /\ Protocol!ProtocolInv /\ [Protocol!Next]_(Protocol!vars)
          => Protocol!TypeOK' /\ Protocol!ProtocolInv'
    BY ProtocolTypes, ProtocolStep
<1>3. Protocol!ProtocolInv => Protocol!ProtocolKept
    BY DEF Protocol!ProtocolInv
<1> QED
    BY <1>1, <1>2, <1>3, PTL DEF Protocol!Spec

-----------------------------------------------------------------------------
(* What belongs to the owner of a clone.                                   *)

CONSTANTS MaxRelease, Profiles, Shipped, Migrating, Tuned, Bankrolls, MaxDies
VARIABLES upstream, clone, config, book, command, dies

Owner == INSTANCE OwnerConfig

\* What is left to do after the first step.
LEMMA Remaining ==
    ASSUME NEW steps, NEW todo \in Owner!Todo(steps)
    PROVE  /\ Len(todo) \in Nat /\ Len(todo) >= 1 /\ Head(todo) = todo[1]
           /\ \A i \in 1 .. Len(todo) : todo[i] \in steps
           /\ Len(todo) # 1 =>
                 /\ Tail(todo) \in Owner!Todo(steps) /\ Len(Tail(todo)) = Len(todo) - 1
                 /\ \A i \in 1 .. Len(todo) - 1 : Tail(todo)[i] = todo[i + 1]
<1>1. todo \in Seq(steps) /\ todo # <<>>
    BY DEF Owner!Todo
<1>2. Len(todo) \in Nat /\ Len(todo) >= 1 /\ Head(todo) = todo[1] /\ \A i \in 1 .. Len(todo) : todo[i] \in steps
    BY <1>1
<1>3. Tail(todo) \in Seq(steps) /\ Len(Tail(todo)) = Len(todo) - 1
      /\ \A i \in 1 .. Len(todo) - 1 : Tail(todo)[i] = todo[i + 1]
    BY <1>1, <1>2
<1>4. Len(todo) # 1 => Tail(todo) # <<>>
    <2>1. Len(<<>>) = 0
        OBVIOUS
    <2>2. Tail(todo) = <<>> => Len(Tail(todo)) = 0
        BY <2>1, Zenon
    <2> QED BY <1>2, <1>3, <2>2
<1> QED
    BY <1>2, <1>3, <1>4 DEF Owner!Todo

\* A block that a release ships is one of the settings.
LEMMA ShippedBlocks ==
    ASSUME Owner!ReleaseAssumption, NEW r \in Owner!Releases, NEW name \in Profiles
    PROVE  Shipped[r][name] \in Owner!Settings
<1>1. Shipped[r][name] \in Owner!Range(Shipped[r])
    BY DEF Owner!ReleaseAssumption, Owner!Range
<1> QED
    BY <1>1 DEF Owner!Settings

\* Either command, and what Done makes of it.
SetupSteps == {"remove", "disarm", "apply", "bankroll"}
UpgradeSteps == {"script", "version", "profiles", "config", "book", "stamp"}
Setups == [name : {"setup"}, profile : Profiles, bankroll : Owner!Money, todo : Owner!Todo(SetupSteps)]
Upgrades == [name : {"upgrade"}, target : Owner!Releases, steps : SUBSET Migrating,
             from : Owner!Releases, todo : Owner!Todo(UpgradeSteps)]

LEMMA StepOf ==
    ASSUME Owner!TypeOK, NEW step, Owner!Then(step)
    PROVE  /\ command \in Setups \cup Upgrades
           /\ command \in Setups => step \in SetupSteps
           /\ command \in Upgrades => step \in UpgradeSteps
           /\ command.todo[1] = step /\ Len(command.todo) \in Nat /\ Len(command.todo) >= 1
           /\ Owner!Done(command) \in {Owner!Idle} \cup Setups \cup Upgrades
           /\ IF Len(command.todo) = 1 THEN Owner!Done(command) = Owner!Idle
              ELSE Owner!Done(command) = [command EXCEPT !.todo = Tail(@)]
<1>1. command \in {Owner!Idle} \cup Setups \cup Upgrades /\ command # Owner!Idle /\ Head(command.todo) = step
    BY DEF Owner!TypeOK, Owner!Then, Setups, Upgrades, SetupSteps, UpgradeSteps
<1>2. CASE command \in Setups
    <2>1. command.todo \in Owner!Todo(SetupSteps) /\ command.name = "setup"
        BY <1>2 DEF Setups
    <2>2. command \notin Upgrades
        BY <2>1 DEF Upgrades
    <2>3. /\ Len(command.todo) \in Nat /\ Len(command.todo) >= 1 /\ Head(command.todo) = command.todo[1]
          /\ command.todo[1] \in SetupSteps
          /\ Len(command.todo) # 1 => Tail(command.todo) \in Owner!Todo(SetupSteps)
        <3> DEFINE todo == command.todo
        <3>1. todo \in Owner!Todo(SetupSteps)
            BY <2>1
        <3> HIDE DEF todo
        <3>2. Len(todo) \in Nat /\ Len(todo) >= 1 /\ Head(todo) = todo[1]
              /\ (\A i \in 1 .. Len(todo) : todo[i] \in SetupSteps)
              /\ (Len(todo) # 1 => Tail(todo) \in Owner!Todo(SetupSteps))
            BY <3>1, Remaining
        <3> QED BY <3>2 DEF todo
    <2>4. Len(command.todo) # 1 => [command EXCEPT !.todo = Tail(command.todo)] \in Setups
        BY <1>2, <2>3 DEF Setups
    <2>5. IF Len(command.todo) = 1 THEN Owner!Done(command) = Owner!Idle
          ELSE Owner!Done(command) = [command EXCEPT !.todo = Tail(@)]
        BY Zenon DEF Owner!Done
    <2> QED BY <1>1, <1>2, <2>2, <2>3, <2>4, <2>5
<1>3. CASE command \in Upgrades
    <2>1. command.todo \in Owner!Todo(UpgradeSteps) /\ command.name = "upgrade"
        BY <1>3 DEF Upgrades
    <2>2. command \notin Setups
        BY <2>1 DEF Setups
    <2>3. /\ Len(command.todo) \in Nat /\ Len(command.todo) >= 1 /\ Head(command.todo) = command.todo[1]
          /\ command.todo[1] \in UpgradeSteps
          /\ Len(command.todo) # 1 => Tail(command.todo) \in Owner!Todo(UpgradeSteps)
        <3> DEFINE todo == command.todo
        <3>1. todo \in Owner!Todo(UpgradeSteps)
            BY <2>1
        <3> HIDE DEF todo
        <3>2. Len(todo) \in Nat /\ Len(todo) >= 1 /\ Head(todo) = todo[1]
              /\ (\A i \in 1 .. Len(todo) : todo[i] \in UpgradeSteps)
              /\ (Len(todo) # 1 => Tail(todo) \in Owner!Todo(UpgradeSteps))
            BY <3>1, Remaining
        <3> QED BY <3>2 DEF todo
    <2>4. Len(command.todo) # 1 => [command EXCEPT !.todo = Tail(command.todo)] \in Upgrades
        BY <1>3, <2>3 DEF Upgrades
    <2>5. IF Len(command.todo) = 1 THEN Owner!Done(command) = Owner!Idle
          ELSE Owner!Done(command) = [command EXCEPT !.todo = Tail(@)]
        BY Zenon DEF Owner!Done
    <2> QED BY <1>1, <1>3, <2>2, <2>3, <2>4, <2>5
<1> QED
    BY <1>1, <1>2, <1>3

\* The config, field by field, and with a block in place of its own.
Configs == [enabled : BOOLEAN, label : Profiles \cup {Owner!None, Owner!Custom},
            strategy : {s.strategy : s \in Owner!Settings}, params : {s.params : s \in Owner!Settings},
            bankroll : Owner!Money]
Books == [exists : BOOLEAN, positions : BOOLEAN, basis : Owner!Money, pending : BOOLEAN]
Clones == [script : Owner!Releases, profiles : Owner!Releases, version : Owner!Releases,
           missed : SUBSET Owner!Releases]

LEMMA TypeParts ==
    /\ Owner!TypeOK <=> /\ upstream \in Owner!Releases /\ clone \in Clones /\ config \in Configs
                        /\ book \in Books /\ command \in {Owner!Idle} \cup Setups \cup Upgrades
    /\ Owner!TypeOK' <=> /\ upstream' \in Owner!Releases /\ clone' \in Clones /\ config' \in Configs
                         /\ book' \in Books /\ command' \in {Owner!Idle} \cup Setups \cup Upgrades
BY DEF Owner!TypeOK, Clones, Configs, Books, Setups, Upgrades, SetupSteps, UpgradeSteps

LEMMA BlockLaid ==
    ASSUME Owner!ReleaseAssumption, NEW r \in Owner!Releases, NEW name \in Profiles, NEW c \in Configs
    PROVE  LET d == Owner!Replaced(c, name, Shipped[r][name]) IN
           /\ d \in Configs /\ d.label = name /\ d.enabled = c.enabled
           /\ d.strategy = Shipped[r][name].strategy /\ d.params = Shipped[r][name].params
<1> DEFINE b == Shipped[r][name]
           d == [c EXCEPT !.label = name, !.strategy = b.strategy, !.params = b.params, !.bankroll = b.bankroll]
<1>1. b \in Owner!Settings
    BY ShippedBlocks
<1>2. Owner!Replaced(c, name, b) = d
    BY Zenon DEF Owner!Replaced
<1> HIDE DEF b
<1>3. /\ b.strategy \in {s.strategy : s \in Owner!Settings} /\ b.params \in {s.params : s \in Owner!Settings}
      /\ b.bankroll \in Owner!Money
    BY <1>1 DEF Owner!Money
<1> DEFINE c1 == [c EXCEPT !.label = name]
           c2 == [c1 EXCEPT !.strategy = b.strategy]
           c3 == [c2 EXCEPT !.params = b.params]
<1>4. c1 \in Configs
    BY DEF Configs
<1>5. c2 \in Configs
    <2> HIDE DEF c1
    <2> QED BY <1>3, <1>4 DEF Configs
<1>6. c3 \in Configs
    <2> HIDE DEF c2
    <2> QED BY <1>3, <1>5 DEF Configs
<1>7. [c3 EXCEPT !.bankroll = b.bankroll] \in Configs
    <2> HIDE DEF c3
    <2> QED BY <1>3, <1>6 DEF Configs
<1>8. d = [c3 EXCEPT !.bankroll = b.bankroll]
    BY DEF Configs
<1>9. d.label = name /\ d.enabled = c.enabled /\ d.strategy = b.strategy /\ d.params = b.params
    BY DEF Configs
<1> QED
    BY <1>2, <1>7, <1>8, <1>9 DEF b

LEMMA BookFields ==
    /\ Owner!NoBook \in Books
    /\ \A b \in Books, x \in BOOLEAN, y \in BOOLEAN, m \in Owner!Money :
          /\ [b EXCEPT !.exists = x] \in Books /\ [b EXCEPT !.pending = x] \in Books
          /\ [b EXCEPT !.basis = m] \in Books
          /\ [b EXCEPT !.exists = x, !.positions = y] \in Books
          /\ [b EXCEPT !.pending = x, !.positions = y] \in Books
<1>1. Owner!NoBook \in Books
    BY DEF Owner!NoBook, Books, Owner!Money
<1>2. ASSUME NEW b \in Books, NEW x \in BOOLEAN, NEW y \in BOOLEAN, NEW m \in Owner!Money
      PROVE  /\ [b EXCEPT !.exists = x] \in Books /\ [b EXCEPT !.pending = x] \in Books
             /\ [b EXCEPT !.basis = m] \in Books /\ [b EXCEPT !.positions = y] \in Books
    BY DEF Books
<1>3. ASSUME NEW b \in Books, NEW x \in BOOLEAN, NEW y \in BOOLEAN
      PROVE  /\ [b EXCEPT !.exists = x, !.positions = y] = [[b EXCEPT !.exists = x] EXCEPT !.positions = y]
             /\ [b EXCEPT !.pending = x, !.positions = y] = [[b EXCEPT !.pending = x] EXCEPT !.positions = y]
    BY DEF Books
<1>4. 0 \in Owner!Money
    BY DEF Owner!Money
<1>5. ASSUME NEW b \in Books, NEW x \in BOOLEAN, NEW y \in BOOLEAN
      PROVE  /\ [b EXCEPT !.exists = x, !.positions = y] \in Books
             /\ [b EXCEPT !.pending = x, !.positions = y] \in Books
    <2>1. [b EXCEPT !.exists = x] \in Books /\ [b EXCEPT !.pending = x] \in Books
        BY <1>2, <1>4
    <2>2. /\ [[b EXCEPT !.exists = x] EXCEPT !.positions = y] \in Books
          /\ [[b EXCEPT !.pending = x] EXCEPT !.positions = y] \in Books
        BY <1>2, <1>4, <2>1
    <2> QED BY <1>3, <2>2
<1> QED
    BY <1>1, <1>2, <1>5

LEMMA OwnerInitial ==
    ASSUME Owner!ReleaseAssumption, Owner!Init
    PROVE  Owner!TypeOK /\ Owner!OwnerInv
<1>1. 1 \in Owner!Releases
    BY DEF Owner!ReleaseAssumption, Owner!Releases
<1>2. PICK s \in Tuned \cup Owner!Range(Shipped[1]), on \in BOOLEAN :
          config = [enabled |-> on, label |-> Owner!None, strategy |-> s.strategy, params |-> s.params,
                    bankroll |-> s.bankroll]
    BY DEF Owner!Init
<1>3. s \in Owner!Settings
    BY <1>1 DEF Owner!Settings
<1>4. config \in Configs /\ config.label = Owner!None
    BY <1>2, <1>3 DEF Configs, Owner!Money
<1>5. book \in Books
    <2>1. [Owner!NoBook EXCEPT !.exists = TRUE, !.positions = TRUE] \in Books
        BY BookFields DEF Owner!Money
    <2> QED BY <2>1, BookFields DEF Owner!Init
<1>6. Owner!TypeOK
    BY <1>1, <1>4, <1>5, TypeParts DEF Owner!Init, Clones
<1>7. Owner!LabelIsMeasured
    BY <1>4 DEF Owner!LabelIsMeasured, Owner!ReleaseAssumption
<1>8. Owner!MigrationInv
    <2>1. \A m \in Migrating : ~(m <= 1)
        BY DEF Owner!ReleaseAssumption, Owner!Releases
    <2> QED BY <2>1 DEF Owner!MigrationInv, Owner!Labelled, Owner!Init, Owner!Idle
<1> QED
    BY <1>6, <1>7, <1>8 DEF Owner!OwnerInv

LEMMA OwnerTypes ==
    ASSUME Owner!ReleaseAssumption, Owner!TypeOK, [Owner!Next]_(Owner!ownerVars)
    PROVE  Owner!TypeOK'
<1> DEFINE Commands == {Owner!Idle} \cup Setups \cup Upgrades
<1>0. /\ upstream \in Owner!Releases /\ clone \in Clones /\ config \in Configs
      /\ book \in Books /\ command \in Commands
    BY TypeParts
<1>a. /\ \A step : Owner!Then(step) => Owner!Done(command) \in Commands
      /\ \A r \in Owner!Releases, name \in Profiles :
            Owner!Replaced(config, name, Shipped[r][name]) \in Configs
      /\ clone.profiles \in Owner!Releases
    <2>1. \A step : Owner!Then(step) => Owner!Done(command) \in Commands
        BY StepOf
    <2>2. clone.profiles \in Owner!Releases
        BY <1>0 DEF Clones
    <2> QED BY <1>0, <2>1, <2>2, BlockLaid
<1> SUFFICES /\ upstream' \in Owner!Releases /\ clone' \in Clones /\ config' \in Configs
             /\ book' \in Books /\ command' \in Commands
    BY TypeParts
<1>1. CASE Owner!Apply
    BY <1>0, <1>1, <1>a DEF Owner!Apply
<1>2. CASE Owner!SetupBegin
    <2>1. PICK name \in Profiles, bankroll \in Bankrolls \cup {0}, books \in {"clear", "keep", "ask"} :
              command' = [name |-> "setup", profile |-> name, bankroll |-> bankroll,
                          todo |-> IF books = "clear" THEN <<"remove", "disarm", "apply", "bankroll">>
                                   ELSE <<"apply", "bankroll">>]
        BY <1>2 DEF Owner!SetupBegin
    <2>2. /\ <<"remove", "disarm", "apply", "bankroll">> \in Owner!Todo(SetupSteps)
          /\ <<"apply", "bankroll">> \in Owner!Todo(SetupSteps)
        BY DEF Owner!Todo, SetupSteps
    <2>3. command' \in Setups
        BY <2>1, <2>2 DEF Setups, Owner!Money
    <2> QED BY <1>0, <1>2, <2>3 DEF Owner!SetupBegin
<1>3. CASE Owner!RemoveBooks
    BY <1>0, <1>3, <1>a, BookFields DEF Owner!RemoveBooks
<1>4. CASE Owner!Disarm
    <2>1. [config EXCEPT !.enabled = FALSE] \in Configs
        BY <1>0 DEF Configs
    <2> QED BY <1>0, <1>4, <1>a, <2>1 DEF Owner!Disarm
<1>5. CASE Owner!SetupApply
    <2>1. CASE book.positions \/ Owner!BookIsLive
        BY <1>0, <1>5, <2>1 DEF Owner!SetupApply
    <2>2. CASE ~(book.positions \/ Owner!BookIsLive)
        <3>1. command.profile \in Profiles
            <4>1. Owner!Then("apply")
                BY <1>5 DEF Owner!SetupApply
            <4>2. command \in Setups
                BY <4>1, StepOf DEF UpgradeSteps
            <4> QED BY <4>2 DEF Setups
        <3>2. /\ config' = Owner!Replaced(config, command.profile, Shipped[clone.profiles][command.profile])
              /\ command' = Owner!Done(command) /\ Owner!Then("apply")
              /\ UNCHANGED <<upstream, clone, book>>
            BY <1>5, <2>2 DEF Owner!SetupApply
        <3> QED BY <1>0, <1>a, <3>1, <3>2
    <2> QED BY <2>1, <2>2
<1>6. CASE Owner!SetBankroll
    <2>1. Owner!Then("bankroll")
        BY <1>6 DEF Owner!SetBankroll
    <2>2. command \in Setups
        BY <2>1, StepOf DEF UpgradeSteps
    <2>3. command.bankroll \in Owner!Money
        BY <2>2 DEF Setups
    <2>4. [config EXCEPT !.bankroll = command.bankroll] \in Configs
        BY <1>0, <2>3 DEF Configs
    <2> QED BY <1>0, <1>6, <1>a, <2>1, <2>4 DEF Owner!SetBankroll
<1>7. CASE Owner!Bootstrap
    BY <1>0, <1>7 DEF Owner!Bootstrap, Clones
<1>8. CASE Owner!UpgradeBegin
    <2>1. PICK target \in clone.version + 1 .. upstream :
              command' = [name |-> "upgrade", target |-> target, steps |-> Owner!Steps(target),
                          from |-> clone.version,
                          todo |-> <<"script", "version", "profiles", "config", "book", "stamp">>]
        BY <1>8 DEF Owner!UpgradeBegin
    <2>2. <<"script", "version", "profiles", "config", "book", "stamp">> \in Owner!Todo(UpgradeSteps)
        BY DEF Owner!Todo, UpgradeSteps
    <2>3. target \in Owner!Releases /\ clone.version \in Owner!Releases
          /\ Owner!Steps(target) \in SUBSET Migrating
        BY <1>0, <2>1 DEF Owner!ReleaseAssumption, Owner!Releases, Owner!Steps, Clones
    <2>4. command' \in Upgrades
        BY <2>1, <2>2, <2>3 DEF Upgrades
    <2> QED BY <1>0, <1>8, <2>4 DEF Owner!UpgradeBegin
<1>9. CASE Owner!MigrateConfig
    <2>1. config' \in Configs
        <3>1. \A l \in Profiles \cup {Owner!Custom} : [config EXCEPT !.label = l] \in Configs
            BY <1>0 DEF Configs
        <3>2. Owner!Matching(config) \subseteq Profiles
            BY DEF Owner!Matching
        <3> QED BY <1>0, <1>9, <3>1, <3>2 DEF Owner!MigrateConfig
    <2> QED BY <1>0, <1>9, <1>a, <2>1 DEF Owner!MigrateConfig
<1>10. CASE Owner!MigrateBook
    <2>1. config.bankroll \in Owner!Money
        BY <1>0 DEF Configs
    <2>2. [book EXCEPT !.basis = config.bankroll] \in Books
        BY <1>0, <2>1, BookFields
    <2> QED BY <1>0, <1>10, <1>a, <2>2 DEF Owner!MigrateBook
<1>11. CASE Owner!Stamp
    <2>1. Owner!Then("stamp")
        BY <1>11 DEF Owner!Stamp
    <2>2. command \in Upgrades
        BY <2>1, StepOf DEF SetupSteps
    <2>3. clone.missed \cup Owner!Jumped(command.from, command.target, command.steps) \in SUBSET Owner!Releases
        BY <1>0 DEF Clones, Owner!Jumped, Owner!ReleaseAssumption
    <2>4. command.target \in Owner!Releases
        BY <2>2 DEF Upgrades
    <2>5. clone' = [clone EXCEPT !.version = command.target,
                                 !.missed = clone.missed \cup
                                     Owner!Jumped(command.from, command.target, command.steps)]
        BY <1>11 DEF Owner!Stamp
    <2> DEFINE j == clone.missed \cup Owner!Jumped(command.from, command.target, command.steps)
    <2>6. clone' \in Clones
        <3>1. clone' = [[clone EXCEPT !.version = command.target] EXCEPT !.missed = j]
            BY <1>0, <2>5 DEF Clones
        <3>2. [clone EXCEPT !.version = command.target] \in Clones
            BY <1>0, <2>4 DEF Clones
        <3> HIDE DEF j
        <3> QED BY <2>3, <3>1, <3>2 DEF Clones, j
    <2> QED BY <1>0, <1>11, <1>a, <2>6 DEF Owner!Stamp
<1>12. ASSUME NEW path \in {"script", "version", "profiles"}, Owner!Pull(path)
       PROVE  /\ upstream' \in Owner!Releases /\ clone' \in Clones /\ config' \in Configs
              /\ book' \in Books /\ command' \in Commands
    <2>1. [clone EXCEPT ![path] = upstream] \in Clones
        BY <1>0 DEF Clones
    <2> QED BY <1>0, <1>12, <1>a, <2>1 DEF Owner!Pull
<1>13. CASE Owner!Cut
    <2>1. \A f, t, s : clone.missed \cup Owner!Jumped(f, t, s) \in SUBSET Owner!Releases
        BY <1>0 DEF Clones, Owner!Jumped, Owner!ReleaseAssumption
    <2>2. \A f, t, s : [clone EXCEPT !.missed = @ \cup Owner!Jumped(f, t, s)] \in Clones
        BY <1>0, <2>1 DEF Clones
    <2> QED BY <1>0, <1>13, <2>2 DEF Owner!Cut
<1>14. CASE Owner!Publish
    BY <1>0, <1>14 DEF Owner!Publish, Owner!Releases, Owner!ReleaseAssumption
<1>15. CASE Owner!Desk
    <2>1. book' \in Books
        <3>1. 0 \in Owner!Money
            BY DEF Owner!Money
        <3> QED BY <1>0, <1>15, <3>1, BookFields DEF Owner!Desk
    <2> QED BY <1>0, <1>15, <2>1 DEF Owner!Desk
<1>16. CASE Owner!Enable
    <2>1. [config EXCEPT !.enabled = ~@] \in Configs
        BY <1>0 DEF Configs
    <2> QED BY <1>0, <1>16, <2>1 DEF Owner!Enable
<1>17. CASE UNCHANGED Owner!ownerVars
    BY <1>0, <1>17 DEF Owner!ownerVars
<1> QED
    BY <1>1, <1>2, <1>3, <1>4, <1>5, <1>6, <1>7, <1>8, <1>9, <1>10, <1>11, <1>12, <1>13, <1>14,
       <1>15, <1>16, <1>17 DEF Owner!Next

\* The labels: a profile's name comes with the settings a release has for it.
LEMMA LabelsKept ==
    ASSUME Owner!ReleaseAssumption, Owner!TypeOK, Owner!LabelIsMeasured,
           [Owner!Next]_(Owner!ownerVars)
    PROVE  /\ Owner!LabelIsMeasured'
           /\ config.label # Owner!None => config'.label # Owner!None
<1> DEFINE Kept == /\ config'.label = config.label /\ config'.strategy = config.strategy
                   /\ config'.params = config.params
           Laid == \E r \in Owner!Releases : \E name \in Profiles :
                       config' = Owner!Replaced(config, name, Shipped[r][name])
<1>0. /\ config \in Configs /\ clone.profiles \in Owner!Releases
      /\ command \in {Owner!Idle} \cup Setups \cup Upgrades
      /\ Owner!None \notin Profiles /\ Owner!Custom \notin Profiles /\ Owner!None # Owner!Custom
    BY TypeParts DEF Clones, Owner!ReleaseAssumption, Owner!None, Owner!Custom
<1>1. CASE Kept
    BY <1>1 DEF Owner!LabelIsMeasured
<1>2. CASE Laid
    <2>1. PICK r \in Owner!Releases, name \in Profiles :
              config' = Owner!Replaced(config, name, Shipped[r][name])
        BY <1>2
    <2>2. /\ config'.label = name /\ config'.strategy = Shipped[r][name].strategy
          /\ config'.params = Shipped[r][name].params
        BY <1>0, <2>1, BlockLaid, ZenonT(60)
    <2>3. /\ Shipped[r][config'.label].strategy = config'.strategy
          /\ Shipped[r][config'.label].params = config'.params
        BY <2>2
    <2>4. Owner!LabelIsMeasured'
        BY <2>3 DEF Owner!LabelIsMeasured
    <2> QED BY <1>0, <2>2, <2>4
<1>3. CASE Owner!MigrateConfig /\ ~Kept
    <2>1. PICK label \in IF Owner!Matching(config) = {} THEN {Owner!Custom} ELSE Owner!Matching(config) :
              config' = [config EXCEPT !.label = label]
        BY <1>3 DEF Owner!MigrateConfig
    <2>2. config'.label = label /\ config'.strategy = config.strategy /\ config'.params = config.params
        BY <1>0, <2>1 DEF Configs
    <2>3. CASE Owner!Matching(config) = {}
        BY <1>0, <2>1, <2>2, <2>3 DEF Owner!LabelIsMeasured
    <2>4. CASE Owner!Matching(config) # {}
        <3>1. label \in Profiles /\ Shipped[clone.profiles][label].strategy = config.strategy
              /\ Shipped[clone.profiles][label].params = config.params
            BY <2>1, <2>4 DEF Owner!Matching
        <3> QED BY <1>0, <2>2, <3>1 DEF Owner!LabelIsMeasured
    <2> QED BY <2>3, <2>4
<1>4. CASE Owner!Apply
    <2>1. Laid
        BY <1>0, <1>4 DEF Owner!Apply
    <2> QED BY <1>2, <2>1
<1>5. CASE Owner!SetupApply
    <2>1. CASE book.positions \/ Owner!BookIsLive
        <3>1. Kept
            BY <1>5, <2>1 DEF Owner!SetupApply
        <3> QED BY <1>1, <3>1
    <2>2. CASE ~(book.positions \/ Owner!BookIsLive)
        <3>1. Owner!Then("apply") /\ config' = Owner!Replaced(config, command.profile,
                                                  Shipped[clone.profiles][command.profile])
            BY <1>5, <2>2 DEF Owner!SetupApply
        <3>2. command \in Setups
            BY <3>1, StepOf DEF UpgradeSteps
        <3>3. command.profile \in Profiles
            BY <3>2 DEF Setups
        <3>4. Laid
            BY <1>0, <3>1, <3>3
        <3> QED BY <1>2, <3>4
    <2> QED BY <2>1, <2>2
<1>6. CASE Owner!Disarm \/ Owner!SetBankroll \/ Owner!Enable
    <2>1. Kept
        BY <1>0, <1>6 DEF Owner!Disarm, Owner!SetBankroll, Owner!Enable, Configs
    <2> QED BY <1>1, <2>1
<1>7. CASE \/ Owner!SetupBegin \/ Owner!RemoveBooks \/ Owner!Bootstrap \/ Owner!UpgradeBegin
           \/ Owner!MigrateBook \/ Owner!Stamp \/ Owner!Cut \/ Owner!Publish \/ Owner!Desk
           \/ \E path \in {"script", "version", "profiles"} : Owner!Pull(path)
           \/ UNCHANGED Owner!ownerVars
    <2>1. config' = config
        BY <1>7 DEF Owner!SetupBegin, Owner!RemoveBooks, Owner!Bootstrap, Owner!UpgradeBegin,
           Owner!MigrateBook, Owner!Stamp, Owner!Cut, Owner!Publish, Owner!Desk, Owner!Pull,
           Owner!ownerVars
    <2>2. Kept
        BY <2>1
    <2> QED BY <1>1, <2>2
<1> QED
    BY <1>1, <1>3, <1>4, <1>5, <1>6, <1>7 DEF Owner!Next

\* A step of an upgrade that is not the stamp leaves an upgrade with less to do.
LEMMA UpgradeGoesOn ==
    ASSUME Owner!TypeOK, Owner!MigrationInv, command \in Upgrades,
           NEW step, Owner!Then(step), step # "stamp", command' = Owner!Done(command),
           clone'.missed = clone.missed,
           config.label # Owner!None => config'.label # Owner!None,
           step = "config" => command.steps = {} \/ config'.label # Owner!None
    PROVE  Owner!MigrationInv'
<1> DEFINE todo == command.todo
           rest == Tail(todo)
<1>1. /\ todo \in Owner!Todo(UpgradeSteps) /\ command.name = "upgrade"
      /\ todo[1] = step /\ Len(todo) \in Nat /\ Len(todo) >= 1
    BY StepOf DEF Upgrades
<1>2. /\ Owner!Labelled(command.from)
      /\ (\E i \in 1 .. Len(todo) : todo[i] = "config") \/ command.steps = {} \/ config.label # Owner!None
      /\ \A i \in 1 .. Len(todo) : todo[i] = "stamp" <=> i = Len(todo)
    BY <1>1 DEF Owner!MigrationInv
<1>3. Len(todo) # 1
    <2>1. 1 \in 1 .. Len(todo)
        BY <1>1
    <2> QED BY <1>1, <1>2, <2>1
<1>4. command' = [command EXCEPT !.todo = Tail(@)]
    BY <1>3, StepOf
<1>5. command'.name = "upgrade" /\ command'.from = command.from /\ command'.steps = command.steps
      /\ command'.todo = rest
    BY <1>1, <1>4 DEF Upgrades
<1>6. Len(rest) = Len(todo) - 1 /\ \A i \in 1 .. Len(todo) - 1 : rest[i] = todo[i + 1]
    <2> HIDE DEF todo
    <2> QED BY <1>1, <1>3, Remaining DEF rest
<1> HIDE DEF todo, rest
<1>7. Owner!Labelled(command.from)'
    BY <1>2, <1>5 DEF Owner!Labelled
<1>8. (\E i \in 1 .. Len(rest) : rest[i] = "config") \/ command.steps = {} \/ config'.label # Owner!None
    <2> SUFFICES ASSUME command.steps # {}, config'.label = Owner!None
                 PROVE  \E i \in 1 .. Len(rest) : rest[i] = "config"
        OBVIOUS
    <2>1. PICK i \in 1 .. Len(todo) : todo[i] = "config"
        BY <1>2
    <2>2. i # 1
        BY <1>1, <2>1
    <2>3. i - 1 \in 1 .. Len(rest) /\ rest[i - 1] = todo[i]
        BY <1>1, <1>6, <2>2
    <2> QED BY <2>1, <2>3
<1>9. \A i \in 1 .. Len(rest) : rest[i] = "stamp" <=> i = Len(rest)
    <2> SUFFICES ASSUME NEW i \in 1 .. Len(rest) PROVE rest[i] = "stamp" <=> i = Len(rest)
        OBVIOUS
    <2>1. i + 1 \in 1 .. Len(todo) /\ rest[i] = todo[i + 1] /\ (i + 1 = Len(todo) <=> i = Len(rest))
        BY <1>1, <1>6
    <2> QED BY <1>2, <2>1
<1> QED
    BY <1>5, <1>7, <1>8, <1>9 DEF Owner!MigrationInv

\* An upgrade ends, at the stamp or cut off: what it has not come to is missed.
LEMMA UpgradeEnds ==
    ASSUME Owner!ReleaseAssumption, Owner!TypeOK, Owner!MigrationInv, command \in Upgrades,
           command' = Owner!Idle, config' = config,
           NEW steps,
           Owner!Then("stamp") \/ steps = {}, steps \subseteq command.steps,
           clone'.missed = clone.missed \cup Owner!Jumped(command.from, clone'.version, steps),
           clone'.version \in Owner!Releases
    PROVE  Owner!MigrationInv'
<1>1. /\ command.name = "upgrade" /\ command.from \in Owner!Releases
      /\ Owner!Releases \subseteq Nat /\ Migrating \subseteq Nat
    BY DEF Upgrades, Owner!Releases, Owner!ReleaseAssumption
<1>2. steps # {} => config.label # Owner!None
    <2> SUFFICES ASSUME steps # {} PROVE config.label # Owner!None
        OBVIOUS
    <2>1. Owner!Then("stamp")
        OBVIOUS
    <2>2. command.todo[1] = "stamp" /\ Len(command.todo) \in Nat /\ Len(command.todo) >= 1
        BY <2>1, StepOf
    <2>3. Len(command.todo) = 1
        <3>1. 1 \in 1 .. Len(command.todo)
            BY <2>2
        <3> QED BY <1>1, <2>2, <3>1 DEF Owner!MigrationInv
    <2>4. ~\E i \in 1 .. Len(command.todo) : command.todo[i] = "config"
        BY <2>2, <2>3
    <2> QED BY <1>1, <2>4 DEF Owner!MigrationInv
<1>3. ASSUME NEW m \in Migrating, m <= clone'.version, clone'.missed = {}
      PROVE  config.label # Owner!None
    <2>1. clone.missed = {} /\ m \notin Owner!Jumped(command.from, clone'.version, steps)
        BY <1>3
    <2>2. m <= command.from \/ m \in steps
        <3>1. m \in Nat /\ command.from \in Nat
            BY <1>1
        <3> QED BY <1>3, <2>1, <3>1 DEF Owner!Jumped
    <2>3. Owner!Labelled(command.from)
        BY <1>1 DEF Owner!MigrationInv
    <2> QED BY <1>2, <2>1, <2>2, <2>3 DEF Owner!Labelled
<1> QED
    BY <1>3 DEF Owner!MigrationInv, Owner!Labelled, Owner!Idle

\* The migrations.  A label that is set stays, and what has been missed is
\* never forgotten.
LEMMA MigrationKept ==
    ASSUME Owner!ReleaseAssumption, Owner!TypeOK, Owner!LabelIsMeasured, Owner!MigrationInv,
           [Owner!Next]_(Owner!ownerVars)
    PROVE  Owner!MigrationInv'
<1>0. /\ clone \in Clones /\ clone.version \in Owner!Releases /\ config \in Configs
      /\ command \in {Owner!Idle} \cup Setups \cup Upgrades
      /\ \A c \in {Owner!Idle} \cup Setups \cup Upgrades : c \in Upgrades <=> c.name = "upgrade"
      /\ config.label # Owner!None => config'.label # Owner!None
    BY TypeParts, LabelsKept DEF Clones, Setups, Upgrades, Owner!Idle
<1>a. ASSUME UNCHANGED clone, command \notin Upgrades, command'.name # "upgrade"
      PROVE  Owner!MigrationInv'
    BY <1>0, <1>a DEF Owner!MigrationInv, Owner!Labelled
<1>b. ASSUME UNCHANGED clone, UNCHANGED command
      PROVE  Owner!MigrationInv'
    BY <1>0, <1>b DEF Owner!MigrationInv, Owner!Labelled
<1>c. Owner!Idle \notin Upgrades /\ Owner!Idle.name # "upgrade"
    BY DEF Owner!Idle, Upgrades
<1>1. CASE Owner!RemoveBooks \/ Owner!Disarm \/ Owner!SetupApply \/ Owner!SetBankroll
    <2>1. PICK step \in SetupSteps : /\ Owner!Then(step) /\ UNCHANGED clone
                                     /\ command' \in {Owner!Idle, Owner!Done(command)}
        BY <1>1 DEF Owner!RemoveBooks, Owner!Disarm, Owner!SetupApply, Owner!SetBankroll, SetupSteps
    <2>2. command \in Setups
        BY <2>1, StepOf DEF SetupSteps, UpgradeSteps
    <2>3. command.name = "setup" /\ command \notin Upgrades
        BY <2>2 DEF Setups, Upgrades
    <2>4. Owner!Done(command) = Owner!Idle \/ Owner!Done(command).name = command.name
        BY <2>1, <2>2, StepOf DEF Setups
    <2> QED BY <1>a, <1>c, <2>1, <2>3, <2>4
<1>2. CASE Owner!SetupBegin
    BY <1>2, <1>a, <1>c DEF Owner!SetupBegin
<1>3. CASE Owner!UpgradeBegin
    <2>1. PICK target \in clone.version + 1 .. upstream :
              command' = [name |-> "upgrade", target |-> target, steps |-> Owner!Steps(target),
                          from |-> clone.version,
                          todo |-> <<"script", "version", "profiles", "config", "book", "stamp">>]
        BY <1>3 DEF Owner!UpgradeBegin
    <2>2. UNCHANGED <<clone, config>> /\ Owner!Labelled(clone.version)
        BY <1>3, <1>c DEF Owner!UpgradeBegin, Owner!MigrationInv
    <2>3. /\ command'.name = "upgrade" /\ command'.from = clone.version
          /\ Len(command'.todo) = 6 /\ command'.todo[4] = "config" /\ command'.todo[6] = "stamp"
          /\ \A i \in 1 .. 6 : command'.todo[i] = "stamp" => i = 6
        BY <2>1
    <2>4. \E i \in 1 .. Len(command'.todo) : command'.todo[i] = "config"
        BY <2>3
    <2>5. Owner!Labelled(command.from)'
        BY <2>2, <2>3 DEF Owner!Labelled
    <2> QED BY <2>3, <2>4, <2>5 DEF Owner!MigrationInv
<1>4. CASE Owner!MigrateConfig
    <2>1. Owner!Then("config") /\ command \in Upgrades /\ command' = Owner!Done(command) /\ UNCHANGED clone
        BY <1>4, StepOf DEF Owner!MigrateConfig, SetupSteps
    <2>2. command.steps = {} \/ config'.label # Owner!None
        <3>1. Owner!Matching(config) \subseteq Profiles /\ Owner!None \notin Profiles
              /\ Owner!None # Owner!Custom
            BY DEF Owner!Matching, Owner!ReleaseAssumption, Owner!None, Owner!Custom
        <3>2. \A l : [config EXCEPT !.label = l].label = l
            BY <1>0 DEF Configs
        <3> QED BY <1>4, <3>1, <3>2 DEF Owner!MigrateConfig
    <2> QED BY <1>0, <2>1, <2>2, UpgradeGoesOn
<1>5. CASE Owner!MigrateBook
    <2>1. Owner!Then("book") /\ command \in Upgrades /\ command' = Owner!Done(command)
          /\ UNCHANGED <<clone, config>>
        BY <1>5, StepOf DEF Owner!MigrateBook, SetupSteps
    <2> QED BY <1>0, <2>1, UpgradeGoesOn
<1>6. ASSUME NEW path \in {"script", "version", "profiles"}, Owner!Pull(path)
      PROVE  Owner!MigrationInv'
    <2>1. Owner!Then(path) /\ command \in Upgrades /\ command' = Owner!Done(command) /\ UNCHANGED config
        BY <1>6, StepOf DEF Owner!Pull, SetupSteps
    <2>2. clone'.missed = clone.missed
        BY <1>0, <1>6 DEF Owner!Pull, Clones
    <2> QED BY <1>0, <2>1, <2>2, UpgradeGoesOn
<1>7. CASE Owner!Stamp
    <2>1. Owner!Then("stamp") /\ command \in Upgrades /\ command' = Owner!Done(command) /\ UNCHANGED config
        BY <1>7, StepOf DEF Owner!Stamp, SetupSteps
    <2>2. Len(command.todo) = 1
        <3>1. command.name = "upgrade" /\ command.todo[1] = "stamp" /\ Len(command.todo) \in Nat
              /\ Len(command.todo) >= 1
            BY <2>1, StepOf DEF Upgrades
        <3>2. 1 \in 1 .. Len(command.todo)
            BY <3>1
        <3> QED BY <3>1, <3>2 DEF Owner!MigrationInv
    <2>3. command' = Owner!Idle
        BY <2>1, <2>2, StepOf
    <2>4. clone' = [clone EXCEPT !.version = command.target,
                                 !.missed = clone.missed \cup
                                     Owner!Jumped(command.from, command.target, command.steps)]
        BY <1>7 DEF Owner!Stamp
    <2>5. /\ clone'.version = command.target /\ command.target \in Owner!Releases
          /\ clone'.missed = clone.missed \cup Owner!Jumped(command.from, command.target, command.steps)
        BY <1>0, <2>1, <2>4 DEF Clones, Upgrades
    <2> QED BY <2>1, <2>3, <2>5, UpgradeEnds
<1>8. CASE Owner!Cut
    <2>1. CASE command \in Upgrades
        <3> DEFINE steps == IF Owner!Then("stamp") THEN command.steps ELSE {}
        <3>1. clone' = [clone EXCEPT !.missed = @ \cup Owner!Jumped(command.from, clone.version, steps)]
            BY <1>0, <1>8, <2>1 DEF Owner!Cut
        <3>2. /\ clone'.version = clone.version
              /\ clone'.missed = clone.missed \cup Owner!Jumped(command.from, clone'.version, steps)
            BY <1>0, <3>1 DEF Clones
        <3>3. command' = Owner!Idle /\ config' = config
            BY <1>8 DEF Owner!Cut
        <3>4. (Owner!Then("stamp") \/ steps = {}) /\ steps \subseteq command.steps
            OBVIOUS
        <3> HIDE DEF steps
        <3> QED BY <1>0, <2>1, <3>2, <3>3, <3>4, UpgradeEnds
    <2>2. CASE command \notin Upgrades
        BY <1>0, <1>8, <1>a, <1>c, <2>2 DEF Owner!Cut
    <2> QED BY <2>1, <2>2
<1>9. CASE Owner!Bootstrap
    <2>1. command = Owner!Idle /\ UNCHANGED <<command, config>>
          /\ clone'.version = clone.version /\ clone'.missed = clone.missed
        BY <1>0, <1>9 DEF Owner!Bootstrap, Clones
    <2> QED BY <1>c, <2>1 DEF Owner!MigrationInv, Owner!Labelled
<1>10. CASE \/ Owner!Apply \/ Owner!Publish \/ Owner!Desk \/ Owner!Enable \/ UNCHANGED Owner!ownerVars
    BY <1>b, <1>10 DEF Owner!Apply, Owner!Publish, Owner!Desk, Owner!Enable, Owner!ownerVars
<1> QED
    BY <1>1, <1>2, <1>3, <1>4, <1>5, <1>6, <1>7, <1>8, <1>9, <1>10 DEF Owner!Next

\* A profile's name in the config stands for settings that a release measured
\* under it, and VERSION for migrations that were done, through every order of
\* setups, applies, upgrades and releases, each cut off after any file.
THEOREM OwnerIsKept ==
    ASSUME Owner!ReleaseAssumption
    PROVE  Owner!Spec => []Owner!OwnerKept
<1>1. Owner!Init => Owner!TypeOK /\ Owner!OwnerInv
    BY OwnerInitial
<1>2. Owner!TypeOK /\ Owner!OwnerInv /\ [Owner!Next]_(Owner!ownerVars)
          => Owner!TypeOK' /\ Owner!OwnerInv'
    BY OwnerTypes, LabelsKept, MigrationKept DEF Owner!OwnerInv
<1>3. Owner!OwnerInv => Owner!OwnerKept
    BY DEF Owner!OwnerInv, Owner!OwnerKept, Owner!VersionMigrated, Owner!MigrationInv, Owner!Labelled,
           Owner!Idle
<1> QED
    BY <1>1, <1>2, <1>3, PTL DEF Owner!Spec

-----------------------------------------------------------------------------
(* The incentive quoter.                                                   *)

CONSTANTS QuotedMarkets, References, Capital, MaxMarkets, MaxPerMarket, ReadsFail, MaxQuoteDay,
          MaxPasses
VARIABLES resting, seen, quoteLog, quoteKill, pass, passes, quoteDay

Quoter == INSTANCE IncentiveQuoter

LEMMA QuoterSets ==
    ASSUME NEW S
    PROVE  (Quoter!IsFiniteSet(S) <=> IsFiniteSet(S)) /\ Quoter!Cardinality(S) = Cardinality(S)
<1>1. Quoter!IsFiniteSet(S) <=> IsFiniteSet(S)
    BY Zenon DEF Quoter!IsFiniteSet, IsFiniteSet
<1>2. Quoter!Cardinality(S) = Cardinality(S)
    BY Zenon DEF Quoter!Cardinality, Cardinality
<1> QED BY <1>1, <1>2

\* The least and the greatest of two numbers.
LEMMA LeastOfTwo ==
    ASSUME NEW a \in Int, NEW b \in Int
    PROVE  Quoter!Min({a, b}) \in {a, b} /\ Quoter!Min({a, b}) <= a /\ Quoter!Min({a, b}) <= b
<1> DEFINE P(x) == x \in {a, b} /\ \A y \in {a, b} : x <= y
<1>1. \E x : P(x)
    <2>1. CASE a <= b
        BY <2>1
    <2>2. CASE ~(a <= b)
        BY <2>2
    <2> QED BY <2>1, <2>2
<1>2. Quoter!Min({a, b}) = CHOOSE x : P(x)
    BY Zenon DEF Quoter!Min
<1> HIDE DEF P
<1>3. P(Quoter!Min({a, b}))
    BY <1>1, <1>2, Zenon
<1> QED
    BY <1>3 DEF P

LEMMA GreatestOfTwo ==
    ASSUME NEW a \in Int, NEW b \in Int
    PROVE  Quoter!Max({a, b}) \in {a, b} /\ Quoter!Max({a, b}) >= a /\ Quoter!Max({a, b}) >= b
<1> DEFINE P(x) == x \in {a, b} /\ \A y \in {a, b} : x >= y
<1>1. \E x : P(x)
    <2>1. CASE a >= b
        BY <2>1
    <2>2. CASE ~(a >= b)
        BY <2>2
    <2> QED BY <2>1, <2>2
<1>2. Quoter!Max({a, b}) = CHOOSE x : P(x)
    BY Zenon DEF Quoter!Max
<1> HIDE DEF P
<1>3. P(Quoter!Max({a, b}))
    BY <1>1, <1>2, Zenon
<1> QED
    BY <1>3 DEF P

\* The two legs of a market.
LEMMA Legs ==
    ASSUME Quoter!QuoterAssumption, NEW m \in QuotedMarkets, NEW b \in Quoter!Book
    PROVE  /\ Quoter!Pair(m, b) \in Seq(Quoter!Quotes) /\ Len(Quoter!Pair(m, b)) = 2
           /\ \A i \in 1 .. 2 : Quoter!Pair(m, b)[i].market = m
           /\ Quoter!Pair(m, b)[1].side # Quoter!Pair(m, b)[2].side
<1>1. Quoter!Budget \in Int
    <2>0. MaxMarkets \in Int /\ MaxPerMarket \in Int /\ Capital \in Int /\ 1 \in Int
        BY DEF Quoter!QuoterAssumption
    <2> DEFINE markets == Quoter!Max({MaxMarkets, 1})
    <2>1. markets \in {MaxMarkets, 1} /\ markets >= 1
        BY <2>0, GreatestOfTwo
    <2> HIDE DEF markets
    <2>2. Capital \div markets \in Int
        BY <2>0, <2>1
    <2> DEFINE each == Capital \div markets
    <2>3. each \in Int
        BY <2>2
    <2> HIDE DEF each
    <2>4. Quoter!Min({MaxPerMarket, each}) \in {MaxPerMarket, each}
        BY <2>0, <2>3, LeastOfTwo
    <2>5. Quoter!Budget = Quoter!Min({MaxPerMarket, each})
        BY Zenon DEF Quoter!Budget, each, markets
    <2> QED BY <2>0, <2>3, <2>4, <2>5
<1>2. b.refs[1] \in 1 .. 9 /\ b.refs[2] \in 1 .. 9
    BY DEF Quoter!QuoterAssumption, Quoter!Book, Quoter!Dollar
<1>3. Quoter!Size(b) \in Int
    BY <1>1, <1>2 DEF Quoter!Size
<1> DEFINE bid == [market |-> m, side |-> "bid", price |-> b.refs[1], count |-> Quoter!Size(b), day |-> 0]
           ask == [market |-> m, side |-> "ask", price |-> 10 - b.refs[2], count |-> Quoter!Size(b), day |-> 0]
<1>4. /\ bid \in Quoter!Quotes /\ ask \in Quoter!Quotes
      /\ bid.market = m /\ ask.market = m /\ bid.side = "bid" /\ ask.side = "ask"
    BY <1>2, <1>3 DEF Quoter!Quotes
<1>5. Quoter!Pair(m, b) = <<bid, ask>>
    BY DEF Quoter!Pair, Quoter!Dollar
<1> HIDE DEF bid, ask
<1> QED
    BY <1>4, <1>5

\* Two sequences in one.
LEMMA Joined ==
    ASSUME NEW Q, NEW s \in Seq(Q), NEW t \in Seq(Q)
    PROVE  /\ Len(s) \in Nat /\ Len(s \o t) = Len(s) + Len(t) /\ s \o t \in Seq(Q)
           /\ \A k \in 1 .. Len(s) : (s \o t)[k] = s[k]
           /\ \A k \in 1 .. Len(t) : t[k] \in Q /\ (s \o t)[Len(s) + k] = t[k]
OBVIOUS

\* Two more at the end of a sequence.
LEMMA TwoMore ==
    ASSUME NEW Q, NEW s \in Seq(Q), NEW t \in Seq(Q), Len(t) = 2
    PROVE  /\ Len(s) \in Nat /\ Len(s \o t) = Len(s) + 2 /\ s \o t \in Seq(Q)
           /\ \A k \in 1 .. Len(s) : (s \o t)[k] = s[k]
           /\ (s \o t)[Len(s) + 1] = t[1] /\ (s \o t)[Len(s) + 2] = t[2]
           /\ t[1] \in Q /\ t[2] \in Q
<1>1. Len(s) \in Nat /\ Len(s \o t) = Len(s) + Len(t) /\ s \o t \in Seq(Q)
    BY Joined
<1>2. \A k \in 1 .. Len(s) : (s \o t)[k] = s[k]
    BY Joined
<1>3. \A k \in 1 .. Len(t) : t[k] \in Q /\ (s \o t)[Len(s) + k] = t[k]
    BY Joined, SMTT(60)
<1>4. 1 \in 1 .. Len(t) /\ 2 \in 1 .. Len(t)
    OBVIOUS
<1> QED
    BY <1>1, <1>2, <1>3, <1>4

\* Funding a market adds its legs or nothing.
LEMMA FundAdds ==
    ASSUME Quoter!QuoterAssumption, NEW m \in QuotedMarkets, NEW b \in Quoter!Book, NEW headroom,
           NEW acc \in [spent : Int, legs : Seq(Quoter!Quotes)]
    PROVE  LET after == Quoter!Fund(acc, Quoter!Pair(m, b), headroom)
           IN  /\ after \in [spent : Int, legs : Seq(Quoter!Quotes)]
               /\ after = acc \/ after.legs = acc.legs \o Quoter!Pair(m, b)
<1> DEFINE pair == Quoter!Pair(m, b)
           cost == Quoter!Cost(pair[1]) + Quoter!Cost(pair[2])
           more == [spent |-> acc.spent + cost, legs |-> acc.legs \o pair]
<1>1. pair \in Seq(Quoter!Quotes) /\ Len(pair) = 2
    BY Legs
<1> HIDE DEF pair
<1>2. pair[1] \in Quoter!Quotes /\ pair[2] \in Quoter!Quotes
    BY <1>1, TwoMore
<1>3. \A o \in Quoter!Quotes : Quoter!Cost(o) \in Int
    <2> SUFFICES ASSUME NEW o \in Quoter!Quotes PROVE Quoter!Cost(o) \in Int
        OBVIOUS
    <2>1. o.price \in Int /\ o.count \in Int
        BY DEF Quoter!Quotes
    <2> QED BY <2>1 DEF Quoter!Cost, Quoter!Dollar
<1>4. cost \in Int
    BY <1>2, <1>3
<1> HIDE DEF cost
<1>5. more \in [spent : Int, legs : Seq(Quoter!Quotes)] /\ more.legs = acc.legs \o pair
    BY <1>1, <1>4
<1> HIDE DEF more
<1>6. Quoter!Fund(acc, pair, headroom) = IF acc.spent + cost > headroom THEN acc ELSE more
    BY Zenon DEF Quoter!Fund, cost, more
<1> QED
    BY <1>5, <1>6 DEF pair

\* Legs of another market, one a side, are apart from what was there.
LEMMA AppendApart ==
    ASSUME NEW s \in Seq(Quoter!Quotes), NEW t \in Seq(Quoter!Quotes), NEW m, Len(t) = 2,
           \A i \in 1 .. 2 : t[i].market = m, t[1].side # t[2].side,
           \A i \in 1 .. Len(s) : s[i].market # m,
           \A i, j \in 1 .. Len(s) : i # j => Quoter!Apart(s[i], s[j])
    PROVE  \A i, j \in 1 .. Len(s \o t) : i # j => Quoter!Apart((s \o t)[i], (s \o t)[j])
<1> SUFFICES ASSUME NEW i \in 1 .. Len(s \o t), NEW j \in 1 .. Len(s \o t), i # j
             PROVE  Quoter!Apart((s \o t)[i], (s \o t)[j])
    OBVIOUS
<1>1. /\ Len(s) \in Nat /\ Len(s \o t) = Len(s) + 2
      /\ \A k \in 1 .. Len(s) : (s \o t)[k] = s[k]
      /\ (s \o t)[Len(s) + 1] = t[1] /\ (s \o t)[Len(s) + 2] = t[2]
    BY TwoMore
<1>2. \A k \in 1 .. Len(s \o t) : k \in 1 .. Len(s) \/ k = Len(s) + 1 \/ k = Len(s) + 2
    BY <1>1
<1>3. t[1].market = m /\ t[2].market = m
    OBVIOUS
<1> QED
    BY <1>1, <1>2, <1>3 DEF Quoter!Apart

\* The legs a pass is to send: of markets it does not hold, one a side.
LEMMA FundedApart ==
    ASSUME Quoter!QuoterAssumption, NEW H, NEW books \in [QuotedMarkets \ H -> Quoter!Book],
           NEW F \in SUBSET (QuotedMarkets \ H), NEW ranked \in Quoter!SetToSeqs(F), NEW headroom
    PROVE  LET legs == Quoter!Funded(ranked, books, headroom)
           IN  /\ legs \in Seq(Quoter!Quotes)
               /\ \A i \in 1 .. Len(legs) : legs[i].market \notin H
               /\ \A i, j \in 1 .. Len(legs) : i # j => Quoter!Apart(legs[i], legs[j])
<1> DEFINE N == Quoter!Cardinality(F)
           last == Quoter!Min({MaxMarkets, Len(ranked)})
           V == [spent : Int, legs : Seq(Quoter!Quotes)]
           start == [spent |-> 0, legs |-> <<>>]
           Funds(n, x) == Quoter!Fund(x, Quoter!Pair(ranked[n], books[ranked[n]]), headroom)
           step == [n \in 1 .. last |-> [x \in V |-> Funds(n, x)]]
<1>1. N \in Nat
    <2>1. IsFiniteSet(F)
        BY FS_Subset, QuoterSets DEF Quoter!QuoterAssumption
    <2> QED BY <2>1, QuoterSets, FS_CardinalityType
<1>2. /\ ranked \in [1 .. N -> F]
      /\ \A i, j \in 1 .. N : i # j => ranked[i] # ranked[j]
    BY Zenon DEF Quoter!SetToSeqs, N
<1> HIDE DEF N
<1>3. Len(ranked) = N
    BY <1>1, <1>2
<1>4. last \in Nat /\ last <= N
    <2>1. MaxMarkets \in Nat /\ Len(ranked) \in Nat /\ MaxMarkets \in Int /\ Len(ranked) \in Int
        BY <1>1, <1>3 DEF Quoter!QuoterAssumption
    <2> DEFINE most == Len(ranked)
    <2>3. most \in Int
        BY <2>1
    <2>4. last = Quoter!Min({MaxMarkets, most})
        BY Zenon
    <2> HIDE DEF most
    <2>5. Quoter!Min({MaxMarkets, most}) \in {MaxMarkets, most}
          /\ Quoter!Min({MaxMarkets, most}) <= most
        BY <2>1, <2>3, LeastOfTwo
    <2>2. last \in {MaxMarkets, Len(ranked)} /\ last <= Len(ranked)
        BY <2>4, <2>5 DEF most
    <2> HIDE DEF last
    <2> QED BY <1>3, <2>1, <2>2
<1> HIDE DEF last
<1>5. ASSUME NEW n \in 1 .. last, NEW x \in V
      PROVE  /\ Funds(n, x) \in V
             /\ Funds(n, x) = x \/ Funds(n, x).legs = x.legs \o Quoter!Pair(ranked[n], books[ranked[n]])
    <2>1. ranked[n] \in QuotedMarkets /\ books[ranked[n]] \in Quoter!Book
        BY <1>1, <1>2, <1>4
    <2> QED BY <2>1, FundAdds, SMTT(60)
<1> HIDE DEF Funds
<1>6. start \in V
    OBVIOUS
<1>7. step \in [1 .. last -> [V -> V]] /\ \A n \in 1 .. last, x \in V : step[n][x] = Funds(n, x)
    <2> HIDE DEF V
    <2> QED BY <1>5
<1> HIDE DEF step
<1>8. PICK f \in [0 .. last -> V] : Unrolls(f, start, step, last)
    <2> HIDE DEF V, start
    <2> QED BY <1>4, <1>6, <1>7, FiniteRecursion
<1> DEFINE G(h) == [n \in 0 .. last |-> IF n = 0 THEN start ELSE Funds(n, h[n - 1])]
           funded == CHOOSE h : h = G(h)
<1>9. f = G(f)
    <2>1. ASSUME NEW n \in 0 .. last PROVE f[n] = G(f)[n]
        <3>1. CASE n = 0
            <4> HIDE DEF start
            <4> QED BY <1>8, <3>1 DEF Unrolls
        <3>2. CASE n # 0
            <4>1. n \in 1 .. last /\ f[n - 1] \in V
                BY <1>4, <3>2
            <4> HIDE DEF V, start
            <4> QED BY <1>7, <1>8, <3>2, <4>1 DEF Unrolls
        <3> QED BY <3>1, <3>2
    <2>2. DOMAIN f = 0 .. last
        OBVIOUS
    <2> HIDE DEF V, start
    <2> QED BY <2>1, <2>2
<1>10. funded = G(funded)
    <2> HIDE DEF G
    <2> QED BY <1>9, Zenon
<1>11. Quoter!Funded(ranked, books, headroom) = funded[last].legs
    BY Zenon DEF Quoter!Funded, Funds, last
<1> HIDE DEF funded
<1>12. /\ funded[0] = start
       /\ \A n \in 1 .. last : funded[n] = Funds(n, funded[n - 1])
    <2> HIDE DEF start
    <2>1. funded[0] = start
        BY <1>4, <1>10
    <2>2. ASSUME NEW n \in 1 .. last PROVE funded[n] = Funds(n, funded[n - 1])
        <3>1. n \in 0 .. last /\ n # 0
            BY <1>4
        <3> QED BY <1>10, <3>1
    <2> QED BY <2>1, <2>2
<1> HIDE DEF G
<1> DEFINE Good(n) ==
        /\ funded[n] \in V
        /\ \A i \in 1 .. Len(funded[n].legs) : \E k \in 1 .. n : funded[n].legs[i].market = ranked[k]
        /\ \A i, j \in 1 .. Len(funded[n].legs) :
              i # j => Quoter!Apart(funded[n].legs[i], funded[n].legs[j])
           Goods == {n \in Nat : n <= last => Good(n)}
<1>13. 0 \in Goods
    <2>1. funded[0].legs = <<>> /\ 1 .. Len(funded[0].legs) = {}
        BY <1>12
    <2>2. funded[0] \in V
        BY <1>6, <1>12, Zenon
    <2> HIDE DEF V
    <2> QED BY <2>1, <2>2
<1>14. ASSUME NEW n \in Nat, Good(n), n + 1 <= last PROVE Good(n + 1)
    <2> DEFINE m == ranked[n + 1]
               pair == Quoter!Pair(m, books[m])
               s == funded[n].legs
               t == funded[n + 1].legs
    <2>1. n + 1 \in 1 .. last /\ n + 1 \in 1 .. N /\ m \in QuotedMarkets /\ books[m] \in Quoter!Book
        BY <1>1, <1>2, <1>4, <1>14
    <2>2. funded[n] \in V /\ funded[n + 1] = Funds(n + 1, funded[n])
        BY <1>12, <1>14, <2>1
    <2>3. funded[n + 1] \in V /\ (funded[n + 1] = funded[n] \/ t = s \o pair)
        BY <1>5, <2>1, <2>2
    <2>4. CASE funded[n + 1] = funded[n]
        <3>1. 1 .. n \subseteq 1 .. (n + 1)
            OBVIOUS
        <3> QED BY <1>14, <2>3, <2>4, <3>1
    <2>5. CASE t = s \o pair
        <3>1. /\ pair \in Seq(Quoter!Quotes) /\ Len(pair) = 2
              /\ \A i \in 1 .. 2 : pair[i].market = m
              /\ pair[1].side # pair[2].side
            BY <2>1, Legs
        <3>2. s \in Seq(Quoter!Quotes)
            BY <2>2
        <3> DEFINE k == n + 1
        <3>3. \A i \in 1 .. Len(s) : s[i].market # m
            <4> SUFFICES ASSUME NEW i \in 1 .. Len(s) PROVE s[i].market # m
                OBVIOUS
            <4>1. PICK l \in 1 .. n : s[i].market = ranked[l]
                BY <1>14
            <4>2. l \in 1 .. N /\ l # n + 1
                BY <1>1, <1>4, <2>1
            <4> QED BY <1>2, <2>1, <4>1, <4>2
        <3>4. \A i, j \in 1 .. Len(s) : i # j => Quoter!Apart(s[i], s[j])
            BY <1>14
        <3> HIDE DEF pair, s, m
        <3>5. \A i, j \in 1 .. Len(s \o pair) : i # j => Quoter!Apart((s \o pair)[i], (s \o pair)[j])
            BY <3>1, <3>2, <3>3, <3>4, AppendApart
        <3>6. ASSUME NEW i \in 1 .. Len(s \o pair)
              PROVE  \E l \in 1 .. (n + 1) : (s \o pair)[i].market = ranked[l]
            <4>1. CASE i \in 1 .. Len(s)
                <5>1. (s \o pair)[i] = s[i]
                    BY <3>1, <3>2, <4>1
                <5>2. PICK l \in 1 .. n : s[i].market = ranked[l]
                    BY <1>14, <4>1 DEF s
                <5>3. l \in 1 .. (n + 1)
                    OBVIOUS
                <5> QED BY <5>1, <5>2, <5>3
            <4>2. CASE i \notin 1 .. Len(s)
                <5>1. /\ i = Len(s) + 1 \/ i = Len(s) + 2
                      /\ (s \o pair)[Len(s) + 1] = pair[1] /\ (s \o pair)[Len(s) + 2] = pair[2]
                    <6>1. /\ Len(s) \in Nat /\ Len(s \o pair) = Len(s) + 2
                          /\ (s \o pair)[Len(s) + 1] = pair[1] /\ (s \o pair)[Len(s) + 2] = pair[2]
                        BY <3>1, <3>2, TwoMore
                    <6> QED BY <4>2, <6>1
                <5>2. (s \o pair)[i].market = m
                    BY <3>1, <5>1
                <5>5. n + 1 \in 1 .. (n + 1)
                    OBVIOUS
                <5> QED BY <5>2, <5>5 DEF m
            <4> QED BY <4>1, <4>2
        <3> HIDE DEF V
        <3> QED BY <2>3, <2>5, <3>5, <3>6
    <2> HIDE DEF Good
    <2> QED BY <2>3, <2>4, <2>5
<1>15. Good(last)
    <2> HIDE DEF Good
    <2>1. \A n \in Nat : n \in Goods => n + 1 \in Goods
        BY <1>4, <1>14
    <2> HIDE DEF Goods
    <2>2. last \in Goods
        BY <1>4, <1>13, <2>1, NatSetInduction
    <2> QED BY <1>4, <2>2 DEF Goods
<1>16. ASSUME NEW i \in 1 .. Len(funded[last].legs) PROVE funded[last].legs[i].market \notin H
    <2>1. PICK k \in 1 .. last : funded[last].legs[i].market = ranked[k]
        BY <1>15
    <2>2. ranked[k] \in F
        BY <1>1, <1>2, <1>4
    <2> QED BY <2>1, <2>2
<1> QED
    BY <1>11, <1>15, <1>16

LEMMA QuoterInitial ==
    ASSUME Quoter!Init
    PROVE  Quoter!TypeOK /\ Quoter!QuoterInv
<1> USE DEF Quoter!Init, Quoter!Idle
<1>1. Quoter!TypeOK
    BY DEF Quoter!TypeOK
<1>2. Quoter!QuoterInv
    BY DEF Quoter!QuoterInv, Quoter!QuotesAccounted, Quoter!OneQuotePerSide, Quoter!LoggedBeforeSent
<1> QED
    BY <1>1, <1>2

\* The pass, by where it is.
LEMMA PassKinds ==
    ASSUME Quoter!TypeOK
    PROVE  /\ pass.pc = "reconcile" =>
                 pass \in [pc : {"reconcile"}, todo : SUBSET Quoter!Quotes, kept : SUBSET Quoter!Quotes]
           /\ pass.pc = "leg" => pass \in [pc : {"leg"}, legs : Seq(Quoter!Quotes)]
           /\ pass.pc = "send" => pass \in [pc : {"send"}, order : Quoter!Quotes, legs : Seq(Quoter!Quotes)]
           /\ Quoter!Idle.pc = "idle"
BY DEF Quoter!TypeOK, Quoter!Idle

\* The first leg, of today, and the others.
LEMMA NextLeg ==
    ASSUME NEW legs \in Seq(Quoter!Quotes), legs # <<>>, NEW d \in Nat
    PROVE  LET o == [Head(legs) EXCEPT !.day = d]
           IN  /\ o \in Quoter!Quotes /\ o.market = legs[1].market /\ o.side = legs[1].side
               /\ Tail(legs) \in Seq(Quoter!Quotes)
               /\ Len(legs) \in Nat /\ 1 \in 1 .. Len(legs) /\ Len(Tail(legs)) = Len(legs) - 1
               /\ \A i \in 1 .. Len(Tail(legs)) : i + 1 \in 1 .. Len(legs) /\ Tail(legs)[i] = legs[i + 1]
<1>1. /\ Len(legs) \in Nat /\ 1 \in 1 .. Len(legs) /\ Len(Tail(legs)) = Len(legs) - 1
      /\ Tail(legs) \in Seq(Quoter!Quotes) /\ Head(legs) = legs[1] /\ legs[1] \in Quoter!Quotes
    OBVIOUS
<1>2. \A i \in 1 .. Len(Tail(legs)) : i + 1 \in 1 .. Len(legs) /\ Tail(legs)[i] = legs[i + 1]
    BY <1>1
<1> DEFINE q == legs[1]
           o == [q EXCEPT !.day = d]
<1>3. q \in [market : QuotedMarkets, side : {"bid", "ask"}, price : Int, count : Int, day : Int]
    BY <1>1 DEF Quoter!Quotes
<1>4. d \in Int
    OBVIOUS
<1> HIDE DEF q
<1>5. o \in Quoter!Quotes /\ o.market = q.market /\ o.side = q.side
    BY <1>3, <1>4 DEF Quoter!Quotes
<1> QED
    BY <1>1, <1>2, <1>5 DEF q

\* What is selected is fit to send.
LEMMA SelectedApart ==
    ASSUME Quoter!QuoterAssumption, Quoter!TypeOK, Quoter!Select
    PROVE  \E legs \in Seq(Quoter!Quotes) :
              /\ pass' = [pc |-> "leg", legs |-> legs]
              /\ \A i \in 1 .. Len(legs) : \A o \in pass.kept : legs[i].market # o.market
              /\ \A i, j \in 1 .. Len(legs) : i # j => Quoter!Apart(legs[i], legs[j])
<1> DEFINE held == {o.market : o \in pass.kept}
           headroom == Capital - Quoter!MapThenSumSet(Quoter!Counted, pass.kept)
           fundable(books) == {m \in DOMAIN books : Quoter!Fundable(books[m])}
<1>0. PICK books \in [QuotedMarkets \ held -> Quoter!Book] :
          \E ranked \in Quoter!SetToSeqs(fundable(books)) :
              pass' = [pc |-> "leg", legs |-> Quoter!Funded(ranked, books, headroom)]
    BY Zenon DEF Quoter!Select
<1>1. PICK ranked \in Quoter!SetToSeqs(fundable(books)) :
          pass' = [pc |-> "leg", legs |-> Quoter!Funded(ranked, books, headroom)]
    BY <1>0
<1> HIDE DEF headroom
<1>2. fundable(books) \in SUBSET (QuotedMarkets \ held)
    OBVIOUS
<1> DEFINE legs == Quoter!Funded(ranked, books, headroom)
<1>3. /\ legs \in Seq(Quoter!Quotes)
      /\ \A i \in 1 .. Len(legs) : legs[i].market \notin held
      /\ \A i, j \in 1 .. Len(legs) : i # j => Quoter!Apart(legs[i], legs[j])
    <2> HIDE DEF held, fundable
    <2> QED BY <1>2, FundedApart
<1> HIDE DEF legs
<1>4. \A i \in 1 .. Len(legs) : \A o \in pass.kept : legs[i].market # o.market
    BY <1>3
<1>5. pass' = [pc |-> "leg", legs |-> legs]
    BY <1>1 DEF legs
<1> HIDE DEF held
<1> QED
    BY <1>3, <1>4, <1>5

LEMMA QuoterTypes ==
    ASSUME Quoter!QuoterAssumption, Quoter!TypeOK, [Quoter!Next]_(Quoter!quoterVars)
    PROVE  Quoter!TypeOK'
<1> USE DEF Quoter!TypeOK
<1>1. CASE Quoter!Begin
    BY <1>1 DEF Quoter!Begin, Quoter!Idle
<1>2. CASE Quoter!Reconcile
    <2>1. PICK o \in pass.todo, b \in Quoter!Book :
              LET left == [pass EXCEPT !.todo = @ \ {o}] IN
              /\ pass' = left \/ pass' = [left EXCEPT !.kept = @ \cup {o}]
              /\ resting' = resting \/ resting' = resting \ {o}
        BY <1>2 DEF Quoter!Reconcile
    <2>2. /\ pass \in [pc : {"reconcile"}, todo : SUBSET Quoter!Quotes, kept : SUBSET Quoter!Quotes]
          /\ UNCHANGED <<seen, quoteLog, quoteKill, passes, quoteDay>>
        BY <1>2, PassKinds DEF Quoter!Reconcile
    <2> DEFINE left == [pass EXCEPT !.todo = @ \ {o}]
    <2>3. left \in [pc : {"reconcile"}, todo : SUBSET Quoter!Quotes, kept : SUBSET Quoter!Quotes]
        BY <2>2
    <2>4. o \in Quoter!Quotes
        BY <2>2
    <2>5. pass' = left \/ pass' = [left EXCEPT !.kept = @ \cup {o}]
        BY <2>1
    <2> HIDE DEF left
    <2>6. pass' \in [pc : {"reconcile"}, todo : SUBSET Quoter!Quotes, kept : SUBSET Quoter!Quotes]
        BY <2>3, <2>4, <2>5
    <2> QED BY <2>1, <2>2, <2>6
<1>3. CASE Quoter!Select
    <2>1. PICK legs \in Seq(Quoter!Quotes) : pass' = [pc |-> "leg", legs |-> legs]
        BY <1>3, SelectedApart
    <2> QED BY <1>3, <2>1 DEF Quoter!Select
<1>4. CASE Quoter!Intend
    <2> DEFINE o == [Head(pass.legs) EXCEPT !.day = quoteDay]
    <2>1. pass.legs \in Seq(Quoter!Quotes) /\ pass.legs # <<>>
        BY <1>4, PassKinds DEF Quoter!Intend
    <2>2. o \in Quoter!Quotes /\ Tail(pass.legs) \in Seq(Quoter!Quotes)
        BY <2>1, NextLeg
    <2>3. /\ quoteLog' = quoteLog \cup {o}
          /\ pass' = Quoter!Idle \/ pass' = [pc |-> "send", order |-> o, legs |-> Tail(pass.legs)]
          /\ UNCHANGED <<resting, seen, quoteKill, passes, quoteDay>>
        BY <1>4 DEF Quoter!Intend
    <2> HIDE DEF o
    <2> QED BY <2>2, <2>3, SMTT(60)
<1>5. CASE Quoter!SendOk
    BY <1>5, PassKinds DEF Quoter!SendOk, Quoter!Accept
<1>6. CASE Quoter!SendError
    BY <1>6, PassKinds DEF Quoter!SendError, Quoter!Accept
<1>7. CASE Quoter!End
    BY <1>7 DEF Quoter!End
<1>8. CASE Quoter!CancelAll
    BY <1>8 DEF Quoter!CancelAll
<1>9. CASE Quoter!Fill
    BY <1>9 DEF Quoter!Fill
<1>10. CASE Quoter!Trip
    BY <1>10 DEF Quoter!Trip
<1>11. CASE Quoter!NextDay
    BY <1>11 DEF Quoter!NextDay
<1>12. CASE UNCHANGED Quoter!quoterVars
    BY <1>12 DEF Quoter!quoterVars
<1> QED
    BY <1>1, <1>2, <1>3, <1>4, <1>5, <1>6, <1>7, <1>8, <1>9, <1>10, <1>11, <1>12 DEF Quoter!Next

\* Fewer orders rest, the pass is over or goes on as it was.
LEMMA FewerRest ==
    ASSUME Quoter!QuoterInv, resting' \subseteq resting, pass' = pass, UNCHANGED <<seen, quoteLog>>
    PROVE  Quoter!QuoterInv'
BY DEF Quoter!QuoterInv, Quoter!QuotesAccounted, Quoter!OneQuotePerSide, Quoter!LoggedBeforeSent

LEMMA QuoterKept ==
    ASSUME Quoter!QuoterAssumption, ~ReadsFail, Quoter!TypeOK, Quoter!QuoterInv,
           [Quoter!Next]_(Quoter!quoterVars)
    PROVE  Quoter!QuoterInv'
<1> DEFINE Fits(legs, rest) == \A i \in 1 .. Len(legs) :
                                  /\ \A j \in 1 .. Len(legs) : i # j => Quoter!Apart(legs[i], legs[j])
                                  /\ \A o \in rest : Quoter!Apart(legs[i], o)
<1>0. Quoter!OneQuotePerSide /\ seen \subseteq quoteLog
    BY DEF Quoter!QuoterInv, Quoter!QuotesAccounted, Quoter!LoggedBeforeSent
<1>a. ASSUME pass' = Quoter!Idle, resting' \subseteq resting, seen' \subseteq quoteLog'
      PROVE  Quoter!QuoterInv'
    BY <1>0, <1>a, PassKinds
       DEF Quoter!QuoterInv, Quoter!QuotesAccounted, Quoter!LoggedBeforeSent, Quoter!OneQuotePerSide,
           Quoter!Idle
<1>b. ASSUME pass.pc = "send", Quoter!Accept(pass.order), UNCHANGED quoteLog
      PROVE  /\ Quoter!OneQuotePerSide' /\ seen' \subseteq quoteLog'
             /\ resting' = resting \cup {pass.order}
             /\ \A o \in resting : Quoter!Apart(pass.order, o)
    BY <1>0, <1>b DEF Quoter!Accept, Quoter!QuoterInv, Quoter!OneQuotePerSide, Quoter!Apart
<1>1. CASE Quoter!Begin
    BY <1>0, <1>1 DEF Quoter!Begin, Quoter!QuoterInv, Quoter!QuotesAccounted, Quoter!LoggedBeforeSent,
                      Quoter!OneQuotePerSide
<1>2. CASE Quoter!Reconcile
    <2>1. PICK o \in pass.todo, b \in Quoter!Book :
              LET left == [pass EXCEPT !.todo = @ \ {o}] IN
              \/ pass' = left /\ resting' = resting \ {o}
              \/ pass' = [left EXCEPT !.kept = @ \cup {o}] /\ resting' \subseteq resting
        BY <1>2 DEF Quoter!Reconcile
    <2>2. /\ pass \in [pc : {"reconcile"}, todo : SUBSET Quoter!Quotes, kept : SUBSET Quoter!Quotes]
          /\ UNCHANGED <<seen, quoteLog>>
          /\ resting \subseteq pass.todo \cup pass.kept
        BY <1>2, PassKinds DEF Quoter!Reconcile, Quoter!QuoterInv
    <2> DEFINE left == [pass EXCEPT !.todo = @ \ {o}]
    <2>3. /\ left \in [pc : {"reconcile"}, todo : SUBSET Quoter!Quotes, kept : SUBSET Quoter!Quotes]
          /\ left.todo = pass.todo \ {o} /\ left.kept = pass.kept
        BY <2>2
    <2>4. \/ pass' = left /\ resting' = resting \ {o}
          \/ pass' = [left EXCEPT !.kept = @ \cup {o}] /\ resting' \subseteq resting
        BY <2>1
    <2> HIDE DEF left
    <2>5. pass'.pc = "reconcile" /\ resting' \subseteq resting
          /\ resting' \subseteq pass'.todo \cup pass'.kept
        BY <2>2, <2>3, <2>4
    <2> QED
        BY <1>0, <2>2, <2>5 DEF Quoter!QuoterInv, Quoter!QuotesAccounted, Quoter!LoggedBeforeSent,
                                Quoter!OneQuotePerSide
<1>3. CASE Quoter!Select
    <2>1. PICK legs \in Seq(Quoter!Quotes) :
              /\ pass' = [pc |-> "leg", legs |-> legs]
              /\ \A i \in 1 .. Len(legs) : \A o \in pass.kept : legs[i].market # o.market
              /\ \A i, j \in 1 .. Len(legs) : i # j => Quoter!Apart(legs[i], legs[j])
        BY <1>3, SelectedApart
    <2>2. resting \subseteq pass.kept /\ UNCHANGED <<resting, seen, quoteLog>>
        BY <1>3 DEF Quoter!Select, Quoter!QuoterInv
    <2>3. Fits(legs, resting)
        BY <2>1, <2>2 DEF Quoter!Apart
    <2>4. pass'.pc = "leg" /\ pass'.legs = legs
        BY <2>1
    <2>5. Quoter!OneQuotePerSide' /\ seen' \subseteq quoteLog' /\ resting' = resting
        BY <1>0, <2>2 DEF Quoter!OneQuotePerSide
    <2> QED
        BY <2>3, <2>4, <2>5 DEF Quoter!QuoterInv, Quoter!QuotesAccounted, Quoter!LoggedBeforeSent
<1>4. CASE Quoter!Intend
    <2> DEFINE o == [Head(pass.legs) EXCEPT !.day = quoteDay]
               left == Tail(pass.legs)
    <2>1. /\ pass.pc = "leg" /\ pass.legs \in Seq(Quoter!Quotes) /\ pass.legs # <<>>
          /\ quoteDay \in Nat
        BY <1>4, PassKinds DEF Quoter!Intend, Quoter!TypeOK
    <2>2. /\ o.market = pass.legs[1].market /\ o.side = pass.legs[1].side
          /\ Len(pass.legs) \in Nat /\ 1 \in 1 .. Len(pass.legs) /\ Len(left) = Len(pass.legs) - 1
          /\ \A i \in 1 .. Len(left) : i + 1 \in 1 .. Len(pass.legs) /\ left[i] = pass.legs[i + 1]
        BY <2>1, NextLeg
    <2>3. /\ quoteLog' = quoteLog \cup {o}
          /\ pass' = Quoter!Idle \/ pass' = [pc |-> "send", order |-> o, legs |-> left]
          /\ UNCHANGED <<resting, seen>>
        BY <1>4 DEF Quoter!Intend
    <2> HIDE DEF o, left
    <2>4. CASE pass' = Quoter!Idle
        BY <1>0, <1>a, <2>3, <2>4
    <2>5. CASE pass' = [pc |-> "send", order |-> o, legs |-> left]
        <3>1. pass'.pc = "send" /\ pass'.order = o /\ pass'.legs = left
            BY <2>5
        <3>2. Fits(pass.legs, resting)
            BY <2>1 DEF Quoter!QuoterInv
        <3>3. Fits(left, resting)
            BY <2>2, <3>2, SMTT(60)
        <3>4. /\ \A i \in 1 .. Len(left) : Quoter!Apart(o, left[i])
              /\ \A r \in resting : Quoter!Apart(o, r)
            <4>1. \A i \in 1 .. Len(left) : i + 1 \in 1 .. Len(pass.legs) /\ i + 1 # 1
                BY <2>2
            <4> QED BY <2>2, <3>2, <4>1 DEF Quoter!Apart
        <3>5. Quoter!OneQuotePerSide' /\ seen' \subseteq quoteLog' /\ resting' = resting /\ o \in quoteLog'
            BY <1>0, <2>3 DEF Quoter!OneQuotePerSide
        <3> QED
            BY <3>1, <3>3, <3>4, <3>5 DEF Quoter!QuoterInv, Quoter!QuotesAccounted, Quoter!LoggedBeforeSent
    <2> QED BY <2>3, <2>4, <2>5
<1>5. CASE Quoter!SendOk
    <2>1. /\ pass.pc = "send" /\ Quoter!Accept(pass.order) /\ UNCHANGED quoteLog
          /\ pass' = [pc |-> "leg", legs |-> pass.legs]
        BY <1>5 DEF Quoter!SendOk
    <2>2. /\ Quoter!OneQuotePerSide' /\ seen' \subseteq quoteLog'
          /\ resting' = resting \cup {pass.order}
        BY <1>b, <2>1
    <2>3. pass'.pc = "leg" /\ pass'.legs = pass.legs
        BY <2>1
    <2>4. Fits(pass.legs, resting) /\ \A i \in 1 .. Len(pass.legs) : Quoter!Apart(pass.order, pass.legs[i])
        BY <2>1 DEF Quoter!QuoterInv
    <2>5. Fits(pass.legs, resting')
        BY <2>2, <2>4 DEF Quoter!Apart
    <2> QED
        BY <2>2, <2>3, <2>5 DEF Quoter!QuoterInv, Quoter!QuotesAccounted, Quoter!LoggedBeforeSent
<1>6. CASE Quoter!SendError
    <2>1. pass.pc = "send" /\ pass' = Quoter!Idle /\ UNCHANGED quoteLog
        BY <1>6 DEF Quoter!SendError
    <2>2. CASE Quoter!Accept(pass.order)
        <3>1. Quoter!OneQuotePerSide' /\ seen' \subseteq quoteLog'
            BY <1>b, <2>1, <2>2
        <3> QED
            BY <2>1, <3>1 DEF Quoter!QuoterInv, Quoter!QuotesAccounted, Quoter!LoggedBeforeSent, Quoter!Idle
    <2>3. CASE UNCHANGED <<resting, seen>>
        BY <1>0, <1>a, <2>1, <2>3
    <2> QED BY <1>6, <2>2, <2>3 DEF Quoter!SendError
<1>7. CASE Quoter!End
    BY <1>0, <1>7, <1>a DEF Quoter!End
<1>8. CASE Quoter!CancelAll
    BY <1>8, FewerRest DEF Quoter!CancelAll
<1>9. CASE Quoter!Fill
    BY <1>9, FewerRest DEF Quoter!Fill
<1>10. CASE Quoter!Trip
    BY <1>10, FewerRest DEF Quoter!Trip
<1>11. CASE Quoter!NextDay
    BY <1>11, FewerRest DEF Quoter!NextDay
<1>12. CASE UNCHANGED Quoter!quoterVars
    BY <1>12, FewerRest DEF Quoter!quoterVars
<1> QED
    BY <1>1, <1>2, <1>3, <1>4, <1>5, <1>6, <1>7, <1>8, <1>9, <1>10, <1>11, <1>12 DEF Quoter!Next

\* The exchange never rests two quotes for one side of a market, and never an
\* order that the log does not hold, wherever a pass dies, whichever answers are
\* lost and whichever cancels fail: as long as a pass that cannot read the
\* resting orders does not go on.
THEOREM QuotesAreAccounted ==
    ASSUME Quoter!QuoterAssumption, ~ReadsFail
    PROVE  Quoter!Spec => []Quoter!QuotesAccounted
<1>1. Quoter!Init => Quoter!TypeOK /\ Quoter!QuoterInv
    BY QuoterInitial
<1>2. Quoter!TypeOK /\ Quoter!QuoterInv /\ [Quoter!Next]_(Quoter!quoterVars)
          => Quoter!TypeOK' /\ Quoter!QuoterInv'
    BY QuoterTypes, QuoterKept
<1>3. Quoter!QuoterInv => Quoter!QuotesAccounted
    BY DEF Quoter!QuoterInv
<1> QED
    BY <1>1, <1>2, <1>3, PTL DEF Quoter!Spec

-----------------------------------------------------------------------------
(* The weekly watch.                                                       *)

CONSTANTS Assets, Metals, Coins, Readings, MinIntervals, Half, ShareMove, CarryMove, MaxWeek
VARIABLES listed, funding, mark, told, report, week

Watch == INSTANCE PerpsWatch

LEMMA WatchInitial ==
    ASSUME Watch!WatchAssumption, Watch!Init
    PROVE  Watch!TypeOK /\ Watch!WatchInv
<1> USE DEF Watch!Init, Watch!NoReport
<1>1. Watch!TypeOK
    BY DEF Watch!TypeOK
<1>2. /\ \A c \in Coins : told.coins[c] = 0
      /\ mark.listings = {} /\ told.live = {} /\ ~report.ran
      /\ \A a \in Assets : ~Watch!Known(mark.funding[a])
    BY DEF Watch!Known
<1> QED
    BY <1>1, <1>2 DEF Watch!WatchInv, Watch!WatchTells

\* What is marked and what is heard keep their types.
LEMMA Remembered ==
    ASSUME Watch!TypeOK
    PROVE  /\ Watch!Changed \in SUBSET Assets /\ Watch!NewListings \in SUBSET (Metals \cup Coins)
           /\ Watch!Marked \in [listings : SUBSET (Metals \cup Coins),
                                funding : [Assets -> Readings \cup {Watch!NoReading}]]
           /\ Watch!Heard(Watch!NewListings, Watch!Changed)
                 \in [live : SUBSET Assets, coins : [Coins -> Nat], lost : SUBSET (Assets \cup Metals \cup Coins)]
<1> USE DEF Watch!TypeOK
<1>1. Watch!Changed \in SUBSET Assets /\ Watch!NewListings \in SUBSET (Metals \cup Coins)
    BY DEF Watch!Changed, Watch!Readable, Watch!NewListings
<1>2. [a \in Assets |-> IF a \in Watch!Readable THEN funding[a] ELSE mark.funding[a]]
          \in [Assets -> Readings \cup {Watch!NoReading}]
    OBVIOUS
<1>3. mark.listings \cup listed \in SUBSET (Metals \cup Coins)
    OBVIOUS
<1>4. told.coins \in [Coins -> Nat]
    OBVIOUS
<1>5. [c \in Coins |-> IF c \in Watch!NewListings THEN told.coins[c] + 1 ELSE told.coins[c]] \in [Coins -> Nat]
    BY <1>4
<1>6. told.lost \ Watch!Changed \in SUBSET (Assets \cup Metals \cup Coins)
    OBVIOUS
<1>7. Watch!Marked \in [listings : SUBSET (Metals \cup Coins),
                        funding : [Assets -> Readings \cup {Watch!NoReading}]]
    BY <1>2, <1>3 DEF Watch!Marked
<1>8. Watch!Heard(Watch!NewListings, Watch!Changed)
          \in [live : SUBSET Assets, coins : [Coins -> Nat], lost : SUBSET (Assets \cup Metals \cup Coins)]
    BY <1>5, <1>6 DEF Watch!Heard
<1> QED
    BY <1>1, <1>7, <1>8

LEMMA WatchTypes ==
    ASSUME Watch!TypeOK, [Watch!Next]_(Watch!watchVars)
    PROVE  Watch!TypeOK'
<1> USE DEF Watch!TypeOK
<1> DEFINE Reports == [ran : BOOLEAN, listings : SUBSET (Metals \cup Coins), changes : SUBSET Assets,
                       quiet : BOOLEAN]
           Tolds == [live : SUBSET Assets, coins : [Coins -> Nat], lost : SUBSET (Assets \cup Metals \cup Coins)]
<1>0. Watch!NoReport \in Reports /\ [Watch!NoReport EXCEPT !.quiet = FALSE] \in Reports
    BY DEF Watch!NoReport
<1>1. CASE Watch!Run
    <2>1. PICK drifted \in BOOLEAN, cut \in BOOLEAN :
              LET notable == Watch!NewListings # {} \/ Watch!Changed # {} \/ drifted IN
              /\ mark' = IF notable THEN Watch!Marked ELSE mark
              /\ told' = IF cut THEN [told EXCEPT !.lost = @ \cup Watch!Changed \cup Watch!NewListings]
                         ELSE Watch!Heard(Watch!NewListings, Watch!Changed)
              /\ report' = IF cut THEN [Watch!NoReport EXCEPT !.quiet = FALSE]
                           ELSE [ran |-> TRUE, listings |-> Watch!NewListings, changes |-> Watch!Changed,
                                 quiet |-> ~notable]
        BY <1>1, Zenon DEF Watch!Run
    <2>2. week' \in Nat /\ UNCHANGED <<listed, funding>>
        BY <1>1 DEF Watch!Run
    <2>3. [told EXCEPT !.lost = @ \cup Watch!Changed \cup Watch!NewListings] \in Tolds
        BY Remembered
    <2>4. told' \in Tolds
        BY <2>1, <2>3, Remembered
    <2>5. mark' \in [listings : SUBSET (Metals \cup Coins),
                     funding : [Assets -> Readings \cup {Watch!NoReading}]]
        BY <2>1, Remembered
    <2>6. report' \in Reports
        BY <1>0, <2>1, Remembered
    <2> QED BY <2>2, <2>4, <2>5, <2>6
<1>2. CASE Watch!Unreachable
    BY <1>0, <1>2 DEF Watch!Unreachable
<1>3. CASE Watch!Market
    <2>1. /\ report' = Watch!NoReport /\ listed' \in SUBSET (Metals \cup Coins)
          /\ UNCHANGED <<mark, told, week>>
        BY <1>3 DEF Watch!Market
    <2>2. funding' \in [Assets -> Readings \cup {Watch!NoReading}]
        BY <1>3 DEF Watch!Market
    <2> QED BY <1>0, <2>1, <2>2
<1>4. CASE UNCHANGED Watch!watchVars
    BY <1>4 DEF Watch!watchVars
<1> QED
    BY <1>1, <1>2, <1>3, <1>4 DEF Watch!Next

\* A run that the owner reads to its end.
LEMMA WatchRuns ==
    ASSUME Watch!WatchAssumption, Watch!TypeOK, Watch!WatchInv,
           mark' = Watch!Marked \/ (mark' = mark /\ Watch!NewListings = {} /\ Watch!Changed = {}),
           told' = Watch!Heard(Watch!NewListings, Watch!Changed),
           UNCHANGED <<listed, funding>>
    PROVE  Watch!WatchInv'
<1> USE DEF Watch!TypeOK
<1>1. /\ told'.lost = told.lost \ Watch!Changed
      /\ \A c \in Coins : told'.coins[c] = IF c \in Watch!NewListings THEN told.coins[c] + 1 ELSE told.coins[c]
      /\ \A a \in Assets : a \in told'.live <=> IF a \in Watch!Changed THEN ~Watch!Quiet(funding[a])
                                                ELSE a \in told.live
    BY DEF Watch!Heard
<1>2. /\ \A c \in Coins : c \in Watch!NewListings <=> c \in listed /\ c \notin mark.listings
      /\ \A c \in Coins : c \in mark'.listings <=> c \in mark.listings \/ c \in listed
    <2>1. \A c \in Coins : c \in Watch!NewListings <=> c \in listed /\ c \notin mark.listings
        BY DEF Watch!NewListings, Watch!WatchAssumption
    <2>2. CASE mark' = Watch!Marked
        BY <2>1, <2>2 DEF Watch!Marked
    <2>3. CASE mark' = mark /\ Watch!NewListings = {} /\ Watch!Changed = {}
        BY <2>1, <2>3
    <2> QED BY <2>1, <2>2, <2>3
<1>3. Watch!Changed \cap Coins = {}
    BY Remembered DEF Watch!WatchAssumption
<1>4. \A c \in Coins : told.coins[c] \in Nat
    OBVIOUS
<1>5. \A c \in Coins : told'.coins[c] = 0 \/ (c \in mark'.listings /\ told'.coins[c] = 1)
    BY <1>1, <1>2, <1>4 DEF Watch!WatchInv
<1>6. \A c \in (Coins \cap mark'.listings) \ told'.lost : told'.coins[c] = 1
    BY <1>1, <1>2, <1>3, <1>4 DEF Watch!WatchInv
<1>7. \A a \in Watch!Readable : Watch!Known(funding[a])
    BY DEF Watch!Readable, Watch!Known, Watch!NoReading, Watch!WatchAssumption
<1>8. ASSUME NEW a \in Assets, a \notin Watch!Changed, a \in Watch!Readable
      PROVE  (Watch!Known(mark.funding[a]) /\ ~Watch!Quiet(mark.funding[a])) <=> ~Watch!Quiet(funding[a])
    BY <1>8 DEF Watch!Changed, Watch!FundingChanged
<1>9. ASSUME NEW a \in Assets \ told'.lost
      PROVE  /\ a \in told'.live <=> Watch!Known(mark'.funding[a]) /\ ~Watch!Quiet(mark'.funding[a])
             /\ a \in Watch!Readable => (a \in told'.live <=> ~Watch!Quiet(funding[a]))
    <2>1. CASE a \in Watch!Changed
        <3>1. a \in Watch!Readable /\ mark'.funding[a] = funding[a]
            BY <2>1 DEF Watch!Changed, Watch!Marked
        <3> QED BY <1>1, <1>7, <2>1, <3>1
    <2>2. CASE a \notin Watch!Changed
        <3>1. a \notin told.lost /\ (a \in told'.live <=> a \in told.live)
            BY <1>1, <2>2
        <3>2. a \in told.live <=> Watch!Known(mark.funding[a]) /\ ~Watch!Quiet(mark.funding[a])
            BY <3>1 DEF Watch!WatchInv
        <3>3. mark'.funding[a] = mark.funding[a]
              \/ (a \in Watch!Readable /\ mark'.funding[a] = funding[a])
            BY DEF Watch!Marked
        <3> QED BY <1>7, <1>8, <2>2, <3>1, <3>2, <3>3
    <2> QED BY <2>1, <2>2
<1>10. Watch!Readable' = Watch!Readable
    BY DEF Watch!Readable
<1>11. Watch!WatchTells'
    <2>1. \A c \in Coins : told'.coins[c] <= 1
        BY <1>5
    <2>2. \A c \in (Coins \cap listed) \ told'.lost : told'.coins[c] = 1
        BY <1>2, <1>6
    <2>3. \A a \in Watch!Readable \ told'.lost : (a \in told'.live) = ~Watch!Quiet(funding[a])
        BY <1>9 DEF Watch!Readable
    <2> QED BY <1>10, <2>1, <2>2, <2>3 DEF Watch!WatchTells
<1> QED
    BY <1>5, <1>6, <1>9, <1>11 DEF Watch!WatchInv

\* A run that saved its mark and whose findings nobody read.
LEMMA WatchLoses ==
    ASSUME Watch!WatchAssumption, Watch!TypeOK, Watch!WatchInv,
           mark' = Watch!Marked,
           told' = [told EXCEPT !.lost = @ \cup Watch!Changed \cup Watch!NewListings],
           ~report'.ran
    PROVE  Watch!WatchInv'
<1> USE DEF Watch!TypeOK
<1>1. /\ told'.lost = told.lost \cup Watch!Changed \cup Watch!NewListings
      /\ told'.coins = told.coins /\ told'.live = told.live
    OBVIOUS
<1>2. mark'.listings = mark.listings \cup listed
    BY DEF Watch!Marked
<1>3. \A c \in Coins \cap listed : c \in mark.listings \/ c \in Watch!NewListings
    BY DEF Watch!NewListings
<1>4. \A c \in Coins : told'.coins[c] = 0 \/ (c \in mark'.listings /\ told'.coins[c] = 1)
    BY <1>1, <1>2 DEF Watch!WatchInv
<1>5. \A c \in (Coins \cap mark'.listings) \ told'.lost : told'.coins[c] = 1
    BY <1>1, <1>2, <1>3 DEF Watch!WatchInv
<1>6. \A a \in Watch!Readable : Watch!Known(funding[a])
    BY DEF Watch!Readable, Watch!Known, Watch!NoReading, Watch!WatchAssumption
<1>7. ASSUME NEW a \in Assets \ told'.lost
      PROVE  a \in told'.live <=> Watch!Known(mark'.funding[a]) /\ ~Watch!Quiet(mark'.funding[a])
    <2>1. a \in told.live <=> Watch!Known(mark.funding[a]) /\ ~Watch!Quiet(mark.funding[a])
        BY <1>1 DEF Watch!WatchInv
    <2>2. a \notin Watch!Changed
        BY <1>1
    <2>3. CASE a \in Watch!Readable
        <3>1. mark'.funding[a] = funding[a]
            BY <2>3 DEF Watch!Marked
        <3>2. (Watch!Known(mark.funding[a]) /\ ~Watch!Quiet(mark.funding[a])) <=> ~Watch!Quiet(funding[a])
            BY <2>2, <2>3 DEF Watch!Changed, Watch!FundingChanged
        <3> QED BY <1>1, <1>6, <2>1, <2>3, <3>1, <3>2
    <2>4. CASE a \notin Watch!Readable
        <3>1. mark'.funding[a] = mark.funding[a]
            BY <2>4 DEF Watch!Marked
        <3> QED BY <1>1, <2>1, <3>1
    <2> QED BY <2>3, <2>4
<1>8. Watch!WatchTells'
    BY <1>1, <1>4 DEF Watch!WatchTells
<1> QED
    BY <1>4, <1>5, <1>7, <1>8 DEF Watch!WatchInv

LEMMA WatchKept ==
    ASSUME Watch!WatchAssumption, Watch!TypeOK, Watch!WatchInv, [Watch!Next]_(Watch!watchVars)
    PROVE  Watch!WatchInv'
<1>1. CASE Watch!Run
    <2>1. PICK drifted \in BOOLEAN, cut \in BOOLEAN :
              LET notable == Watch!NewListings # {} \/ Watch!Changed # {} \/ drifted IN
              /\ cut => notable
              /\ mark' = IF notable THEN Watch!Marked ELSE mark
              /\ told' = IF cut THEN [told EXCEPT !.lost = @ \cup Watch!Changed \cup Watch!NewListings]
                         ELSE Watch!Heard(Watch!NewListings, Watch!Changed)
              /\ report' = IF cut THEN [Watch!NoReport EXCEPT !.quiet = FALSE]
                           ELSE [ran |-> TRUE, listings |-> Watch!NewListings, changes |-> Watch!Changed,
                                 quiet |-> ~notable]
        BY <1>1, Zenon DEF Watch!Run
    <2>2. UNCHANGED <<listed, funding>>
        BY <1>1 DEF Watch!Run
    <2>3. CASE cut
        <3>1. mark' = Watch!Marked
            BY <2>1, <2>3
        <3>2. told' = [told EXCEPT !.lost = @ \cup Watch!Changed \cup Watch!NewListings]
            BY <2>1, <2>3
        <3>3. ~report'.ran
            BY <2>1, <2>3 DEF Watch!NoReport
        <3> QED BY <3>1, <3>2, <3>3, WatchLoses
    <2>4. CASE ~cut
        <3>1. mark' = Watch!Marked \/ (mark' = mark /\ Watch!NewListings = {} /\ Watch!Changed = {})
            BY <2>1
        <3>2. told' = Watch!Heard(Watch!NewListings, Watch!Changed)
            BY <2>1, <2>4
        <3> QED BY <2>2, <3>1, <3>2, WatchRuns
    <2> QED BY <2>3, <2>4
<1>2. CASE Watch!Unreachable
    BY <1>2 DEF Watch!Unreachable, Watch!WatchInv, Watch!WatchTells, Watch!NoReport
<1>3. CASE Watch!Market
    BY <1>3 DEF Watch!Market, Watch!WatchInv, Watch!WatchTells, Watch!NoReport
<1>4. CASE UNCHANGED Watch!watchVars
    BY <1>4 DEF Watch!watchVars, Watch!WatchInv, Watch!WatchTells, Watch!Readable
<1> QED
    BY <1>1, <1>2, <1>3, <1>4 DEF Watch!Next

\* The owner is told of every listed coin once, and knows of every asset with
\* enough history whether it charges, over silent weeks, thin histories, weeks
\* without the venue and saves for another finding.
THEOREM WatchIsHeard ==
    ASSUME Watch!WatchAssumption
    PROVE  Watch!Spec => []Watch!WatchTells
<1>1. Watch!Init => Watch!TypeOK /\ Watch!WatchInv
    BY WatchInitial
<1>2. Watch!TypeOK /\ Watch!WatchInv /\ [Watch!Next]_(Watch!watchVars) => Watch!TypeOK' /\ Watch!WatchInv'
    BY WatchTypes, WatchKept
<1>3. Watch!WatchInv => Watch!WatchTells
    BY DEF Watch!WatchInv
<1> QED
    BY <1>1, <1>2, <1>3, PTL DEF Watch!Spec

-----------------------------------------------------------------------------
(* The paper book of the incentive program.                                *)

CONSTANTS PaperMarkets, Slots, Rates, MaxInterval, MinHours, StaleHours, Window, GoRate, BoardRate, MaxHour
VARIABLES hour, paper

Paper == INSTANCE IncentivePaper

LEMMA PaperSums ==
    ASSUME NEW f
    PROVE  Paper!SumFunction(f) = SumFunctionOnSet(f, DOMAIN f)
<1>1. Paper!SumFunctionOnSet(f, DOMAIN f) = SumFunctionOnSet(f, DOMAIN f)
    BY Zenon DEF Paper!SumFunctionOnSet, SumFunctionOnSet, Paper!FoldFunctionOnSet, FoldFunctionOnSet,
                 Paper!MapThenFoldSet, MapThenFoldSet
<1> QED BY <1>1 DEF Paper!SumFunction

Rows == [at : Nat, earned : Int, span : 0 .. MaxInterval]

LEMMA PaperFinite ==
    ASSUME Paper!PaperAssumption, NEW S \in SUBSET PaperMarkets
    PROVE  IsFiniteSet(S)
<1>1. IsFiniteSet(PaperMarkets)
    BY Zenon DEF Paper!PaperAssumption, Paper!IsFiniteSet, IsFiniteSet
<1> QED
    BY <1>1, FS_Subset

\* The rows of a window are finitely many, and none spans more than the cap.
LEMMA SpanBounded ==
    ASSUME Paper!PaperAssumption, NEW rows \in Seq(Rows), NEW hours, NEW now
    PROVE  LET in == Paper!Recent(rows, hours, now)
               span == Paper!Trailing(rows, hours, now).span
           IN  span \in Nat /\ Cardinality(in) \in Nat /\ span <= MaxInterval * Cardinality(in)
<1> DEFINE in == Paper!Recent(rows, hours, now)
           f == [i \in in |-> rows[i].span]
           span == Paper!Trailing(rows, hours, now).span
<1>1. in \subseteq 1 .. Len(rows) /\ Len(rows) \in Nat
    BY DEF Paper!Recent
<1>2. IsFiniteSet(in) /\ Cardinality(in) \in Nat
    <2> HIDE DEF in
    <2>1. IsFiniteSet(1 .. Len(rows))
        BY <1>1, FS_Interval
    <2>2. IsFiniteSet(in)
        BY <1>1, <2>1, FS_Subset
    <2> QED BY <2>2, FS_CardinalityType
<1>3. \A i \in 1 .. Len(rows) : rows[i] \in Rows
    OBVIOUS
<1>4. \A i \in in : f[i] \in 0 .. MaxInterval
    BY <1>1, <1>3 DEF Rows
<1>5. span = Paper!SumFunction(f)
    BY DEF Paper!Trailing
<1>6. Paper!SumFunction(f) = SumFunctionOnSet(f, DOMAIN f) /\ DOMAIN f = in
    BY PaperSums
<1> HIDE DEF f, span, in
<1>7. SumFunctionOnSet(f, in) \in Nat /\ SumFunctionOnSet(f, in) <= MaxInterval * Cardinality(in)
    BY <1>2, <1>4, SumBounded DEF Paper!PaperAssumption
<1> QED
    BY <1>2, <1>5, <1>6, <1>7 DEF span, in

\* A GO rests on a window that was watched.
LEMMA GoWatched ==
    ASSUME Paper!PaperAssumption, NEW rows \in Seq(Rows), NEW started, NEW now,
           Paper!Verdict(rows, started, now) = "GO"
    PROVE  2 * MaxInterval * Paper!Cardinality(Paper!Recent(rows, Window, now)) >= Window
<1> DEFINE short == Paper!Trailing(rows, Window, now)
           in == Paper!Recent(rows, Window, now)
           n == Cardinality(in)
<1>1. Paper!Trusted(short, Window)
    BY DEF Paper!Verdict
<1>2. 2 * short.span >= Window
    BY <1>1 DEF Paper!Trusted
<1>3. short.span \in Nat /\ n \in Nat /\ short.span <= MaxInterval * n
    BY SpanBounded
<1>4. Paper!Cardinality(in) = n
    BY Zenon DEF Paper!Cardinality, Cardinality
<1> HIDE DEF short, in, n
<1>5. MaxInterval \in Nat /\ Window \in Nat
    BY DEF Paper!PaperAssumption
<1>6. 2 * MaxInterval * n = 2 * (MaxInterval * n) /\ MaxInterval * n \in Nat
    BY <1>3, <1>5
<1>7. 2 * MaxInterval * n >= Window
    BY <1>2, <1>3, <1>5, <1>6
<1> QED
    BY <1>4, <1>7 DEF in

\* What a tick bills and stores.
LEMMA TickTypes ==
    ASSUME Paper!PaperAssumption, Paper!TypeOK, Paper!Tick
    PROVE  Paper!TypeOK' /\ Paper!PaperInv'
<1> USE DEF Paper!TypeOK
<1>0. hour \in Nat /\ paper.last < hour /\ paper.last \in Nat /\ hour' = hour
    BY DEF Paper!Tick
<1>1. PICK kept \in SUBSET paper.held, rate \in [PaperMarkets -> Rates] :
          LET span == Paper!Interval(paper.last)
              earned == span * Paper!SumFunction([m \in kept |-> rate[m]])
              started == IF paper.started = 0 THEN hour ELSE paper.started
              rows == Append(paper.rows, [at |-> hour, earned |-> earned, span |-> span])
          IN \E bought \in Paper!Refills(kept, rate) :
                paper' = [held |-> kept \cup bought, started |-> started, last |-> hour,
                          accrued |-> paper.accrued + earned, rows |-> rows,
                          verdict |-> Paper!Verdict(rows, started, hour)]
    BY Zenon DEF Paper!Tick
<1> DEFINE span == Paper!Interval(paper.last)
           earned == span * Paper!SumFunction([m \in kept |-> rate[m]])
           started == IF paper.started = 0 THEN hour ELSE paper.started
           row == [at |-> hour, earned |-> earned, span |-> span]
           rows == Append(paper.rows, row)
<1>2. PICK bought \in Paper!Refills(kept, rate) :
          paper' = [held |-> kept \cup bought, started |-> started, last |-> hour,
                    accrued |-> paper.accrued + earned, rows |-> rows,
                    verdict |-> Paper!Verdict(rows, started, hour)]
    BY <1>1
<1>3. bought \in SUBSET PaperMarkets
    <2>1. PICK pool \in SUBSET {m \in PaperMarkets \ kept : rate[m] > 0} : bought \in SUBSET pool
        BY Zenon DEF Paper!Refills, Paper!kSubset
    <2> QED BY <2>1
<1>4. span \in 0 .. MaxInterval
    <2>1. MaxInterval \in Nat /\ hour - paper.last \in Nat
        BY <1>0 DEF Paper!PaperAssumption
    <2> DEFINE gap == hour - paper.last
               least == Paper!Min({gap, MaxInterval})
               P(x) == x \in {gap, MaxInterval} /\ \A y \in {gap, MaxInterval} : x <= y
    <2>2. gap \in Nat
        BY <2>1
    <2> HIDE DEF gap
    <2>3. \E x : P(x)
        <3>1. CASE gap <= MaxInterval
            <4>1. P(gap)
                BY <2>1, <2>2, <3>1
            <4> QED BY <4>1
        <3>2. CASE ~(gap <= MaxInterval)
            <4>1. P(MaxInterval)
                BY <2>1, <2>2, <3>2
            <4> QED BY <4>1
        <3> QED BY <3>1, <3>2
    <2>4. least = CHOOSE x : P(x)
        BY Zenon DEF Paper!Min
    <2> HIDE DEF P, least
    <2>5. P(least)
        BY <2>3, <2>4, Zenon
    <2>6. least \in 0 .. MaxInterval
        BY <2>1, <2>2, <2>5 DEF P
    <2> QED BY <2>1, <2>6 DEF Paper!Interval, least, gap
<1>5. Paper!SumFunction([m \in kept |-> rate[m]]) \in Int
    <2> DEFINE f == [m \in kept |-> rate[m]]
    <2>1. kept \in SUBSET PaperMarkets
        OBVIOUS
    <2>2. IsFiniteSet(kept) /\ DOMAIN f = kept /\ \A m \in kept : f[m] \in Int
        BY <2>1, PaperFinite DEF Paper!PaperAssumption
    <2> HIDE DEF f
    <2>3. Paper!SumFunction(f) \in Int
        BY <2>2, PaperSums, SumInt
    <2> QED BY <2>3 DEF f
<1>6. earned \in Int /\ started \in Nat
    <2>1. span \in Int
        BY <1>4 DEF Paper!PaperAssumption
    <2> HIDE DEF span
    <2>2. earned \in Int
        BY <1>5, <2>1
    <2> QED BY <2>2
<1> HIDE DEF span, earned, started
<1>7. row \in Rows
    BY <1>0, <1>4, <1>6 DEF Rows
<1> HIDE DEF row
<1>8. rows \in Seq(Rows) /\ paper.accrued + earned \in Int
    <2>1. paper.rows \in Seq(Rows)
        BY DEF Rows
    <2> QED BY <1>6, <1>7, <2>1
<1> HIDE DEF rows
<1>9. Paper!Verdict(rows, started, hour) \in Paper!Codes
    BY DEF Paper!Verdict, Paper!Codes
<1>10. kept \cup bought \in SUBSET PaperMarkets
    BY <1>3
<1>11. /\ paper' \in [held : SUBSET PaperMarkets, started : Nat, last : Nat, accrued : Int,
                      rows : Seq(Rows), verdict : Paper!Codes]
       /\ paper'.rows = rows /\ paper'.started = started /\ paper'.last = hour
       /\ paper'.verdict = Paper!Verdict(rows, started, hour)
    BY <1>0, <1>2, <1>6, <1>8, <1>9, <1>10
<1>12. Paper!PaperInv'
    BY <1>0, <1>11 DEF Paper!PaperInv
<1> QED
    BY <1>0, <1>11, <1>12 DEF Rows

\* A GO is never given on a window that was not watched, whatever the markets
\* pay, however many hours are dropped and however long the book runs.
THEOREM GoIsWatched ==
    ASSUME Paper!PaperAssumption
    PROVE  Paper!Spec => []Paper!GoIsMeasured
<1>1. Paper!Init => Paper!TypeOK /\ Paper!PaperInv
    <2> SUFFICES ASSUME Paper!Init PROVE Paper!TypeOK /\ Paper!PaperInv
        OBVIOUS
    <2>1. Paper!Verdict(<<>>, 0, 0) = "INSUFFICIENT"
        BY DEF Paper!Verdict
    <2> QED BY <2>1 DEF Paper!Init, Paper!TypeOK, Paper!PaperInv, Paper!Codes
<1>2. Paper!TypeOK /\ Paper!PaperInv /\ [Paper!Next]_(Paper!paperVars) => Paper!TypeOK' /\ Paper!PaperInv'
    <2>1. ASSUME Paper!TypeOK, Paper!PaperInv, Paper!NextHour PROVE Paper!TypeOK' /\ Paper!PaperInv'
        BY <2>1 DEF Paper!NextHour, Paper!TypeOK, Paper!PaperInv
    <2>2. ASSUME Paper!TypeOK, Paper!PaperInv, UNCHANGED Paper!paperVars
          PROVE  Paper!TypeOK' /\ Paper!PaperInv'
        BY <2>2 DEF Paper!paperVars, Paper!TypeOK, Paper!PaperInv
    <2> QED BY <2>1, <2>2, TickTypes DEF Paper!Next
<1>3. Paper!TypeOK /\ Paper!PaperInv => Paper!GoIsMeasured
    <2> SUFFICES ASSUME Paper!TypeOK, Paper!PaperInv, paper.verdict = "GO" PROVE Paper!GoIsMeasured
        BY DEF Paper!GoIsMeasured
    <2>1. paper.rows \in Seq(Rows) /\ Paper!Verdict(paper.rows, paper.started, paper.last) = "GO"
        BY DEF Paper!TypeOK, Paper!PaperInv, Rows
    <2> QED BY <2>1, GoWatched DEF Paper!GoIsMeasured
<1> QED
    BY <1>1, <1>2, <1>3, PTL DEF Paper!Spec

-----------------------------------------------------------------------------
(* The perps backtester.                                                   *)

CONSTANTS Crypto, NewBars, Asked, MaxDay, Bankroll, Band, Every, MaxGross, MaxAsset, Distance, Maint,
          Side, Penalty, Apy, Soft, Kill, MaxStale, FirstPrice
VARIABLES day, bar, age, fresh, equity, units, pending, peak, killed, killPending, liquidated, cash,
          slipped, ended

Backtest == INSTANCE PerpsBacktest

LEMMA BacktestSums ==
    ASSUME Backtest!PanelAssumption, NEW f, DOMAIN f = Assets
    PROVE  Backtest!Total(f) = SumFunctionOnSet(f, Assets) /\ IsFiniteSet(Assets)
<1>1. Backtest!SumFunctionOnSet(f, DOMAIN f) = SumFunctionOnSet(f, DOMAIN f)
    BY Zenon DEF Backtest!SumFunctionOnSet, SumFunctionOnSet, Backtest!FoldFunctionOnSet, FoldFunctionOnSet,
                 Backtest!MapThenFoldSet, MapThenFoldSet
<1>2. IsFiniteSet(Assets)
    BY Zenon DEF Backtest!PanelAssumption, Backtest!IsFiniteSet, IsFiniteSet
<1> QED BY <1>1, <1>2 DEF Backtest!Total, Backtest!SumFunction

\* What a position loses from the day's worst point to the close is at least
\* what its margin grows.
LEMMA MarginGrows ==
    ASSUME NEW u \in Int, NEW l \in Nat, NEW c \in Nat, NEW h \in Nat, NEW m \in 1 .. 100,
           l <= c, c <= h
    PROVE  LET adverse == IF u > 0 THEN l ELSE IF u < 0 THEN h ELSE c
               n == IF u < 0 THEN -u ELSE u
           IN  n * c * m <= n * adverse * m + 100 * (u * (c - adverse))
<1>1. CASE u > 0
    <2> DEFINE d == u * (c - l)
    <2>1. d \in Nat /\ d = u * c - u * l
        BY <1>1
    <2>2. d * m <= 100 * d
        BY <2>1, ProductLess
    <2>3. d * m = u * c * m - u * l * m
        BY <2>1
    <2> QED BY <1>1, <2>1, <2>2, <2>3
<1>2. CASE u < 0
    <2> DEFINE n == -u
               d == n * (h - c)
    <2>1. n \in Nat /\ d \in Nat /\ d = n * h - n * c /\ u * (c - h) = d
        BY <1>2
    <2>2. d * m \in Nat
        BY <2>1
    <2>3. d * m = n * h * m - n * c * m
        BY <2>1
    <2> QED BY <1>2, <2>1, <2>2, <2>3
<1>3. CASE u = 0
    BY <1>3
<1> QED BY <1>1, <1>2, <1>3

\* The fee to leave and the day's funding are within the margin.
LEMMA MarginCovers ==
    ASSUME NEW u \in Int, NEW c \in Nat, NEW m \in Int, NEW s \in Int, NEW r \in Int,
           s + r <= m, s - r <= m
    PROVE  LET n == IF u < 0 THEN -u ELSE u IN n * c * s + u * c * r <= n * c * m
<1>1. CASE u < 0
    <2> DEFINE k == (-u) * c
    <2>1. k \in Nat /\ u * c * r = -(k * r)
        BY <1>1
    <2>2. k * (s - r) <= k * m /\ k * (s - r) = k * s - k * r
        BY <2>1, ProductLess
    <2> QED BY <1>1, <2>1, <2>2
<1>2. CASE u >= 0
    <2> DEFINE k == u * c
    <2>1. k \in Nat
        BY <1>2
    <2>2. k * (s + r) <= k * m /\ k * (s + r) = k * s + k * r
        BY <2>1, ProductLess
    <2> QED BY <1>2, <2>1, <2>2
<1> QED BY <1>1, <1>2

LEMMA TotalInt ==
    ASSUME Backtest!PanelAssumption, NEW f, DOMAIN f = Assets, \A a \in Assets : f[a] \in Int
    PROVE  Backtest!Total(f) \in Int
BY BacktestSums, SumInt

LEMMA Magnitudes ==
    ASSUME NEW x \in Int
    PROVE  /\ Backtest!Abs(x) \in Nat /\ Backtest!Sgn(x) \in Int
           /\ \A y \in Int : Backtest!Least(x, y) \in Int /\ Backtest!Most(x, y) \in Int
           /\ Backtest!Abs(x) = IF x < 0 THEN -x ELSE x
BY DEF Backtest!Abs, Backtest!Sgn, Backtest!Least, Backtest!Most

LEMMA Limits ==
    ASSUME Backtest!LimitAssumption
    PROVE  /\ Asked \subseteq [Assets -> Int] /\ Rates \subseteq Int
           /\ Bankroll \in Nat \ {0} /\ Every \in Nat \ {0}
           /\ Band \in Nat /\ MaxGross \in Nat /\ MaxAsset \in Nat /\ Distance \in Nat /\ Penalty \in Nat
           /\ Apy \in Nat /\ Soft \in Nat /\ Kill \in Nat /\ MaxStale \in Nat
           /\ \A a \in Assets : Maint[a] \in 1 .. 100 /\ Side[a] \in Nat
BY DEF Backtest!LimitAssumption

\* cap_weights gives weights.
LEMMA CappedType ==
    ASSUME Backtest!PanelAssumption, Backtest!LimitAssumption, NEW w \in [Assets -> Int]
    PROVE  Backtest!Capped(w) \in [Assets -> Int]
<1> DEFINE c(a) == Backtest!Most(-Backtest!CapShort(a), Backtest!Least(w[a], Backtest!CapLong(a)))
           f == [a \in Assets |-> Backtest!Abs(c(a))]
           gross == Backtest!Total(f)
<1>1. \A a \in Assets : Backtest!CapLong(a) \in Int /\ Backtest!CapShort(a) \in Int
    <2> SUFFICES ASSUME NEW a \in Assets
                 PROVE  Backtest!CapLong(a) \in Int /\ Backtest!CapShort(a) \in Int
        OBVIOUS
    <2>1. Maint[a] \in 1 .. 100 /\ Distance \in Nat /\ MaxAsset \in Nat
        BY Limits
    <2> DEFINE up == Distance * (100 - Maint[a])
               down == Distance * (100 + Maint[a])
    <2>2. up \in Nat /\ down \in Nat
        BY <2>1
    <2>3. up \div 100 \in Nat /\ down \div 100 \in Nat
        BY <2>2
    <2>6. /\ Backtest!CapLong(a) = Backtest!Least(MaxAsset, 10000 \div (Maint[a] + (up \div 100)))
          /\ Backtest!CapShort(a) = Backtest!Least(MaxAsset, 10000 \div (Maint[a] + (down \div 100)))
        <3>1. Backtest!CapLong(a) = Backtest!Least(MaxAsset, 10000 \div (Maint[a] + (up \div 100)))
            BY DEF Backtest!CapLong
        <3>2. Backtest!CapShort(a) = Backtest!Least(MaxAsset, 10000 \div (Maint[a] + (down \div 100)))
            BY DEF Backtest!CapShort
        <3> QED BY <3>1, <3>2
    <2> HIDE DEF up, down
    <2>4. Maint[a] + (up \div 100) \in Nat \ {0} /\ Maint[a] + (down \div 100) \in Nat \ {0}
        BY <2>1, <2>3
    <2>5. 10000 \div (Maint[a] + (up \div 100)) \in Int /\ 10000 \div (Maint[a] + (down \div 100)) \in Int
        BY <2>4, Quotient
    <2> QED BY <2>1, <2>5, <2>6, Magnitudes
<1>2. \A a \in Assets : c(a) \in Int
    BY <1>1, Magnitudes
<1> HIDE DEF c
<1>3. \A a \in Assets : f[a] \in Int
    BY <1>2, Magnitudes
<1>4. gross \in Int
    BY <1>3, TotalInt
<1> HIDE DEF gross
<1>5. \A a \in Assets : gross > MaxGross =>
          Backtest!Sgn(c(a)) * ((Backtest!Abs(c(a)) * MaxGross) \div gross) \in Int
    <2> SUFFICES ASSUME NEW a \in Assets, gross > MaxGross
                 PROVE  Backtest!Sgn(c(a)) * ((Backtest!Abs(c(a)) * MaxGross) \div gross) \in Int
        OBVIOUS
    <2>1. gross \in Nat \ {0} /\ MaxGross \in Nat
        BY <1>4, Limits
    <2>2. Backtest!Abs(c(a)) * MaxGross \in Int /\ Backtest!Sgn(c(a)) \in Int
        BY <1>2, <2>1, Magnitudes
    <2>3. (Backtest!Abs(c(a)) * MaxGross) \div gross \in Int
        BY <2>1, <2>2, Quotient
    <2> QED BY <2>2, <2>3
<1>6. Backtest!Capped(w) = [a \in Assets |-> IF gross > MaxGross
                              THEN Backtest!Sgn(c(a)) * ((Backtest!Abs(c(a)) * MaxGross) \div gross)
                              ELSE c(a)]
    BY Zenon DEF Backtest!Capped, gross, c
<1> QED BY <1>2, <1>5, <1>6

\* Contracts are whole, and what is wanted without a bar is no more than what is held.
LEMMA LotsWithin ==
    ASSUME NEW u \in Int, NEW o \in Nat \ {0}, NEW e \in Nat \ {0}, NEW w \in Int,
           Backtest!Abs(w) <= Backtest!Abs(Backtest!Sgn(u) * ((Backtest!Abs(u) * o * 100) \div e))
    PROVE  Backtest!Abs(Backtest!Lots(w, e, o)) <= Backtest!Abs(u)
<1> DEFINE n == Backtest!Abs(u)
           q == (n * o * 100) \div e
           v == Backtest!Abs(w)
           k == (v * e) \div (100 * o)
<1>1. n \in Nat /\ v \in Nat /\ n * o * 100 \in Nat /\ 100 * o \in Nat \ {0}
    <2>1. n \in Nat /\ v \in Nat
        BY Magnitudes
    <2> HIDE DEF n, v
    <2>2. n * o \in Nat
        BY <2>1
    <2> QED BY <2>1, <2>2
<1>2. q \in Nat /\ e * q <= n * o * 100
    <2>1. q \in Int /\ e * q <= n * o * 100
        BY <1>1, Quotient
    <2>2. q >= 0
        BY <1>1
    <2> QED BY <2>1, <2>2
<1>3. v <= q
    <2>1. Backtest!Abs(Backtest!Sgn(u) * q) <= q
        <3> HIDE DEF q
        <3> QED BY <1>2 DEF Backtest!Abs, Backtest!Sgn
    <2>2. Backtest!Abs(Backtest!Sgn(u) * q) \in Int
        <3> HIDE DEF q
        <3> QED BY <1>2 DEF Backtest!Abs, Backtest!Sgn
    <2> QED BY <1>1, <1>2, <2>1, <2>2
<1>4. v * e <= (100 * o) * n /\ v * e \in Nat
    <2>1. v * e <= q * e
        BY <1>1, <1>2, <1>3, ProductLess
    <2> QED BY <1>1, <1>2, <2>1
<1>5. k \in 0 .. n
    BY <1>1, <1>4, QuotientNat
<1>6. Backtest!Lots(w, e, o) = Backtest!Sgn(w) * k
    BY DEF Backtest!Lots
<1> HIDE DEF k, n
<1>7. Backtest!Abs(Backtest!Sgn(w) * k) <= k
    BY <1>1, <1>5 DEF Backtest!Abs, Backtest!Sgn
<1>8. Backtest!Abs(Backtest!Sgn(w) * k) \in Int
    BY <1>1, <1>5 DEF Backtest!Abs, Backtest!Sgn
<1> QED BY <1>1, <1>5, <1>6, <1>7, <1>8 DEF n

\* A rebalance leaves whole contracts, of what is wanted within the band.
LEMMA WantedType ==
    ASSUME NEW n, NEW f, NEW u \in [Assets -> Int], NEW b \in [Assets -> Backtest!Bars],
           NEW e \in Nat \ {0}, NEW a \in Assets, pending \in [Assets -> Int]
    PROVE  /\ Backtest!Held(u, b, e, a) \in Int /\ Backtest!Wanted(n, f, u, b, e, a) \in Int
           /\ Backtest!Lots(Backtest!Wanted(n, f, u, b, e, a), e, b[a].o) \in Int
<1>1. b[a].o \in Nat \ {0} /\ u[a] \in Int /\ pending[a] \in Int
    BY DEF Backtest!Bars
<1>2. Backtest!Held(u, b, e, a) \in Int
    <2>1. Backtest!Abs(u[a]) \in Nat /\ Backtest!Sgn(u[a]) \in Int
        BY <1>1, Magnitudes
    <2>2. Backtest!Abs(u[a]) * b[a].o * 100 \in Int
        BY <1>1, <2>1
    <2>3. (Backtest!Abs(u[a]) * b[a].o * 100) \div e \in Int
        BY <2>2, Quotient
    <2> QED BY <2>1, <2>3 DEF Backtest!Held
<1>3. Backtest!Wanted(n, f, u, b, e, a) \in Int
    <2> DEFINE tgt == (Backtest!MayQuote(n, a, pending[a]) * Backtest!Scale(e)) \div 100
    <2>1. Backtest!MayQuote(n, a, pending[a]) \in Int
        BY <1>1 DEF Backtest!MayQuote
    <2>2. Backtest!Scale(e) \in {50, 100}
        BY DEF Backtest!Scale
    <2>3. tgt \in Int
        BY <2>1, <2>2
    <2>4. Backtest!Wanted(n, f, u, b, e, a) \in {tgt, Backtest!Held(u, b, e, a), 0}
        BY DEF Backtest!Wanted
    <2> QED BY <1>2, <2>3, <2>4
<1> DEFINE w == Backtest!Wanted(n, f, u, b, e, a)
<1>4. w \in Int
    BY <1>3
<1> HIDE DEF w
<1>5. Backtest!Abs(w) * e \in Int /\ 100 * b[a].o \in Nat \ {0} /\ Backtest!Sgn(w) \in Int
    <2>1. Backtest!Abs(w) \in Nat /\ Backtest!Sgn(w) \in Int
        BY <1>4, Magnitudes
    <2> QED BY <1>1, <2>1
<1>6. (Backtest!Abs(w) * e) \div (100 * b[a].o) \in Int
    BY <1>5, Quotient
<1>7. Backtest!Lots(w, e, b[a].o) \in Int
    BY <1>5, <1>6 DEF Backtest!Lots
<1> QED BY <1>2, <1>3, <1>7 DEF w

LEMMA TradedType ==
    ASSUME NEW n, NEW f, NEW u \in [Assets -> Int], NEW b \in [Assets -> Backtest!Bars],
           NEW e \in Nat \ {0}, pending \in {Backtest!None} \cup [Assets -> Int]
    PROVE  Backtest!Traded(n, f, u, b, e) \in [Assets -> Int]
<1>1. CASE Backtest!Due(day + 1)
    <2>1. pending \in [Assets -> Int]
        BY <1>1 DEF Backtest!Due
    <2>2. \A a \in Assets : Backtest!Lots(Backtest!Wanted(n, f, u, b, e, a), e, b[a].o) \in Int
        BY <2>1, WantedType
    <2> QED BY <1>1, <2>2 DEF Backtest!Traded, Backtest!Rebalanced
<1>2. CASE ~Backtest!Due(day + 1)
    BY <1>2 DEF Backtest!Traded
<1> QED BY <1>1, <1>2

\* Without a bar a position does not grow.
LEMMA UnquotedShrinks ==
    ASSUME Backtest!LimitAssumption,
           NEW n, NEW f, NEW u \in [Assets -> Int], NEW b \in [Assets -> Backtest!Bars],
           NEW e \in Nat \ {0}, pending \in {Backtest!None} \cup [Assets -> Int],
           NEW a \in Assets, Backtest!Unquoted(f, a)
    PROVE  Backtest!Abs(Backtest!Traded(n, f, u, b, e)[a]) <= Backtest!Abs(u[a])
<1> DEFINE w == Backtest!Wanted(n, f, u, b, e, a)
           cur == Backtest!Held(u, b, e, a)
<1>0. b[a].o \in Nat \ {0} /\ u[a] \in Int /\ Backtest!Abs(u[a]) \in Nat
    BY Magnitudes DEF Backtest!Bars
<1>1. CASE Backtest!Traded(n, f, u, b, e)[a] = u[a]
    BY <1>0, <1>1
<1>2. CASE Backtest!Traded(n, f, u, b, e)[a] # u[a]
    <2>1. Backtest!Due(day + 1) /\ pending \in [Assets -> Int]
        BY <1>2 DEF Backtest!Traded, Backtest!Due
    <2>2. Backtest!Traded(n, f, u, b, e)[a] = Backtest!Lots(w, e, b[a].o)
        BY <1>2, <2>1 DEF Backtest!Traded, Backtest!Rebalanced
    <2>3. w \in Int /\ cur \in Int
        BY <2>1, WantedType
    <2> DEFINE tgt == (Backtest!MayQuote(n, a, pending[a]) * Backtest!Scale(e)) \div 100
    <2>4. tgt \in Int
        <3>1. Backtest!MayQuote(n, a, pending[a]) \in Int
            BY <2>1 DEF Backtest!MayQuote
        <3>2. Backtest!Scale(e) \in {50, 100}
            BY DEF Backtest!Scale
        <3> QED BY <3>1, <3>2
    <2>5. w \in {cur, 0} \/ (w = tgt /\ ~(Backtest!Abs(tgt) > Backtest!Abs(cur)))
        BY DEF Backtest!Wanted
    <2> HIDE DEF w, cur, tgt
    <2>6. Backtest!Abs(w) <= Backtest!Abs(cur)
        <3>1. Backtest!Abs(cur) \in Nat /\ Backtest!Abs(tgt) \in Nat /\ Backtest!Abs(0) = 0
            BY <2>3, <2>4, Magnitudes DEF Backtest!Abs
        <3> QED BY <2>5, <3>1
    <2>7. cur = Backtest!Sgn(u[a]) * ((Backtest!Abs(u[a]) * b[a].o * 100) \div e)
        BY DEF Backtest!Held, cur
    <2> QED BY <1>0, <2>2, <2>3, <2>6, <2>7, LotsWithin
<1> QED BY <1>1, <1>2

\* What is decided after the kill only closes.
LEMMA FlatCloses ==
    ASSUME NEW n, NEW f, NEW u \in [Assets -> Int], NEW b \in [Assets -> Backtest!Bars],
           NEW e \in Nat \ {0}, pending \in {Backtest!None, Backtest!Flat}, NEW a \in Assets
    PROVE  Backtest!Traded(n, f, u, b, e)[a] \in {0, u[a]}
<1>1. CASE Backtest!Due(day + 1)
    <2>1. pending[a] = 0 /\ pending \in [Assets -> Int]
        BY <1>1 DEF Backtest!Due, Backtest!Flat
    <2>2. Backtest!MayQuote(n, a, pending[a]) = 0
        BY <2>1 DEF Backtest!MayQuote
    <2>3. Backtest!Scale(e) \in {50, 100}
        BY DEF Backtest!Scale
    <2>4. (Backtest!MayQuote(n, a, pending[a]) * Backtest!Scale(e)) \div 100 = 0
        BY <2>2, <2>3
    <2>5. Backtest!Held(u, b, e, a) \in Int
        BY <2>1, WantedType
    <2>6. Backtest!Abs(Backtest!Held(u, b, e, a)) \in Nat /\ Backtest!Abs(0) = 0
        <3>1. Backtest!Abs(Backtest!Held(u, b, e, a)) \in Nat
            BY <2>5, Magnitudes
        <3>2. Backtest!Abs(0) = 0
            BY DEF Backtest!Abs
        <3> QED BY <3>1, <3>2
    <2>7. Backtest!Wanted(n, f, u, b, e, a) = 0
        BY <2>4, <2>6 DEF Backtest!Wanted
    <2>8. Backtest!Lots(0, e, b[a].o) = 0
        <3>1. b[a].o \in Nat \ {0} /\ 100 * b[a].o \in Nat \ {0}
            BY DEF Backtest!Bars
        <3>2. (0 * e) \div (100 * b[a].o) \in Int
            BY <3>1, Quotient
        <3>3. Backtest!Abs(0) = 0 /\ Backtest!Sgn(0) = 0
            BY DEF Backtest!Abs, Backtest!Sgn
        <3> QED BY <3>2, <3>3 DEF Backtest!Lots
    <2> QED BY <1>1, <2>7, <2>8 DEF Backtest!Traded, Backtest!Rebalanced
<1>2. CASE ~Backtest!Due(day + 1)
    BY <1>2 DEF Backtest!Traded
<1> QED BY <1>1, <1>2

-----------------------------------------------------------------------------
\* Sums over the assets.
LEMMA TotalThree ==
    ASSUME Backtest!PanelAssumption, NEW x, NEW y, NEW z, NEW w,
           DOMAIN x = Assets, DOMAIN y = Assets, DOMAIN z = Assets, DOMAIN w = Assets,
           \A a \in Assets : x[a] \in Int /\ y[a] \in Int /\ z[a] \in Int /\ w[a] = x[a] + y[a] + z[a]
    PROVE  Backtest!Total(w) = Backtest!Total(x) + Backtest!Total(y) + Backtest!Total(z)
<1> DEFINE v == [a \in Assets |-> x[a] + y[a]]
<1>1. \A a \in Assets : v[a] \in Int /\ v[a] = x[a] + y[a] /\ w[a] = v[a] + z[a]
    OBVIOUS
<1> HIDE DEF v
<1>2. SumFunctionOnSet(v, Assets) = SumFunctionOnSet(x, Assets) + SumFunctionOnSet(y, Assets)
    BY <1>1, SumPlus, BacktestSums
<1>3. SumFunctionOnSet(w, Assets) = SumFunctionOnSet(v, Assets) + SumFunctionOnSet(z, Assets)
    BY <1>1, SumPlus, BacktestSums
<1> QED BY <1>2, <1>3, BacktestSums

LEMMA TotalLess ==
    ASSUME Backtest!PanelAssumption, NEW x, NEW y, DOMAIN x = Assets, DOMAIN y = Assets,
           \A a \in Assets : x[a] \in Int /\ y[a] \in Int /\ x[a] <= y[a]
    PROVE  Backtest!Total(x) <= Backtest!Total(y)
BY SumLess, BacktestSums

LEMMA TotalScale ==
    ASSUME Backtest!PanelAssumption, NEW k \in Int, NEW x, NEW y, DOMAIN x = Assets, DOMAIN y = Assets,
           \A a \in Assets : x[a] \in Int /\ y[a] = k * x[a]
    PROVE  Backtest!Total(y) = k * Backtest!Total(x)
BY SumScale, BacktestSums

LEMMA TotalZero ==
    ASSUME Backtest!PanelAssumption, NEW x, DOMAIN x = Assets, \A a \in Assets : x[a] = 0
    PROVE  Backtest!Total(x) = 0
<1>1. \A a \in Assets : x[a] \in Int /\ x[a] = 0 * x[a]
    OBVIOUS
<1>2. Backtest!Total(x) = 0 * Backtest!Total(x) /\ Backtest!Total(x) \in Int
    BY <1>1, TotalScale, TotalInt
<1> QED BY <1>2

\* The exits of a day leave equity: their fee is part of what CanLeave keeps.
LEMMA ExitsPaid ==
    ASSUME Backtest!PanelAssumption, Backtest!LimitAssumption, Backtest!TypeOK, Backtest!CanLeave, ~ended,
           NEW u0 \in [Assets -> Int], NEW b \in [Assets -> Backtest!Bars],
           \A a \in Assets : u0[a] = units[a] \/ (u0[a] = 0 /\ b[a] = bar[a])
    PROVE  equity - Backtest!FeeOf([a \in Assets |-> Backtest!Abs(units[a] - u0[a]) * b[a].c]) \in Nat \ {0}
<1> DEFINE d == [a \in Assets |-> Backtest!Abs(units[a] - u0[a]) * b[a].c]
           f == [a \in Assets |-> (d[a] * Side[a]) \div 100]
           g == [a \in Assets |-> 100 * f[a]]
           s == [a \in Assets |-> Backtest!Abs(units[a]) * bar[a].c * Side[a]]
<1>1. \A a \in Assets : f[a] \in Int /\ g[a] \in Int /\ s[a] \in Int /\ g[a] <= s[a]
    <2> SUFFICES ASSUME NEW a \in Assets
                 PROVE  f[a] \in Int /\ g[a] \in Int /\ s[a] \in Int /\ g[a] <= s[a]
        OBVIOUS
    <2>1. units[a] \in Int /\ u0[a] \in Int /\ b[a].c \in Nat /\ bar[a].c \in Nat
        BY DEF Backtest!TypeOK, Backtest!Bars
    <2>2. Side[a] \in Nat
        BY Limits
    <2>3. Backtest!Abs(units[a]) \in Nat
        BY <2>1, Magnitudes
    <2>4. s[a] \in Nat
        <3>1. Backtest!Abs(units[a]) * bar[a].c \in Nat
            BY <2>1, <2>3
        <3>2. Backtest!Abs(units[a]) * bar[a].c * Side[a] \in Nat
            BY <2>2, <3>1
        <3> QED BY <3>2
    <2>5. d[a] \in Int /\ d[a] * Side[a] <= s[a]
        <3>1. CASE u0[a] = units[a]
            <4>1. Backtest!Abs(units[a] - u0[a]) = 0
                BY <2>1, <3>1 DEF Backtest!Abs
            <4>2. d[a] = 0
                BY <2>1, <4>1
            <4> QED BY <2>2, <2>4, <4>2
        <3>2. CASE u0[a] = 0 /\ b[a] = bar[a]
            <4>1. units[a] - u0[a] = units[a]
                BY <2>1, <3>2
            <4>2. d[a] = Backtest!Abs(units[a]) * bar[a].c
                BY <3>2, <4>1
            <4>3. d[a] * Side[a] = s[a]
                BY <4>2
            <4> QED BY <2>1, <2>3, <2>4, <4>2, <4>3
        <3> QED BY <3>1, <3>2
    <2>6. d[a] * Side[a] \in Int
        BY <2>2, <2>5
    <2>7. f[a] \in Int /\ 100 * f[a] <= d[a] * Side[a]
        <3>1. (d[a] * Side[a]) \div 100 \in Int /\ 100 * ((d[a] * Side[a]) \div 100) <= d[a] * Side[a]
            BY <2>6, Quotient
        <3> QED BY <3>1
    <2>8. g[a] = 100 * f[a]
        OBVIOUS
    <2> HIDE DEF f, g, s, d
    <2> QED BY <2>4, <2>5, <2>6, <2>7, <2>8
<1>2. DOMAIN f = Assets /\ DOMAIN g = Assets /\ DOMAIN s = Assets /\ \A a \in Assets : g[a] = 100 * f[a]
    OBVIOUS
<1>3. 100 * equity > Backtest!Total(s)
    BY DEF Backtest!CanLeave
<1>4. Backtest!FeeOf(d) = Backtest!Total(f)
    BY DEF Backtest!FeeOf
<1>5. equity \in Nat
    BY DEF Backtest!TypeOK
<1> HIDE DEF d, f, g, s
<1>6. Backtest!Total(f) \in Int /\ Backtest!Total(g) \in Int /\ Backtest!Total(s) \in Int
    BY <1>1, <1>2, TotalInt
<1>7. Backtest!Total(g) = 100 * Backtest!Total(f)
    BY <1>1, <1>2, TotalScale
<1>8. Backtest!Total(g) <= Backtest!Total(s)
    BY <1>1, <1>2, TotalLess
<1>9. equity - Backtest!FeeOf(d) \in Nat \ {0}
    BY <1>3, <1>4, <1>5, <1>6, <1>7, <1>8
<1> QED BY <1>9 DEF d

\* What is at stake in one asset.
LEMMA Stakes ==
    ASSUME Backtest!LimitAssumption, Backtest!CostAssumption, NEW r \in Rates, NEW a \in Assets,
           NEW u \in [Assets -> Int], NEW b \in [Assets -> Backtest!Bars],
           b[a].l <= b[a].c, b[a].c <= b[a].h
    PROVE  LET n == Backtest!Abs(u[a])
               adverse == Backtest!Adverse(u, b, a)
           IN  /\ adverse \in Nat /\ n \in Nat /\ b[a].c \in Nat /\ u[a] \in Int
               /\ n * adverse * Maint[a] \in Int /\ n * b[a].c * Maint[a] \in Int
               /\ n * b[a].c * Side[a] \in Nat /\ u[a] * b[a].c * r \in Int
               /\ n * b[a].c * Maint[a] <= n * adverse * Maint[a] + 100 * (u[a] * (b[a].c - adverse))
               /\ n * b[a].c * Side[a] + u[a] * b[a].c * r <= n * b[a].c * Maint[a]
<1> DEFINE n == Backtest!Abs(u[a])
           v == u[a]
           l == b[a].l
           c == b[a].c
           h == b[a].h
           m == Maint[a]
           s == Side[a]
           adverse == Backtest!Adverse(u, b, a)
<1>1. v \in Int /\ l \in Nat /\ c \in Nat /\ h \in Nat
    BY DEF Backtest!Bars
<1>2. m \in 1 .. 100 /\ m \in Int /\ s \in Nat /\ s \in Int /\ r \in Int
    BY Limits
<1>3. n = IF v < 0 THEN -v ELSE v
    BY <1>1, Magnitudes
<1>4. adverse = IF v > 0 THEN l ELSE IF v < 0 THEN h ELSE c
    BY DEF Backtest!Adverse
<1>5. s + r <= m /\ s - r <= m
    BY DEF Backtest!CostAssumption
<1>6. l <= c /\ c <= h
    OBVIOUS
<1> HIDE DEF n, v, l, c, h, m, s, adverse
<1>7. n \in Nat /\ adverse \in Nat
    BY <1>1, <1>3, <1>4
<1>8. n * c * m <= n * adverse * m + 100 * (v * (c - adverse))
    BY <1>1, <1>2, <1>3, <1>4, <1>6, MarginGrows
<1>9. n * c * s + v * c * r <= n * c * m
    BY <1>1, <1>2, <1>3, <1>5, MarginCovers
<1>10. n * c \in Nat /\ n * adverse \in Nat /\ v * c \in Int
    BY <1>1, <1>7
<1>11. n * adverse * m \in Int /\ n * c * m \in Int /\ n * c * s \in Nat /\ v * c * r \in Int
    BY <1>2, <1>10
<1> QED BY <1>1, <1>7, <1>8, <1>9, <1>11 DEF n, v, c, m, s, adverse

\* Interest is never charged.
LEMMA InterestType ==
    ASSUME Backtest!PanelAssumption, Backtest!LimitAssumption,
           NEW u \in [Assets -> Int], NEW b \in [Assets -> Backtest!Bars], NEW e \in Int
    PROVE  Backtest!Interest(u, b, e) \in Nat
<1> DEFINE f == [a \in Assets |-> Backtest!Abs(u[a]) * b[a].c * Maint[a] * 13]
<1>1. \A a \in Assets : f[a] \in Int
    <2> SUFFICES ASSUME NEW a \in Assets PROVE f[a] \in Int
        OBVIOUS
    <2>1. Backtest!Abs(u[a]) \in Nat /\ b[a].c \in Nat /\ Maint[a] \in 1 .. 100
        BY Magnitudes, Limits DEF Backtest!Bars
    <2>2. Backtest!Abs(u[a]) * b[a].c \in Nat
        BY <2>1
    <2>3. Backtest!Abs(u[a]) * b[a].c * Maint[a] \in Nat
        BY <2>1, <2>2
    <2> QED BY <2>3
<1> HIDE DEF f
<1>2. DOMAIN f = Assets
    BY DEF f
<1>3. Backtest!Total(f) \in Int
    BY <1>1, <1>2, TotalInt
<1>4. Backtest!Total(f) \div 1000 \in Int
    BY <1>3, Quotient
<1>5. Backtest!Margin(u, b) = Backtest!Total(f) \div 1000
    BY DEF Backtest!Margin, f
<1>6. Backtest!Most(e - Backtest!Margin(u, b), 0) \in Nat
    BY <1>4, <1>5 DEF Backtest!Most
<1>7. Apy \in Nat
    BY Limits
<1>8. Backtest!Most(e - Backtest!Margin(u, b), 0) * Apy \in Nat
    BY <1>6, <1>7
<1>9. (Backtest!Most(e - Backtest!Margin(u, b), 0) * Apy) \div 100 \in Nat
    <2> DEFINE y == Backtest!Most(e - Backtest!Margin(u, b), 0) * Apy
    <2>1. y \in Nat
        BY <1>8
    <2> HIDE DEF y
    <2>2. y \div 100 \in Nat
        BY <2>1
    <2> QED BY <2>2 DEF y
<1> QED BY <1>9 DEF Backtest!Interest

\* A book that was not liquidated today can pay to leave tomorrow.
LEMMA StaysLeavable ==
    ASSUME Backtest!PanelAssumption, Backtest!LimitAssumption, Backtest!CostAssumption,
           Backtest!TypeOK, NEW r \in Rates, NEW e \in Int,
           NEW u \in [Assets -> Int], NEW b \in [Assets -> Backtest!Bars],
           \A a \in Assets : b[a].l <= b[a].c /\ b[a].c <= b[a].h,
           ~Backtest!Forced(u, b, e), \E a \in Assets : u[a] # 0
    PROVE  LET last == Backtest!Marked(u, b, e, FALSE) IN
           100 * (last + Backtest!Earned(u, b, r, last, FALSE))
               > Backtest!Total([a \in Assets |-> Backtest!Abs(u[a]) * b[a].c * Side[a]])
<1> DEFINE last == Backtest!Marked(u, b, e, FALSE)
           n(a) == Backtest!Abs(u[a])
           adv(a) == Backtest!Adverse(u, b, a)
           A == [a \in Assets |-> u[a] * (Backtest!Adverse(u, b, a) - bar[a].c)]
           C == [a \in Assets |-> u[a] * (b[a].c - bar[a].c)]
           D == [a \in Assets |-> u[a] * (b[a].c - Backtest!Adverse(u, b, a))]
           M == [a \in Assets |-> Backtest!Abs(u[a]) * Backtest!Adverse(u, b, a) * Maint[a]]
           F == [a \in Assets |-> u[a] * b[a].c * r]
           S == [a \in Assets |-> Backtest!Abs(u[a]) * b[a].c * Side[a]]
           H == [a \in Assets |-> 100 * D[a]]
           Z == [a \in Assets |-> 0]
           L == [a \in Assets |-> S[a] + F[a]]
           R == [a \in Assets |-> M[a] + H[a]]
<1>1. ASSUME NEW a \in Assets
      PROVE  /\ A[a] \in Int /\ C[a] \in Int /\ D[a] \in Int /\ M[a] \in Int /\ F[a] \in Int /\ S[a] \in Int
             /\ H[a] \in Int /\ L[a] \in Int /\ R[a] \in Int /\ Z[a] \in Int
             /\ C[a] = A[a] + D[a] + Z[a] /\ H[a] = 100 * D[a]
             /\ L[a] = S[a] + F[a] + Z[a] /\ R[a] = M[a] + H[a] + Z[a] /\ L[a] <= R[a]
    <2>1. bar[a].c \in Nat /\ b[a].l <= b[a].c /\ b[a].c <= b[a].h
        BY DEF Backtest!TypeOK, Backtest!Bars
    <2> DEFINE v == u[a]
               k == b[a].c
               x == adv(a)
               y == n(a)
               p == bar[a].c
               sd == y * k * Side[a]
               mt == y * x * Maint[a]
               mc == y * k * Maint[a]
               fn == v * k * r
    <2>2. /\ x \in Nat /\ y \in Nat /\ k \in Nat /\ v \in Int /\ mt \in Int /\ mc \in Int /\ sd \in Nat
          /\ fn \in Int /\ mc <= mt + 100 * (v * (k - x)) /\ sd + fn <= mc
        BY <2>1, Stakes
    <2>3. /\ A[a] = v * (x - p) /\ C[a] = v * (k - p) /\ D[a] = v * (k - x) /\ M[a] = mt /\ F[a] = fn
          /\ S[a] = sd /\ H[a] = 100 * D[a] /\ Z[a] = 0 /\ L[a] = S[a] + F[a] /\ R[a] = M[a] + H[a]
        OBVIOUS
    <2>4. p \in Nat
        BY <2>1
    <2> HIDE DEF A, C, D, M, F, S, H, Z, L, R, v, k, x, y, p, sd, mt, mc, fn
    <2>5. v * (x - p) \in Int /\ v * (k - p) \in Int /\ v * (k - x) \in Int
          /\ v * (k - p) = v * (x - p) + v * (k - x)
        BY <2>2, <2>4
    <2> QED BY <2>2, <2>3, <2>5
<1>2. /\ DOMAIN A = Assets /\ DOMAIN C = Assets /\ DOMAIN D = Assets /\ DOMAIN M = Assets
      /\ DOMAIN F = Assets /\ DOMAIN S = Assets /\ DOMAIN H = Assets /\ DOMAIN Z = Assets
      /\ DOMAIN L = Assets /\ DOMAIN R = Assets
    OBVIOUS
<1>3. last = e + Backtest!Total(C)
    BY DEF Backtest!Marked
<1>4. Backtest!Earned(u, b, r, last, FALSE) = -(Backtest!Total(F) \div 100) + Backtest!Interest(u, b, last)
    BY DEF Backtest!Earned, Backtest!Funding
<1>5. ~(100 * (e + Backtest!Total(A)) <= Backtest!Total(M))
    BY DEF Backtest!Forced, Backtest!Worst
<1>6. \A a \in Assets : Z[a] = 0
    OBVIOUS
<1> HIDE DEF A, C, D, M, F, S, H, Z, L, R, last
<1>7. /\ Backtest!Total(A) \in Int /\ Backtest!Total(C) \in Int /\ Backtest!Total(D) \in Int
      /\ Backtest!Total(M) \in Int /\ Backtest!Total(F) \in Int /\ Backtest!Total(S) \in Int
      /\ Backtest!Total(H) \in Int /\ Backtest!Total(L) \in Int /\ Backtest!Total(R) \in Int
    BY <1>1, <1>2, TotalInt
<1>8. Backtest!Total(Z) = 0
    BY <1>2, <1>6, TotalZero
<1>9. Backtest!Total(C) = Backtest!Total(A) + Backtest!Total(D) + Backtest!Total(Z)
    BY <1>1, <1>2, TotalThree
<1>10. Backtest!Total(L) = Backtest!Total(S) + Backtest!Total(F) + Backtest!Total(Z)
    BY <1>1, <1>2, TotalThree
<1>11. Backtest!Total(R) = Backtest!Total(M) + Backtest!Total(H) + Backtest!Total(Z)
    BY <1>1, <1>2, TotalThree
<1>12. Backtest!Total(H) = 100 * Backtest!Total(D)
    BY <1>1, <1>2, TotalScale
<1>13. Backtest!Total(L) <= Backtest!Total(R)
    BY <1>1, <1>2, TotalLess
<1>14. last \in Int
    BY <1>3, <1>7
<1>15. Backtest!Interest(u, b, last) \in Nat
    BY <1>14, InterestType
<1>16. Backtest!Total(F) \div 100 \in Int /\ 100 * (Backtest!Total(F) \div 100) <= Backtest!Total(F)
    BY <1>7, Quotient
<1>17. 100 * (last + Backtest!Earned(u, b, r, last, FALSE)) > Backtest!Total(S)
    <2> DEFINE g == Backtest!Total(F) \div 100
               i == Backtest!Interest(u, b, last)
               tm == Backtest!Total(M)
               th == Backtest!Total(H)
    <2>1. 100 * last > tm + th
        BY <1>3, <1>5, <1>7, <1>8, <1>9, <1>12
    <2>2. tm + th >= Backtest!Total(S) + Backtest!Total(F)
        BY <1>7, <1>8, <1>10, <1>11, <1>13
    <2>3. g \in Int /\ i \in Nat /\ 100 * g <= Backtest!Total(F)
          /\ Backtest!Earned(u, b, r, last, FALSE) = -g + i
        BY <1>4, <1>15, <1>16
    <2>4. tm \in Int /\ th \in Int
        BY <1>7
    <2> DEFINE ts == Backtest!Total(S)
               tf == Backtest!Total(F)
               got == Backtest!Earned(u, b, r, last, FALSE)
    <2>5. ts \in Int /\ tf \in Int /\ tm + th >= ts + tf /\ 100 * g <= tf /\ got = -g + i
        BY <1>7, <2>2, <2>3
    <2> HIDE DEF g, i, tm, th, ts, tf, got
    <2>6. 100 * (last + got) > ts
        BY <1>14, <2>1, <2>3, <2>4, <2>5
    <2> QED BY <2>6 DEF got, ts
<1> QED BY <1>17 DEF S, last

\* What a day may print.
LEMMA PanelsType ==
    ASSUME Backtest!PanelAssumption, Backtest!TypeOK, NEW P \in SUBSET Assets, NEW b \in Backtest!Panels(P)
    PROVE  /\ b \in [Assets -> Backtest!Bars]
           /\ \A a \in Assets : b[a].l <= b[a].c /\ b[a].c <= b[a].h /\ b[a].c \in DOMAIN NewBars
           /\ \A a \in Assets \ P : b[a] = bar[a]
<1>1. /\ DOMAIN b = Assets /\ b = [a \in Assets |-> b[a]]
      /\ \A a \in Assets : IF a \in P THEN b[a] \in NewBars[bar[a].c] ELSE b[a] = bar[a]
    BY DEF Backtest!Panels
<1>2. ASSUME NEW a \in Assets
      PROVE  b[a] \in Backtest!Bars /\ b[a].l <= b[a].c /\ b[a].c <= b[a].h /\ b[a].c \in DOMAIN NewBars
    <2>1. /\ bar[a] \in Backtest!Bars /\ bar[a].l <= bar[a].c /\ bar[a].c <= bar[a].h
          /\ bar[a].c \in DOMAIN NewBars
        BY DEF Backtest!TypeOK
    <2>2. CASE a \in P
        <3>1. b[a] \in NewBars[bar[a].c]
            BY <1>1, <2>2
        <3> QED BY <2>1, <3>1 DEF Backtest!PanelAssumption
    <2>3. CASE a \notin P
        BY <1>1, <2>1, <2>3
    <2> QED BY <2>2, <2>3
<1> QED BY <1>1, <1>2

\* The account of a day: what was paid and what the contracts are worth at g
\* make up for what equity moved.
LEMMA AccountMoves ==
    ASSUME Backtest!PanelAssumption, Backtest!TypeOK, equity = Backtest!Ledger(units, bar, cash),
           NEW u0 \in [Assets -> Int], NEW u1 \in [Assets -> Int], NEW b \in [Assets -> Backtest!Bars],
           NEW g, \A a \in Assets : g[a] \in Int,
           \A a \in Assets : u1[a] = u0[a] \/ b[a].o = bar[a].c,
           \A a \in Assets : u0[a] = units[a] \/ b[a].c = bar[a].c
    PROVE  LET move == Backtest!Total([a \in Assets |-> u1[a] * (g[a] - bar[a].c)])
               paid == Backtest!Total([a \in Assets |-> (u1[a] - u0[a]) * b[a].o - (units[a] - u0[a]) * b[a].c])
               worth == Backtest!Total([a \in Assets |-> u1[a] * g[a]])
           IN  /\ move \in Int /\ paid \in Int /\ worth \in Int
               /\ equity + move = cash - paid + worth
<1> DEFINE X == [a \in Assets |-> units[a] * bar[a].c]
           Y == [a \in Assets |-> u1[a] * (g[a] - bar[a].c)]
           Z == [a \in Assets |-> (u1[a] - u0[a]) * b[a].o - (units[a] - u0[a]) * b[a].c]
           W == [a \in Assets |-> u1[a] * g[a]]
<1>1. ASSUME NEW a \in Assets
      PROVE  X[a] \in Int /\ Y[a] \in Int /\ Z[a] \in Int /\ W[a] \in Int /\ W[a] = X[a] + Y[a] + Z[a]
    <2> DEFINE v0 == u0[a]
               v1 == u1[a]
               v == units[a]
               q == g[a]
               p == bar[a].c
               o == b[a].o
               c == b[a].c
    <2>1. v0 \in Int /\ v1 \in Int /\ v \in Int /\ q \in Int /\ p \in Int /\ o \in Int /\ c \in Int
        BY DEF Backtest!TypeOK, Backtest!Bars
    <2>2. v1 = v0 \/ o = p
        OBVIOUS
    <2>3. v0 = v \/ c = p
        OBVIOUS
    <2>4. X[a] = v * p /\ Y[a] = v1 * (q - p) /\ Z[a] = (v1 - v0) * o - (v - v0) * c /\ W[a] = v1 * q
        OBVIOUS
    <2> HIDE DEF X, Y, Z, W, v0, v1, v, q, p, o, c
    <2>5. /\ v1 * (q - p) = v1 * q - v1 * p /\ (v1 - v0) * p = v1 * p - v0 * p
          /\ (v - v0) * p = v * p - v0 * p
          /\ v1 * q \in Int /\ v1 * p \in Int /\ v0 * p \in Int /\ v * p \in Int
        BY <2>1
    <2>6. (v1 - v0) * o = v1 * p - v0 * p
        <3>1. CASE v1 = v0
            <4>1. v1 - v0 = 0
                BY <2>1, <3>1
            <4> QED BY <2>1, <2>5, <3>1, <4>1
        <3>2. CASE o = p
            BY <2>5, <3>2
        <3> QED BY <2>2, <3>1, <3>2
    <2>7. (v - v0) * c = v * p - v0 * p
        <3>1. CASE v0 = v
            <4>1. v - v0 = 0
                BY <2>1, <3>1
            <4> QED BY <2>1, <2>5, <3>1, <4>1
        <3>2. CASE c = p
            BY <2>5, <3>2
        <3> QED BY <2>3, <3>1, <3>2
    <2> QED BY <2>4, <2>5, <2>6, <2>7
<1>2. DOMAIN X = Assets /\ DOMAIN Y = Assets /\ DOMAIN Z = Assets /\ DOMAIN W = Assets
    OBVIOUS
<1>3. equity = cash + Backtest!Total(X)
    BY DEF Backtest!Ledger
<1>4. cash \in Int
    BY DEF Backtest!TypeOK
<1> HIDE DEF X, Y, Z, W
<1>5. Backtest!Total(X) \in Int /\ Backtest!Total(Y) \in Int /\ Backtest!Total(Z) \in Int /\ Backtest!Total(W) \in Int
    BY <1>1, <1>2, TotalInt
<1>6. Backtest!Total(W) = Backtest!Total(X) + Backtest!Total(Y) + Backtest!Total(Z)
    BY <1>1, <1>2, TotalThree
<1>7. equity + Backtest!Total(Y) = cash - Backtest!Total(Z) + Backtest!Total(W)
    BY <1>3, <1>4, <1>5, <1>6
<1> QED BY <1>5, <1>7 DEF Y, Z, W

\* What a day books, from the contracts and the equity it computes on the way.
Booked(P, b, w, n, u0, u1, e1, forced, e2, got) ==
    /\ day' = day + 1 /\ bar' = b /\ age' = n /\ fresh' = [a \in Assets |-> a \in P]
    /\ units' = IF forced THEN Backtest!Flat ELSE u1
    /\ equity' = Backtest!Most(e2 + got, 0)
    /\ liquidated' = forced
    /\ cash' = cash - Backtest!Paid(u0, u1, b, equity - e1) + got + Backtest!Released(u1, b, forced)
    /\ slipped' = (slipped \/ \E a \in Assets : u1[a] # u0[a] /\ b[a].o # bar[a].c)
    /\ Backtest!Close(n, units', e2 + got, w)

Parts(P, b, r, w, n, u0, e0, u1, e1, forced, e2, got) ==
    /\ n = [a \in Assets |-> IF a \in P THEN 0 ELSE Backtest!Least(age[a] + 1, Backtest!Unlisted)]
    /\ u0 = Backtest!Exits(n, b)
    /\ e0 = equity - Backtest!FeeOf([a \in Assets |-> Backtest!Abs(units[a] - u0[a]) * b[a].c])
    /\ u1 = Backtest!Traded(n, [a \in Assets |-> a \in P], u0, b, e0)
    /\ e1 = e0 - Backtest!FeeAt(u0, u1, b)
    /\ forced = Backtest!Forced(u1, b, e1)
    /\ e2 = Backtest!Marked(u1, b, e1, forced)
    /\ got = Backtest!Earned(u1, b, r, e2, forced)
    /\ Booked(P, b, w, n, u0, u1, e1, forced, e2, got)

LEMMA DayParts ==
    ASSUME NEW P, NEW r, NEW w, NEW b, Backtest!Day(P, b, r, w)
    PROVE  \E n, u0, e0, u1, e1, forced, e2, got : Parts(P, b, r, w, n, u0, e0, u1, e1, forced, e2, got)
<1> DEFINE fee(u0) == Backtest!FeeOf([a \in Assets |-> Backtest!Abs(units[a] - u0[a]) * b[a].c])
           f == [a \in Assets |-> a \in P]
           m == [a \in Assets |-> IF a \in P THEN 0 ELSE Backtest!Least(age[a] + 1, Backtest!Unlisted)]
<1>1. \E n \in {m} : \E u0 \in {Backtest!Exits(n, b)} : \E e0 \in {equity - fee(u0)} :
      \E u1 \in {Backtest!Traded(n, f, u0, b, e0)} : \E e1 \in {e0 - Backtest!FeeAt(u0, u1, b)} :
      \E forced \in {Backtest!Forced(u1, b, e1)} : \E e2 \in {Backtest!Marked(u1, b, e1, forced)} :
      \E got \in {Backtest!Earned(u1, b, r, e2, forced)} :
          Booked(P, b, w, n, u0, u1, e1, forced, e2, got)
    BY DEF Backtest!Day, Booked
<1>2. \E n, u0, e0, u1, e1, forced, e2, got :
             /\ n = m
             /\ u0 = Backtest!Exits(n, b)
             /\ e0 = equity - fee(u0)
             /\ u1 = Backtest!Traded(n, f, u0, b, e0)
             /\ e1 = e0 - Backtest!FeeAt(u0, u1, b)
             /\ forced = Backtest!Forced(u1, b, e1)
             /\ e2 = Backtest!Marked(u1, b, e1, forced)
             /\ got = Backtest!Earned(u1, b, r, e2, forced)
             /\ Booked(P, b, w, n, u0, u1, e1, forced, e2, got)
    <2> HIDE DEF m, f, fee
    <2> QED BY <1>1
<1> QED BY <1>2 DEF Parts

\* What a close decides, and that after the kill it is only to be flat.
LEMMA CloseKeeps ==
    ASSUME Backtest!PanelAssumption, Backtest!LimitAssumption, Backtest!TypeOK, Backtest!KillDecides,
           NEW n, NEW u, NEW e \in Int, NEW w \in Asked, Backtest!Close(n, u, e, w), ~ended
    PROVE  /\ ended' \in BOOLEAN /\ (ended' <=> e <= 0)
           /\ peak' \in Nat /\ killed' \in BOOLEAN /\ killPending' \in BOOLEAN
           /\ pending' \in {Backtest!None} \cup [Assets -> Int]
           /\ Backtest!KillDecides' /\ (killed => killed')
<1> DEFINE q == [a \in Assets |-> Backtest!MayQuote(n, a, w[a])]
<1>1. /\ peak \in Nat /\ killed \in BOOLEAN /\ killPending \in BOOLEAN
      /\ pending \in {Backtest!None} \cup [Assets -> Int]
    BY DEF Backtest!TypeOK
<1>2. killed => pending \in {Backtest!None, Backtest!Flat}
    BY DEF Backtest!KillDecides
<1>3. Backtest!Capped(q) \in [Assets -> Int]
    <2>1. q \in [Assets -> Int]
        BY Limits DEF Backtest!MayQuote
    <2> HIDE DEF q
    <2> QED BY <2>1, CappedType
<1>4. Backtest!Flat \in [Assets -> Int]
    BY DEF Backtest!Flat
<1>5. CASE e <= 0
    <2>1. ended' = TRUE /\ UNCHANGED <<peak, killed, pending, killPending>>
        BY <1>5 DEF Backtest!Close
    <2> QED BY <1>1, <1>2, <1>5, <2>1 DEF Backtest!KillDecides, Backtest!None, Backtest!Flat
<1>6. CASE ~(e <= 0)
    <2> DEFINE now == Backtest!Drawn(e) /\ ~killed
               again == killed /\ u # Backtest!Flat
               spent == Backtest!Due(day + 1)
    <2>1. ended' = FALSE /\ peak' = Backtest!Most(peak, e) /\ Backtest!Decide(n, u, e, w)
        BY <1>6 DEF Backtest!Close
    <2>2. /\ killed' = (killed \/ now)
          /\ pending' = IF now \/ again THEN Backtest!Flat
                        ELSE IF ~killed THEN Backtest!Capped(q)
                        ELSE IF spent THEN Backtest!None ELSE pending
          /\ killPending' = (now \/ again \/ (killPending /\ ~spent))
        BY <2>1 DEF Backtest!Decide
    <2>3. now \in BOOLEAN /\ again \in BOOLEAN /\ spent \in BOOLEAN /\ (now => ~killed) /\ (again => killed)
        BY <1>1 DEF Backtest!Drawn, Backtest!Due
    <2> HIDE DEF now, again, spent, q
    <2>4. peak' \in Nat
        BY <1>1, <1>6, <2>1 DEF Backtest!Most
    <2>5. pending' \in {Backtest!None} \cup [Assets -> Int]
        BY <1>1, <1>3, <1>4, <2>2
    <2>6. killed' => pending' \in {Backtest!None, Backtest!Flat}
        BY <1>1, <1>2, <2>2, <2>3
    <2>7. Backtest!KillDecides'
        BY <2>6 DEF Backtest!KillDecides, Backtest!None, Backtest!Flat
    <2>8. killed' \in BOOLEAN /\ killPending' \in BOOLEAN /\ (killed => killed')
        BY <1>1, <2>2, <2>3
    <2> QED BY <1>6, <2>1, <2>4, <2>5, <2>7, <2>8
<1> QED BY <1>5, <1>6

\* The fee of a rebalance.
LEMMA FeeType ==
    ASSUME Backtest!PanelAssumption, Backtest!LimitAssumption, NEW u \in [Assets -> Int],
           NEW v \in [Assets -> Int], NEW b \in [Assets -> Backtest!Bars]
    PROVE  Backtest!FeeAt(u, v, b) \in Int
<1> DEFINE d == [a \in Assets |-> Backtest!Abs(v[a] - u[a]) * b[a].o]
           g == [a \in Assets |-> (d[a] * Side[a]) \div 100]
<1>1. ASSUME NEW a \in Assets PROVE g[a] \in Int
    <2>1. v[a] - u[a] \in Int /\ b[a].o \in Nat /\ Side[a] \in Nat
        BY Limits DEF Backtest!Bars
    <2>2. Backtest!Abs(v[a] - u[a]) \in Nat
        BY <2>1, Magnitudes
    <2>3. Backtest!Abs(v[a] - u[a]) * b[a].o \in Nat
        BY <2>1, <2>2
    <2>4. Backtest!Abs(v[a] - u[a]) * b[a].o * Side[a] \in Nat
        BY <2>1, <2>3
    <2>5. (Backtest!Abs(v[a] - u[a]) * b[a].o * Side[a]) \div 100 \in Int
        BY <2>4, Quotient
    <2> QED BY <2>5
<1>2. DOMAIN g = Assets
    OBVIOUS
<1>3. Backtest!FeeAt(u, v, b) = Backtest!Total(g)
    BY DEF Backtest!FeeAt, Backtest!FeeOf
<1> HIDE DEF g, d
<1> QED BY <1>1, <1>2, <1>3, TotalInt

\* The sums of a day are integers.
LEMMA DayType ==
    ASSUME Backtest!PanelAssumption, Backtest!LimitAssumption, Backtest!TypeOK,
           NEW u \in [Assets -> Int], NEW b \in [Assets -> Backtest!Bars], NEW r \in Rates, NEW e \in Int,
           NEW forced \in BOOLEAN
    PROVE  /\ Backtest!PenaltyOf(u, b) \in Int /\ Backtest!Worst(u, b, e) \in Int
           /\ Backtest!Marked(u, b, e, forced) \in Int
           /\ Backtest!Earned(u, b, r, e, forced) \in Int
           /\ \A a \in Assets : Backtest!Adverse(u, b, a) \in Int
<1> DEFINE A == [a \in Assets |-> u[a] * (Backtest!Adverse(u, b, a) - bar[a].c)]
           C == [a \in Assets |-> u[a] * (b[a].c - bar[a].c)]
           F == [a \in Assets |-> u[a] * b[a].c * r]
           N == [a \in Assets |-> Backtest!Abs(u[a]) * Backtest!Adverse(u, b, a) * Penalty]
<1>1. ASSUME NEW a \in Assets
      PROVE  /\ A[a] \in Int /\ C[a] \in Int /\ F[a] \in Int /\ N[a] \in Int
             /\ Backtest!Adverse(u, b, a) \in Int
    <2> DEFINE v == u[a]
               k == b[a].c
               p == bar[a].c
               y == Backtest!Abs(u[a])
               x == Backtest!Adverse(u, b, a)
    <2>1. v \in Int /\ k \in Int /\ p \in Int /\ y \in Int /\ x \in Int /\ r \in Int /\ Penalty \in Int
        <3>1. b[a] \in Backtest!Bars /\ bar[a] \in Backtest!Bars /\ u[a] \in Int
            BY DEF Backtest!TypeOK
        <3>2. b[a].l \in Int /\ b[a].h \in Int /\ b[a].c \in Int /\ bar[a].c \in Int
            BY <3>1 DEF Backtest!Bars
        <3>3. Backtest!Adverse(u, b, a) \in Int
            BY <3>2 DEF Backtest!Adverse
        <3>4. Backtest!Abs(u[a]) \in Int
            BY <3>1, Magnitudes
        <3> QED BY <3>1, <3>2, <3>3, <3>4, Limits
    <2>2. A[a] = v * (x - p) /\ C[a] = v * (k - p) /\ F[a] = v * k * r /\ N[a] = y * x * Penalty
        OBVIOUS
    <2>3. x \in Int => Backtest!Adverse(u, b, a) \in Int
        OBVIOUS
    <2> HIDE DEF A, C, F, N, v, k, p, y, x
    <2>4. x - p \in Int /\ k - p \in Int
        BY <2>1
    <2>5. v * (x - p) \in Int /\ v * (k - p) \in Int /\ v * k \in Int /\ y * x \in Int
        BY <2>1, <2>4
    <2>6. v * k * r \in Int /\ y * x * Penalty \in Int
        BY <2>1, <2>5
    <2> QED BY <2>1, <2>2, <2>3, <2>5, <2>6
<1>2. DOMAIN A = Assets /\ DOMAIN C = Assets /\ DOMAIN F = Assets /\ DOMAIN N = Assets
    OBVIOUS
<1>3. /\ Backtest!Worst(u, b, e) = e + Backtest!Total(A)
      /\ Backtest!Marked(u, b, e, forced) = IF forced THEN Backtest!Most(Backtest!Worst(u, b, e) - Backtest!PenaltyOf(u, b), 0)
                                            ELSE e + Backtest!Total(C)
      /\ Backtest!PenaltyOf(u, b) = Backtest!Total(N) \div 100
      /\ Backtest!Funding(u, b, r) = -(Backtest!Total(F) \div 100)
      /\ Backtest!Earned(u, b, r, e, forced) = IF forced THEN 0 ELSE Backtest!Funding(u, b, r) + Backtest!Interest(u, b, e)
    BY DEF Backtest!Worst, Backtest!Marked, Backtest!PenaltyOf, Backtest!Funding, Backtest!Earned
<1> HIDE DEF A, C, F, N
<1>4. /\ Backtest!Total(A) \in Int /\ Backtest!Total(C) \in Int /\ Backtest!Total(F) \in Int
      /\ Backtest!Total(N) \in Int
    BY <1>1, <1>2, TotalInt
<1>5. Backtest!Total(F) \div 100 \in Int /\ Backtest!Total(N) \div 100 \in Int
    BY <1>4, Quotient
<1>6. Backtest!PenaltyOf(u, b) \in Int /\ Backtest!Funding(u, b, r) \in Int
    BY <1>3, <1>5
<1>7. Backtest!Worst(u, b, e) \in Int
    BY <1>3, <1>4
<1>8. Backtest!Interest(u, b, e) \in Int
    BY InterestType
<1>9. Backtest!Most(Backtest!Worst(u, b, e) - Backtest!PenaltyOf(u, b), 0) \in Int
    BY <1>6, <1>7, Magnitudes
<1>10. Backtest!Marked(u, b, e, forced) \in Int
    BY <1>3, <1>4, <1>9
<1>11. Backtest!Earned(u, b, r, e, forced) \in Int
    BY <1>3, <1>6, <1>8
<1> QED BY <1>1, <1>6, <1>7, <1>10, <1>11

LEMMA Reckoning ==
    ASSUME NEW held \in Int, NEW y \in Int, NEW m \in Int, NEW was \in Int, NEW spent \in Int,
           NEW e \in Int, NEW i \in Int, NEW c, was + y = held - spent + m,
           c = held - spent - was + e + i
    PROVE  c + m = e + y + i
OBVIOUS

\* What equity is after a day is what the account holds.
LEMMA DayIsBooked ==
    ASSUME Backtest!PanelAssumption, Backtest!LimitAssumption, Backtest!TypeOK,
           equity = Backtest!Ledger(units, bar, cash),
           NEW u0 \in [Assets -> Int], NEW u1 \in [Assets -> Int], NEW b \in [Assets -> Backtest!Bars],
           \A a \in Assets : u1[a] = u0[a] \/ b[a].o = bar[a].c,
           \A a \in Assets : u0[a] = units[a] \/ b[a].c = bar[a].c,
           NEW r \in Rates, NEW e1 \in Int, NEW forced \in BOOLEAN,
           NEW e2, e2 = Backtest!Marked(u1, b, e1, forced),
           NEW got, got = Backtest!Earned(u1, b, r, e2, forced), e2 + got > 0
    PROVE  e2 + got = Backtest!Ledger(IF forced THEN Backtest!Flat ELSE u1, b,
                          cash - Backtest!Paid(u0, u1, b, equity - e1) + got
                               + Backtest!Released(u1, b, forced))
<1> DEFINE Q == [a \in Assets |-> (u1[a] - u0[a]) * b[a].o - (units[a] - u0[a]) * b[a].c]
           paid == Backtest!Total(Q)
<1>1. Backtest!Paid(u0, u1, b, equity - e1) = paid + (equity - e1)
    BY DEF Backtest!Paid
<1>2. e2 \in Int /\ got \in Int /\ equity \in Int /\ cash \in Int
    BY DayType DEF Backtest!TypeOK
<1>3. CASE ~forced
    <2> DEFINE g == [a \in Assets |-> b[a].c]
               Y == [a \in Assets |-> u1[a] * (g[a] - bar[a].c)]
               W == [a \in Assets |-> u1[a] * g[a]]
               V == [a \in Assets |-> u1[a] * (b[a].c - bar[a].c)]
               X == [a \in Assets |-> u1[a] * b[a].c]
    <2>1. \A a \in Assets : g[a] \in Int
        BY DEF Backtest!Bars
    <2>2. V = Y /\ X = W
        BY Zenon
    <2> HIDE DEF g
    <2>3. /\ Backtest!Total(Y) \in Int /\ paid \in Int /\ Backtest!Total(W) \in Int
          /\ equity + Backtest!Total(Y) = cash - paid + Backtest!Total(W)
        BY <2>1, AccountMoves, ZenonT(60)
    <2>4. e2 = e1 + Backtest!Total(V)
        BY <1>3 DEF Backtest!Marked
    <2>5. Backtest!Released(u1, b, forced) = 0
        BY <1>3 DEF Backtest!Released
    <2> DEFINE c == cash - Backtest!Paid(u0, u1, b, equity - e1) + got + Backtest!Released(u1, b, forced)
    <2>6. Backtest!Ledger(u1, b, c) = c + Backtest!Total(X)
        BY DEF Backtest!Ledger
    <2> HIDE DEF Y, W, V, X, paid
    <2>7. c = cash - paid - equity + e1 + got
        BY <1>1, <1>2, <2>3, <2>5
    <2> HIDE DEF c
    <2>8. e2 + got = Backtest!Ledger(u1, b, c)
        <3> DEFINE y == Backtest!Total(Y)
                   m == Backtest!Total(W)
        <3>1. /\ e2 = e1 + y /\ Backtest!Ledger(u1, b, c) = c + m
              /\ y \in Int /\ m \in Int /\ equity + y = cash - paid + m
            BY <2>2, <2>3, <2>4, <2>6
        <3> HIDE DEF y, m
        <3>2. paid \in Int
            BY <2>3
        <3>3. c + m = e1 + y + got
            BY <1>2, <2>7, <3>1, <3>2, Reckoning
        <3> QED BY <1>2, <3>1, <3>3
    <2>9. (IF forced THEN Backtest!Flat ELSE u1) = u1
        BY <1>3
    <2> QED BY <2>8, <2>9 DEF c
<1>4. CASE forced
    <2> DEFINE g == [a \in Assets |-> Backtest!Adverse(u1, b, a)]
               Y == [a \in Assets |-> u1[a] * (g[a] - bar[a].c)]
               W == [a \in Assets |-> u1[a] * g[a]]
               V == [a \in Assets |-> u1[a] * (Backtest!Adverse(u1, b, a) - bar[a].c)]
               X == [a \in Assets |-> u1[a] * Backtest!Adverse(u1, b, a)]
               F == [a \in Assets |-> Backtest!Flat[a] * b[a].c]
               pen == Backtest!PenaltyOf(u1, b)
    <2>1. \A a \in Assets : g[a] \in Int
        BY DayType
    <2>2. V = Y /\ X = W
        BY Zenon
    <2> HIDE DEF g
    <2>3. /\ Backtest!Total(Y) \in Int /\ paid \in Int /\ Backtest!Total(W) \in Int
          /\ equity + Backtest!Total(Y) = cash - paid + Backtest!Total(W)
        BY <2>1, AccountMoves, ZenonT(60)
    <2>4. e2 = Backtest!Most((e1 + Backtest!Total(V)) - pen, 0)
        BY <1>4 DEF Backtest!Marked, Backtest!Worst
    <2>5. Backtest!Released(u1, b, forced) = Backtest!Total(X) - pen
        BY <1>4 DEF Backtest!Released
    <2>6. got = 0
        BY <1>4 DEF Backtest!Earned
    <2>7. pen \in Int
        BY DayType
    <2>8. DOMAIN F = Assets /\ \A a \in Assets : F[a] = 0
        BY DEF Backtest!Flat, Backtest!Bars
    <2> DEFINE c == cash - Backtest!Paid(u0, u1, b, equity - e1) + got + Backtest!Released(u1, b, forced)
    <2>9. Backtest!Ledger(Backtest!Flat, b, c) = c + Backtest!Total(F)
        BY DEF Backtest!Ledger
    <2> HIDE DEF Y, W, V, X, F, paid, pen
    <2>10. Backtest!Total(F) = 0
        BY <2>8, TotalZero
    <2>11. c = cash - paid - equity + e1 + Backtest!Total(X) - pen
        BY <1>1, <1>2, <2>2, <2>3, <2>5, <2>6, <2>7
    <2>12. e2 = e1 + Backtest!Total(V) - pen
        BY <1>2, <2>2, <2>3, <2>4, <2>6, <2>7 DEF Backtest!Most
    <2> HIDE DEF c
    <2>13. e2 + got = Backtest!Ledger(Backtest!Flat, b, c)
        BY <1>2, <2>2, <2>3, <2>6, <2>7, <2>9, <2>10, <2>11, <2>12
    <2>14. (IF forced THEN Backtest!Flat ELSE u1) = Backtest!Flat
        BY <1>4
    <2> QED BY <2>13, <2>14 DEF c
<1> QED BY <1>3, <1>4

\* What is left after a day pays to leave.
LEMMA DayCanLeave ==
    ASSUME Backtest!PanelAssumption, Backtest!LimitAssumption, Backtest!CostAssumption, Backtest!TypeOK,
           NEW u \in [Assets -> Int], NEW b \in [Assets -> Backtest!Bars],
           \A a \in Assets : b[a].l <= b[a].c /\ b[a].c <= b[a].h,
           NEW r \in Rates, NEW e1 \in Int,
           NEW forced, forced = Backtest!Forced(u, b, e1),
           NEW e2, e2 = Backtest!Marked(u, b, e1, forced),
           NEW got, got = Backtest!Earned(u, b, r, e2, forced), e2 + got > 0,
           NEW left, left = IF forced THEN Backtest!Flat ELSE u
    PROVE  100 * (e2 + got) > Backtest!Total([a \in Assets |-> Backtest!Abs(left[a]) * b[a].c * Side[a]])
<1> DEFINE S == [a \in Assets |-> Backtest!Abs(left[a]) * b[a].c * Side[a]]
<1>1. forced \in BOOLEAN
    BY DEF Backtest!Forced
<1>2. e2 \in Int /\ got \in Int
    BY <1>1, DayType
<1>3. CASE \A a \in Assets : left[a] = 0
    <2>1. DOMAIN S = Assets /\ \A a \in Assets : S[a] = 0
        <3>1. Backtest!Abs(0) = 0
            BY DEF Backtest!Abs
        <3>2. \A a \in Assets : b[a].c \in Int /\ Side[a] \in Int
            BY Limits DEF Backtest!Bars
        <3>3. \A a \in Assets : S[a] = (0 * b[a].c) * Side[a]
            BY <1>3, <3>1
        <3>4. \A a \in Assets : (0 * b[a].c) * Side[a] = 0
            BY <3>2
        <3> QED BY <3>3, <3>4
    <2> HIDE DEF S
    <2>2. Backtest!Total(S) = 0
        BY <2>1, TotalZero
    <2>3. 100 * (e2 + got) > Backtest!Total(S)
        BY <1>2, <2>2
    <2> QED BY <2>3 DEF S
<1>4. CASE ~(\A a \in Assets : left[a] = 0)
    <2>1. ~forced
        BY <1>4 DEF Backtest!Flat
    <2>2. left = u /\ (\E a \in Assets : u[a] # 0) /\ ~Backtest!Forced(u, b, e1) /\ forced = FALSE
        BY <1>1, <1>4, <2>1
    <2>3. e2 = Backtest!Marked(u, b, e1, FALSE) /\ got = Backtest!Earned(u, b, r, e2, FALSE)
        BY <2>2
    <2> DEFINE T == [a \in Assets |-> Backtest!Abs(u[a]) * b[a].c * Side[a]]
    <2>4. 100 * (e2 + got) > Backtest!Total(T)
        BY <2>2, <2>3, StaysLeavable
    <2>5. S = T
        BY Zenon, <2>2
    <2> QED BY <2>4, <2>5
<1> QED BY <1>3, <1>4

\* One day of the loop.
LEMMA DayStep ==
    ASSUME Backtest!PanelAssumption, Backtest!LimitAssumption, Backtest!CostAssumption,
           Backtest!TypeOK, Backtest!BacktestInv, ~ended,
           NEW P \in SUBSET Assets, NEW r \in Rates, NEW w \in Asked, NEW b \in Backtest!Panels(P),
           Backtest!Day(P, b, r, w)
    PROVE  Backtest!TypeOK' /\ Backtest!BacktestInv' /\ Backtest!Braked
<1> DEFINE f == [a \in Assets |-> a \in P]
<1>0. PICK n, u0, e0, u1, e1, forced, e2, got : Parts(P, b, r, w, n, u0, e0, u1, e1, forced, e2, got)
    BY DayParts
<1>1. /\ n = [a \in Assets |-> IF a \in P THEN 0 ELSE Backtest!Least(age[a] + 1, Backtest!Unlisted)]
      /\ u0 = Backtest!Exits(n, b)
      /\ e0 = equity - Backtest!FeeOf([a \in Assets |-> Backtest!Abs(units[a] - u0[a]) * b[a].c])
      /\ u1 = Backtest!Traded(n, f, u0, b, e0)
      /\ e1 = e0 - Backtest!FeeAt(u0, u1, b)
      /\ forced = Backtest!Forced(u1, b, e1)
      /\ e2 = Backtest!Marked(u1, b, e1, forced)
      /\ got = Backtest!Earned(u1, b, r, e2, forced)
      /\ Booked(P, b, w, n, u0, u1, e1, forced, e2, got)
    BY <1>0 DEF Parts
<1>2. /\ b \in [Assets -> Backtest!Bars]
      /\ \A a \in Assets : b[a].l <= b[a].c /\ b[a].c <= b[a].h /\ b[a].c \in DOMAIN NewBars
      /\ \A a \in Assets \ P : b[a] = bar[a]
    BY PanelsType
<1>3. n \in [Assets -> Nat] /\ \A a \in P : n[a] = 0
    <2>1. \A a \in Assets : age[a] \in Nat
        BY DEF Backtest!TypeOK
    <2>2. MaxStale \in Nat
        BY Limits
    <2>3. \A a \in Assets : Backtest!Least(age[a] + 1, Backtest!Unlisted) \in Nat
        BY <2>1, <2>2 DEF Backtest!Least, Backtest!Unlisted
    <2>4. n = [a \in Assets |-> IF a \in P THEN 0 ELSE Backtest!Least(age[a] + 1, Backtest!Unlisted)]
        BY <1>1
    <2> QED BY <2>3, <2>4
<1>4. /\ u0 \in [Assets -> Int]
      /\ \A a \in Assets : u0[a] = units[a] \/ (u0[a] = 0 /\ a \notin P)
    <2>1. u0 = [a \in Assets |-> IF ~(n[a] <= MaxStale) THEN 0 ELSE units[a]]
        BY <1>1 DEF Backtest!Exits, Backtest!Available
    <2>2. units \in [Assets -> Int]
        BY DEF Backtest!TypeOK
    <2>3. \A a \in P : n[a] <= MaxStale
        BY <1>3, Limits
    <2> QED BY <2>1, <2>2, <2>3
<1>5. \A a \in Assets : f[a] <=> a \in P
    OBVIOUS
<1>6. e0 \in Nat \ {0}
    <2>1. \A a \in Assets : u0[a] = units[a] \/ (u0[a] = 0 /\ b[a] = bar[a])
        BY <1>2, <1>4
    <2>2. Backtest!CanLeave
        BY DEF Backtest!BacktestInv
    <2>3. equity - Backtest!FeeOf([a \in Assets |-> Backtest!Abs(units[a] - u0[a]) * b[a].c]) \in Nat \ {0}
        BY <1>2, <1>4, <2>1, <2>2, ExitsPaid
    <2> QED BY <1>1, <2>3
<1>7. pending \in {Backtest!None} \cup [Assets -> Int]
    BY DEF Backtest!TypeOK
<1> HIDE DEF f
<1>8. u1 \in [Assets -> Int]
    BY <1>1, <1>2, <1>4, <1>6, <1>7, TradedType
<1>9. ASSUME NEW a \in Assets, Backtest!Unquoted(f, a)
      PROVE  Backtest!Abs(u1[a]) <= Backtest!Abs(u0[a])
    BY <1>1, <1>2, <1>4, <1>6, <1>7, <1>9, UnquotedShrinks
<1>10. ASSUME killed, NEW a \in Assets PROVE u1[a] \in {0, u0[a]}
    <2>1. pending \in {Backtest!None, Backtest!Flat}
        BY <1>10 DEF Backtest!BacktestInv, Backtest!KillDecides
    <2> QED BY <1>1, <1>2, <1>4, <1>6, <2>1, FlatCloses
<1>11. e1 \in Int
    <2>1. Backtest!FeeAt(u0, u1, b) \in Int
        BY <1>2, <1>4, <1>8, FeeType
    <2>2. e1 = e0 - Backtest!FeeAt(u0, u1, b)
        BY <1>1
    <2> DEFINE fee == Backtest!FeeAt(u0, u1, b)
    <2>3. fee \in Int /\ e1 = e0 - fee
        BY <2>1, <2>2
    <2> HIDE DEF fee
    <2> QED BY <1>6, <2>3
<1>12. forced \in BOOLEAN
    BY <1>1 DEF Backtest!Forced
<1>13. e2 \in Int /\ got \in Int
    <2>1. e2 \in Int
        BY <1>1, <1>2, <1>8, <1>11, <1>12, DayType
    <2>2. got = Backtest!Earned(u1, b, r, e2, forced)
        BY <1>1
    <2> QED BY <1>2, <1>8, <1>12, <2>1, <2>2, DayType
<1>14. /\ day' = day + 1 /\ bar' = b /\ age' = n /\ fresh' = f
       /\ units' = (IF forced THEN Backtest!Flat ELSE u1)
       /\ equity' = Backtest!Most(e2 + got, 0)
       /\ liquidated' = forced
       /\ cash' = cash - Backtest!Paid(u0, u1, b, equity - e1) + got + Backtest!Released(u1, b, forced)
       /\ slipped' = (slipped \/ \E a \in Assets : u1[a] # u0[a] /\ b[a].o # bar[a].c)
       /\ Backtest!Close(n, units', e2 + got, w)
    BY <1>1 DEF Booked, f
<1>15. /\ ended' \in BOOLEAN /\ (ended' <=> e2 + got <= 0)
       /\ peak' \in Nat /\ killed' \in BOOLEAN /\ killPending' \in BOOLEAN
       /\ pending' \in {Backtest!None} \cup [Assets -> Int]
       /\ Backtest!KillDecides' /\ (killed => killed')
    <2>1. Backtest!KillDecides /\ e2 + got \in Int
        BY <1>13 DEF Backtest!BacktestInv
    <2> QED BY <1>14, <2>1, CloseKeeps
<1>16. units' \in [Assets -> Int] /\ equity' \in Nat /\ (~ended' => equity' = e2 + got /\ e2 + got > 0)
    BY <1>8, <1>12, <1>13, <1>14, <1>15 DEF Backtest!Flat, Backtest!Most
<1>17. Backtest!TypeOK'
    <2>1. cash' \in Int
        <3> DEFINE Q == [a \in Assets |-> (u1[a] - u0[a]) * b[a].o - (units[a] - u0[a]) * b[a].c]
                   X == [a \in Assets |-> u1[a] * Backtest!Adverse(u1, b, a)]
        <3>1. ASSUME NEW a \in Assets PROVE Q[a] \in Int /\ X[a] \in Int
            <4>1. /\ u1[a] \in Int /\ u0[a] \in Int /\ units[a] \in Int /\ b[a].o \in Int /\ b[a].c \in Int
                BY <1>2, <1>4, <1>8 DEF Backtest!TypeOK, Backtest!Bars
            <4>2. Backtest!Adverse(u1, b, a) \in Int
                BY <1>2, <1>8, <1>11, <1>12, DayType
            <4>3. (u1[a] - u0[a]) * b[a].o \in Int /\ (units[a] - u0[a]) * b[a].c \in Int
                BY <4>1
            <4>4. u1[a] * Backtest!Adverse(u1, b, a) \in Int
                BY <4>1, <4>2
            <4> QED BY <4>3, <4>4
        <3>2. DOMAIN Q = Assets /\ DOMAIN X = Assets
            OBVIOUS
        <3>3. Backtest!Paid(u0, u1, b, equity - e1) = Backtest!Total(Q) + (equity - e1)
            BY DEF Backtest!Paid
        <3>4. Backtest!Released(u1, b, forced) = IF forced THEN Backtest!Total(X) - Backtest!PenaltyOf(u1, b) ELSE 0
            BY DEF Backtest!Released
        <3>5. Backtest!PenaltyOf(u1, b) \in Int
            BY <1>2, <1>8, <1>11, <1>12, DayType
        <3> HIDE DEF Q, X
        <3>6. Backtest!Total(Q) \in Int /\ Backtest!Total(X) \in Int
            BY <3>1, <3>2, TotalInt
        <3>7. cash \in Int /\ equity \in Int
            BY DEF Backtest!TypeOK
        <3>8. Backtest!Paid(u0, u1, b, equity - e1) \in Int
            BY <1>11, <3>3, <3>6, <3>7
        <3>9. Backtest!Released(u1, b, forced) \in Int
            BY <1>12, <3>4, <3>5, <3>6
        <3> QED BY <1>13, <1>14, <3>7, <3>8, <3>9
    <2>2. /\ day' \in Nat /\ fresh' \in [Assets -> BOOLEAN] /\ age' \in [Assets -> Nat]
        BY <1>3, <1>14 DEF Backtest!TypeOK, f
    <2>3. /\ bar' \in [Assets -> Backtest!Bars]
          /\ \A a \in Assets : bar'[a].l <= bar'[a].c /\ bar'[a].c <= bar'[a].h /\ bar'[a].c \in DOMAIN NewBars
        BY <1>2, <1>14
    <2>4. {killed', killPending', liquidated', slipped', ended'} \subseteq BOOLEAN
        BY <1>12, <1>14, <1>15 DEF Backtest!TypeOK
    <2> QED BY <1>15, <1>16, <2>1, <2>2, <2>3, <2>4 DEF Backtest!TypeOK, Backtest!Bars, Backtest!None
<1>18. Backtest!LedgerExact'
    <2>1. SUFFICES ASSUME ~slipped', ~ended' PROVE equity' = Backtest!Ledger(units', bar', cash')
        BY DEF Backtest!LedgerExact, Backtest!Ledger
    <2>2. ~slipped /\ \A a \in Assets : u1[a] = u0[a] \/ b[a].o = bar[a].c
        BY <1>14, <2>1 DEF Backtest!TypeOK
    <2>3. equity = Backtest!Ledger(units, bar, cash)
        BY <2>2 DEF Backtest!BacktestInv, Backtest!LedgerExact
    <2>4. \A a \in Assets : u0[a] = units[a] \/ b[a].c = bar[a].c
        BY <1>2, <1>4
    <2>5. e2 + got = Backtest!Ledger(IF forced THEN Backtest!Flat ELSE u1, b,
                         cash - Backtest!Paid(u0, u1, b, equity - e1) + got + Backtest!Released(u1, b, forced))
        <3>1. e2 = Backtest!Marked(u1, b, e1, forced) /\ got = Backtest!Earned(u1, b, r, e2, forced)
            BY <1>1
        <3>2. e2 + got > 0
            BY <1>16, <2>1
        <3> QED BY <1>2, <1>4, <1>8, <1>11, <1>12, <2>2, <2>3, <2>4, <3>1, <3>2, DayIsBooked
    <2> QED BY <1>14, <1>16, <2>1, <2>5
<1>19. Backtest!CanLeave'
    <2>1. SUFFICES ASSUME ~ended'
          PROVE 100 * equity' > Backtest!Total([a \in Assets |-> Backtest!Abs(units'[a]) * bar'[a].c * Side[a]])
        BY DEF Backtest!CanLeave, Backtest!Abs
    <2> DEFINE left == IF forced THEN Backtest!Flat ELSE u1
    <2>2. 100 * (e2 + got) > Backtest!Total([a \in Assets |-> Backtest!Abs(left[a]) * b[a].c * Side[a]])
        <3>1. /\ forced = Backtest!Forced(u1, b, e1) /\ e2 = Backtest!Marked(u1, b, e1, forced)
              /\ got = Backtest!Earned(u1, b, r, e2, forced)
            BY <1>1
        <3>2. e2 + got > 0
            BY <1>16, <2>1
        <3>3. left = IF forced THEN Backtest!Flat ELSE u1
            OBVIOUS
        <3> HIDE DEF left
        <3> QED BY <1>2, <1>8, <1>11, <3>1, <3>2, <3>3, DayCanLeave
    <2>3. units' = left /\ bar' = b /\ equity' = e2 + got
        BY <1>14, <1>16, <2>1
    <2> HIDE DEF left
    <2> QED BY <2>2, <2>3
<1>20. Backtest!StaleNeverAdds
    <2>1. SUFFICES ASSUME NEW a \in Crypto, ~fresh'[a]
                   PROVE  Backtest!Abs(units'[a]) <= Backtest!Abs(units[a])
        BY DEF Backtest!StaleNeverAdds
    <2>2. a \in Assets /\ a \notin P
        BY <1>14, <2>1 DEF Backtest!PanelAssumption, f
    <2>3. Backtest!Unquoted(f, a)
        BY <1>5, <2>1, <2>2 DEF Backtest!Unquoted
    <2>4. Backtest!Abs(u1[a]) <= Backtest!Abs(u0[a])
        BY <1>9, <2>2, <2>3
    <2>5. u1[a] \in Int /\ units[a] \in Int /\ (u0[a] = units[a] \/ u0[a] = 0)
        BY <1>4, <1>8, <2>2 DEF Backtest!TypeOK
    <2>6. units'[a] \in {0, u1[a]}
        BY <1>14, <2>2 DEF Backtest!Flat
    <2> QED BY <2>4, <2>5, <2>6 DEF Backtest!Abs
<1>21. Backtest!KillNeverReenters
    <2>1. SUFFICES ASSUME killed, NEW a \in Assets
                   PROVE  /\ Backtest!Abs(units'[a]) <= Backtest!Abs(units[a])
                          /\ Backtest!Sgn(units'[a]) \in {0, Backtest!Sgn(units[a])}
        BY <1>15 DEF Backtest!KillNeverReenters
    <2>2. u1[a] \in {0, units[a]}
        BY <1>4, <1>10, <2>1
    <2>3. units'[a] \in {0, units[a]}
        BY <1>14, <2>2 DEF Backtest!Flat
    <2>4. units[a] \in Int
        BY DEF Backtest!TypeOK
    <2> QED BY <2>3, <2>4 DEF Backtest!Abs, Backtest!Sgn
<1> QED BY <1>15, <1>17, <1>18, <1>19, <1>20, <1>21 DEF Backtest!BacktestInv, Backtest!Braked

LEMMA BacktestStarts ==
    ASSUME Backtest!PanelAssumption, Backtest!LimitAssumption, Backtest!Init
    PROVE  Backtest!TypeOK /\ Backtest!BacktestInv
<1>1. /\ day = 0
      /\ bar = [a \in Assets |-> [o |-> FirstPrice, h |-> FirstPrice, l |-> FirstPrice, c |-> FirstPrice]]
      /\ age = [a \in Assets |-> 0] /\ fresh = [a \in Assets |-> TRUE]
      /\ equity = Bankroll /\ peak = Bankroll /\ cash = Bankroll /\ units = Backtest!Flat
      /\ \E w \in Asked : pending = Backtest!Capped(w)
      /\ killed = FALSE /\ killPending = FALSE /\ liquidated = FALSE /\ slipped = FALSE /\ ended = FALSE
    BY DEF Backtest!Init
<1>2. Bankroll \in Nat \ {0} /\ \A a \in Assets : Side[a] \in Nat
    BY Limits
<1>3. FirstPrice \in Nat \ {0} /\ FirstPrice \in DOMAIN NewBars
    BY DEF Backtest!PanelAssumption
<1>4. units = [a \in Assets |-> 0]
    BY <1>1 DEF Backtest!Flat
<1>5. pending \in [Assets -> Int]
    BY <1>1, Limits, CappedType
<1>6. Backtest!TypeOK
    <2>1. bar \in [Assets -> Backtest!Bars]
        BY <1>1, <1>3 DEF Backtest!Bars
    <2>2. \A a \in Assets : bar[a].l = FirstPrice /\ bar[a].h = FirstPrice /\ bar[a].c = FirstPrice
        BY <1>1
    <2>3. \A a \in Assets : bar[a].l <= bar[a].c /\ bar[a].c <= bar[a].h /\ bar[a].c \in DOMAIN NewBars
        BY <1>3, <2>2
    <2>4. units \in [Assets -> Int] /\ age \in [Assets -> Nat] /\ fresh \in [Assets -> BOOLEAN]
        BY <1>1, <1>4
    <2>5. day \in Nat /\ equity \in Nat /\ peak \in Nat /\ cash \in Int
        BY <1>1, <1>2
    <2>6. {killed, killPending, liquidated, slipped, ended} \subseteq BOOLEAN
        BY <1>1
    <2> QED BY <1>5, <2>1, <2>3, <2>4, <2>5, <2>6 DEF Backtest!TypeOK
<1>7. Backtest!LedgerExact
    <2> DEFINE x == [a \in Assets |-> units[a] * bar[a].c]
    <2>1. \A a \in Assets : units[a] = 0 /\ bar[a].c \in Nat
        BY <1>4, <1>6 DEF Backtest!TypeOK, Backtest!Bars
    <2>2. DOMAIN x = Assets /\ \A a \in Assets : x[a] = 0
        BY <2>1
    <2>3. Backtest!Ledger(units, bar, cash) = cash + Backtest!Total(x)
        BY DEF Backtest!Ledger
    <2> HIDE DEF x
    <2>4. Backtest!Total(x) = 0
        BY <2>2, TotalZero
    <2> QED BY <1>1, <1>2, <2>3, <2>4 DEF Backtest!LedgerExact
<1>8. Backtest!CanLeave
    <2> DEFINE x == [a \in Assets |-> Backtest!Abs(units[a]) * bar[a].c * Side[a]]
    <2>1. \A a \in Assets : Backtest!Abs(units[a]) = 0 /\ bar[a].c \in Nat
        BY <1>4, <1>6 DEF Backtest!TypeOK, Backtest!Bars, Backtest!Abs
    <2>2. \A a \in Assets : x[a] = (0 * bar[a].c) * Side[a]
        BY <2>1
    <2>3. \A a \in Assets : (0 * bar[a].c) * Side[a] = 0
        BY <1>2, <2>1
    <2>4. DOMAIN x = Assets /\ \A a \in Assets : x[a] = 0
        BY <2>2, <2>3
    <2>5. Backtest!CanLeave <=> (~ended => 100 * equity > Backtest!Total(x))
        BY DEF Backtest!CanLeave
    <2> HIDE DEF x
    <2>6. Backtest!Total(x) = 0
        BY <2>4, TotalZero
    <2> QED BY <1>1, <1>2, <2>5, <2>6
<1> QED BY <1>1, <1>6, <1>7, <1>8 DEF Backtest!BacktestInv, Backtest!KillDecides

LEMMA BacktestMoves ==
    ASSUME Backtest!PanelAssumption, Backtest!LimitAssumption, Backtest!CostAssumption,
           Backtest!TypeOK, Backtest!BacktestInv, [Backtest!Next]_(Backtest!vars)
    PROVE  Backtest!TypeOK' /\ Backtest!BacktestInv' /\ [Backtest!Braked]_(Backtest!vars)
<1>1. CASE Backtest!Next
    <2>1. ~ended
        BY <1>1 DEF Backtest!Next
    <2>2. PICK P \in SUBSET Assets \ {{}}, r \in Rates, w \in Asked :
              \E b \in Backtest!Panels(P) : Backtest!Day(P, b, r, w)
        BY <1>1 DEF Backtest!Next
    <2>3. PICK b \in Backtest!Panels(P) : Backtest!Day(P, b, r, w)
        BY <2>2
    <2> QED BY <2>1, <2>3, DayStep
<1>2. CASE UNCHANGED Backtest!vars
    <2>1. Backtest!TypeOK'
        BY <1>2 DEF Backtest!vars, Backtest!TypeOK, Backtest!Bars, Backtest!None
    <2>2. Backtest!LedgerExact'
        BY <1>2 DEF Backtest!vars, Backtest!BacktestInv, Backtest!LedgerExact, Backtest!Ledger
    <2>3. Backtest!CanLeave'
        BY <1>2 DEF Backtest!vars, Backtest!BacktestInv, Backtest!CanLeave, Backtest!Abs
    <2>4. Backtest!KillDecides'
        BY <1>2 DEF Backtest!vars, Backtest!BacktestInv, Backtest!KillDecides, Backtest!None, Backtest!Flat
    <2> QED BY <1>2, <2>1, <2>2, <2>3, <2>4 DEF Backtest!BacktestInv
<1> QED BY <1>1, <1>2

\* Equity is what a statement of account would say, after any days: cash paid and
\* received and the contracts at the close, as long as every trade was at the
\* previous close; and a book that was not liquidated can pay to leave.
THEOREM LedgerIsExact ==
    ASSUME Backtest!PanelAssumption, Backtest!LimitAssumption, Backtest!CostAssumption
    PROVE  Backtest!Spec => [](Backtest!LedgerExact /\ Backtest!CanLeave)
<1>1. Backtest!Init => Backtest!TypeOK /\ Backtest!BacktestInv
    BY BacktestStarts
<1>2. Backtest!TypeOK /\ Backtest!BacktestInv /\ [Backtest!Next]_(Backtest!vars)
      => Backtest!TypeOK' /\ Backtest!BacktestInv'
    BY BacktestMoves
<1>3. Backtest!BacktestInv => Backtest!LedgerExact /\ Backtest!CanLeave
    BY DEF Backtest!BacktestInv
<1> QED BY <1>1, <1>2, <1>3, PTL DEF Backtest!Spec

\* A position without a bar never grows, and after the drawdown kill a position
\* only shrinks.
THEOREM BrakesHoldOn ==
    ASSUME Backtest!PanelAssumption, Backtest!LimitAssumption, Backtest!CostAssumption
    PROVE  Backtest!Spec => [][Backtest!Braked]_(Backtest!vars)
<1>1. Backtest!Init => Backtest!TypeOK /\ Backtest!BacktestInv
    BY BacktestStarts
<1>2. Backtest!TypeOK /\ Backtest!BacktestInv /\ [Backtest!Next]_(Backtest!vars)
      => Backtest!TypeOK' /\ Backtest!BacktestInv'
    BY BacktestMoves
<1>3. Backtest!TypeOK /\ Backtest!BacktestInv /\ [Backtest!Next]_(Backtest!vars)
      => [Backtest!Braked]_(Backtest!vars)
    BY BacktestMoves
<1> QED BY <1>1, <1>2, <1>3, PTL DEF Backtest!Spec

-----------------------------------------------------------------------------
(* The two candle replays of the Kalshi desk.                              *)

CONSTANTS Windows, Candles, FillMode, OrderSizes, MinCount, MinRecent, MaxOpenTrades, StopPercent, Slippage,
          Fairs, Bankroll0, DayLength, LastMinute
VARIABLES leg, minute, candle, todo, purse, trades, pnl, session, quote, done

Replay == INSTANCE KalshiReplay WITH cash <- purse, day <- session

LEMMA ReplaySums ==
    ASSUME NEW f
    PROVE  Replay!SumFunction(f) = SumFunctionOnSet(f, DOMAIN f)
<1>1. Replay!SumFunctionOnSet(f, DOMAIN f) = SumFunctionOnSet(f, DOMAIN f)
    BY Zenon DEF Replay!SumFunctionOnSet, SumFunctionOnSet, Replay!FoldFunctionOnSet, FoldFunctionOnSet,
                 Replay!MapThenFoldSet, MapThenFoldSet
<1> QED BY <1>1 DEF Replay!SumFunction

LEMMA ReplaySets ==
    ASSUME NEW S
    PROVE  (Replay!IsFiniteSet(S) <=> IsFiniteSet(S)) /\ Replay!Cardinality(S) = Cardinality(S)
<1>1. Replay!IsFiniteSet(S) <=> IsFiniteSet(S)
    BY Zenon DEF Replay!IsFiniteSet, IsFiniteSet
<1>2. Replay!Cardinality(S) = Cardinality(S)
    BY Zenon DEF Replay!Cardinality, Cardinality
<1> QED BY <1>1, <1>2

\* A product of whole numbers is one, and so is what a trade cost.
LEMMA Product ==
    ASSUME NEW a \in Int, NEW b \in Int
    PROVE  a * b \in Int
OBVIOUS

LEMMA CostInt ==
    ASSUME NEW t \in Replay!Trade
    PROVE  Replay!Cost(t) \in Int /\ t.fee \in Int /\ Replay!Cost(t) + t.fee \in Int /\ 100 * t.count \in Nat
<1>1. t.count \in Nat /\ t.price \in Int /\ t.fee \in Int
    BY DEF Replay!Trade
<1>2. t.count * t.price \in Int
    BY <1>1, Product
<1> QED
    BY <1>1, <1>2 DEF Replay!Cost

\* The smaller of two numbers.
LEMMA MinOfTwo ==
    ASSUME NEW a \in Int, NEW b \in Int
    PROVE  Replay!Min({a, b}) \in {a, b}
<1> DEFINE P(x) == x \in {a, b} /\ \A y \in {a, b} : x <= y
<1>1. \E x : P(x)
    <2>1. CASE a <= b
        BY <2>1
    <2>2. CASE ~(a <= b)
        BY <2>2
    <2> QED BY <2>1, <2>2
<1>2. Replay!Min({a, b}) = CHOOSE x : P(x)
    BY Zenon DEF Replay!Min
<1> HIDE DEF P
<1>3. P(Replay!Min({a, b}))
    BY <1>1, <1>2, Zenon
<1> QED
    BY <1>3 DEF P

\* What is tied up in the open trades changes by what one of them cost.
LEMMA SpentAdds ==
    ASSUME NEW ts \in SUBSET Replay!Trade, IsFiniteSet(ts), NEW t \in Replay!Trade, t \notin ts
    PROVE  /\ Replay!Spent(ts) \in Int
           /\ Replay!Spent(ts \cup {t}) = Replay!Spent(ts) + (Replay!Cost(t) + t.fee)
<1> DEFINE f == [x \in ts |-> Replay!Cost(x) + x.fee]
           g == [x \in ts \cup {t} |-> Replay!Cost(x) + x.fee]
<1>1. \A x \in ts : f[x] \in Int /\ f[x] = g[x]
    BY CostInt
<1>2. g[t] = Replay!Cost(t) + t.fee /\ \A x \in ts \cup {t} : g[x] \in Int
    BY CostInt
<1>3. Replay!Spent(ts) = SumFunctionOnSet(f, ts) /\ Replay!Spent(ts \cup {t}) = SumFunctionOnSet(g, ts \cup {t})
    <2>1. DOMAIN f = ts /\ DOMAIN g = ts \cup {t}
        OBVIOUS
    <2>2. Replay!Spent(ts) = Replay!SumFunction(f) /\ Replay!Spent(ts \cup {t}) = Replay!SumFunction(g)
        BY Zenon DEF Replay!Spent
    <2> HIDE DEF f, g
    <2> QED BY <2>1, <2>2, ReplaySums
<1> HIDE DEF f, g
<1>4. SumFunctionOnSet(f, ts) \in Int /\ SumFunctionOnSet(f, ts) = SumFunctionOnSet(g, ts)
    BY <1>1, SumInt, SumSame
<1>5. SumFunctionOnSet(g, ts \cup {t}) = SumFunctionOnSet(g, ts) + g[t]
    BY <1>2, SumAdd
<1> QED
    BY <1>2, <1>3, <1>4, <1>5

LEMMA SpentRemoves ==
    ASSUME NEW ts \in SUBSET Replay!Trade, IsFiniteSet(ts), NEW t \in ts
    PROVE  /\ Replay!Spent(ts) \in Int /\ Replay!Spent(ts \ {t}) \in Int
           /\ Replay!Spent(ts \ {t}) = Replay!Spent(ts) - (Replay!Cost(t) + t.fee)
<1>1. /\ ts \ {t} \in SUBSET Replay!Trade /\ IsFiniteSet(ts \ {t}) /\ t \in Replay!Trade
      /\ t \notin ts \ {t} /\ (ts \ {t}) \cup {t} = ts
    BY FS_RemoveElement
<1>2. /\ Replay!Spent(ts \ {t}) \in Int
      /\ Replay!Spent((ts \ {t}) \cup {t}) = Replay!Spent(ts \ {t}) + (Replay!Cost(t) + t.fee)
    BY <1>1, SpentAdds
<1>3. Replay!Spent(ts) = Replay!Spent(ts \ {t}) + (Replay!Cost(t) + t.fee)
    BY <1>1, <1>2
<1> QED
    BY <1>1, <1>2, <1>3, CostInt

LEMMA InvestedInt ==
    ASSUME NEW ts \in SUBSET Replay!Trade, IsFiniteSet(ts)
    PROVE  Replay!Invested(ts) \in Int
<1> DEFINE f == [x \in ts |-> Replay!Cost(x)]
<1>1. \A x \in ts : f[x] \in Int
    BY CostInt
<1>2. DOMAIN f = ts /\ Replay!Invested(ts) = Replay!SumFunction(f)
    BY DEF Replay!Invested
<1> HIDE DEF f
<1> QED
    BY <1>1, <1>2, ReplaySums, SumInt

LEMMA CandleFields ==
    ASSUME Replay!ReplayAssumption, NEW c \in Candles
    PROVE  /\ c.bid \in Int /\ c.ask \in Int /\ c.bidOpen \in Int /\ c.askOpen \in Int /\ c.bidLow \in Int
           /\ c.askHigh \in Int /\ c.low \in Int /\ c.high \in Int /\ c.volume \in Nat /\ c.recent \in Nat
BY DEF Replay!ReplayAssumption

LEMMA PriceInt ==
    ASSUME NEW side, NEW bid \in Int, NEW ask \in Int
    PROVE  Replay!Price(side, bid, ask) \in Int
BY DEF Replay!Price

LEMMA FillPriceInt ==
    ASSUME Replay!ReplayAssumption, NEW side, NEW limit \in Int, NEW next \in Candles \cup {Replay!Missing}
    PROVE  Replay!FillPrice(side, limit, next) \in Int
<1>1. CASE next = Replay!Missing
    BY <1>1 DEF Replay!FillPrice
<1>2. CASE next # Replay!Missing
    <2> DEFINE worst == Replay!Price(side, next.bidLow, next.askHigh)
               open == Replay!Price(side, next.bidOpen, next.askOpen)
               close == Replay!Price(side, next.bid, next.ask)
    <2>1. worst \in Int /\ open \in Int /\ close \in Int
        BY <1>2, CandleFields, PriceInt
    <2>2. Slippage \in Int
        BY DEF Replay!ReplayAssumption
    <2>3. Replay!Min({open, limit}) \in Int
        <3> HIDE DEF open
        <3> QED BY <2>1, MinOfTwo
    <2>4. Replay!FillPrice(side, limit, next) =
              CASE next # Replay!Missing /\ FillMode = "lag" /\ worst <= limit /\ close <= limit ->
                       close + Slippage
                [] next # Replay!Missing /\ FillMode = "touch" /\ open <= limit ->
                       Replay!Min({open, limit}) + Slippage
                [] OTHER -> 0
        BY Zenon DEF Replay!FillPrice
    <2> HIDE DEF worst, open, close
    <2> QED BY <1>2, <2>1, <2>2, <2>3, <2>4
<1> QED BY <1>1, <1>2

LEMMA FillCountNat ==
    ASSUME Replay!ReplayAssumption, NEW n \in OrderSizes, NEW recent \in Nat
    PROVE  Replay!FillCount(n, recent) \in Nat
<1>1. n \in Nat
    BY DEF Replay!ReplayAssumption
<1>2. Replay!Min({n, recent}) \in Nat
    BY <1>1, MinOfTwo
<1> QED
    BY <1>1, <1>2 DEF Replay!FillCount

LEMMA FeeInt ==
    ASSUME NEW n \in Nat, NEW price \in Int
    PROVE  Replay!TakerFee(n, price) \in Int
<1>1. 7 * n \in Int /\ 100 - price \in Int
    OBVIOUS
<1>2. 7 * n * price \in Int
    BY <1>1, Product
<1>3. 7 * n * price * (100 - price) \in Int
    BY <1>1, <1>2, Product
<1> QED
    BY <1>3 DEF Replay!TakerFee, Replay!CeilDiv

\* A fill buys one trade, with cash there is.
Bought(t, m, side) ==
    /\ t \in Replay!Trade /\ t.market = m /\ t.side = side
    /\ Replay!Cost(t) + t.fee <= purse
    /\ purse' = purse - (Replay!Cost(t) + t.fee) /\ trades' = trades \cup {t}

LEMMA FillBuys ==
    ASSUME Replay!ReplayAssumption, Replay!TypeOK, NEW m \in Replay!Markets, NEW side \in {"yes", "no"},
           NEW n \in OrderSizes, NEW next \in Candles \cup {Replay!Missing},
           Replay!Live(candle[m]), Replay!Enter(m, side, n, next)
    PROVE  \E t : Bought(t, m, side)
<1> DEFINE limit == Replay!Price(side, candle[m].bid, candle[m].ask)
           price == Replay!FillPrice(side, limit, next)
           count == Replay!FillCount(n, candle[m].recent)
           fee == Replay!TakerFee(count, price)
           t == [market |-> m, side |-> side, count |-> count, price |-> price, fee |-> fee]
<1>1. candle[m] \in Candles
    BY DEF Replay!TypeOK, Replay!Live
<1>2. candle[m].bid \in Int /\ candle[m].ask \in Int /\ candle[m].recent \in Nat
    BY <1>1, CandleFields
<1>3. limit \in Int /\ count \in Nat
    BY <1>2, PriceInt, FillCountNat
<1>4. price \in Int
    <2> HIDE DEF limit
    <2> QED BY <1>3, FillPriceInt
<1>5. count * price + fee <= purse /\ Replay!Book(t)
    BY Zenon DEF Replay!Enter
<1> HIDE DEF limit, price, count
<1>6. fee \in Int /\ count * price \in Int /\ purse \in Int
    BY <1>3, <1>4, FeeInt, Product DEF Replay!TypeOK
<1> HIDE DEF fee
<1>7. t \in Replay!Trade
    BY <1>3, <1>4, <1>6 DEF Replay!Trade
<1>8. /\ t.market = m /\ t.side = side /\ t.fee = fee
      /\ Replay!Cost(t) = count * price
    BY DEF Replay!Cost
<1>9. purse' = purse - count * price - fee /\ trades' = trades \cup {t}
    BY <1>5 DEF Replay!Book
<1> HIDE DEF t
<1>10. Replay!Cost(t) + t.fee <= purse /\ purse' = purse - (Replay!Cost(t) + t.fee)
    <2> DEFINE x == count * price
    <2>1. x \in Int /\ x + fee <= purse /\ purse' = purse - x - fee /\ Replay!Cost(t) = x
        BY <1>5, <1>6, <1>8, <1>9
    <2> HIDE DEF x
    <2> QED BY <1>6, <1>8, <2>1
<1> QED
    BY <1>7, <1>8, <1>9, <1>10 DEF Bought

\* What a decision may do: nothing, or buy one trade that none of the open
\* ones stands against.
Bet(m, side, t) ==
    /\ side \in {"yes", "no"} /\ \A u \in trades : u.market # m
    /\ Cardinality(trades) < MaxOpenTrades
    /\ ~Replay!BlockedByCorr(m, side) /\ Bought(t, m, side)
Bets(m) == \E side, t : Bet(m, side, t)

Decided(m) ==
    /\ UNCHANGED <<leg, minute, pnl, quote, done>> /\ todo' = todo \ {m}
    /\ \E next \in Candles \cup {Replay!Missing} : candle' = [candle EXCEPT ![m] = next]
    /\ session' \in {session, Replay!DayStart}
    /\ UNCHANGED <<purse, trades>> \/ Bets(m)

LEMMA Decision ==
    ASSUME Replay!ReplayAssumption, Replay!TypeOK, NEW m \in Replay!Markets, Replay!Decide(m)
    PROVE  Decided(m)
<1> DEFINE reached == (\A t \in trades : t.market # m) /\ Replay!Cardinality(trades) < MaxOpenTrades
           Goes(next) ==
               /\ reached /\ Replay!Live(candle[m])
               /\ \E side \in {"yes", "no"}, n \in OrderSizes :
                     ~Replay!BlockedByCorr(m, side) /\ Replay!Enter(m, side, n, next)
<1>1. PICK next \in Candles \cup {Replay!Missing} :
          /\ candle' = [candle EXCEPT ![m] = next]
          /\ todo' = todo \ {m}
          /\ session' = (IF reached THEN Replay!DayStart ELSE session)
          /\ UNCHANGED <<purse, trades>> \/ Goes(next)
    BY DEF Replay!Decide
<1>2. ASSUME Goes(next) PROVE Bets(m)
    <2>1. PICK side \in {"yes", "no"}, n \in OrderSizes :
              ~Replay!BlockedByCorr(m, side) /\ Replay!Enter(m, side, n, next)
        BY <1>2
    <2>2. PICK t : Bought(t, m, side)
        BY <1>2, <2>1, FillBuys
    <2>3. (\A u \in trades : u.market # m) /\ Cardinality(trades) < MaxOpenTrades
        BY <1>2, ReplaySets
    <2>4. side \in {"yes", "no"} /\ ~Replay!BlockedByCorr(m, side)
        BY <2>1
    <2>5. Bet(m, side, t)
        BY <2>2, <2>3, <2>4 DEF Bet
    <2> QED BY <2>5, Zenon DEF Bets
<1>3. UNCHANGED <<leg, minute, pnl, quote, done>>
    <2>1. UNCHANGED <<leg, minute, pnl, Replay!makerVars>>
        BY Zenon DEF Replay!Decide
    <2> QED BY <2>1 DEF Replay!makerVars
<1> HIDE DEF reached
<1>4. session' \in {session, Replay!DayStart}
    BY <1>1, Zenon
<1> HIDE DEF Goes
<1>5. UNCHANGED <<purse, trades>> \/ Bets(m)
    BY <1>1, <1>2
<1> QED
    BY <1>1, <1>3, <1>4, <1>5, Zenon DEF Decided

LEMMA DecideTypes ==
    ASSUME Replay!ReplayAssumption, Replay!TypeOK, NEW m \in Replay!Markets, Decided(m)
    PROVE  Replay!TypeOK'
<1>1. PICK next \in Candles \cup {Replay!Missing} : candle' = [candle EXCEPT ![m] = next]
    BY DEF Decided
<1>2. candle' \in [Replay!Markets -> Candles \cup {Replay!Missing}]
    BY <1>1 DEF Replay!TypeOK
<1>3. session' \in [number : Int, pnl : Int, start : Int]
    <2>1. session \in [number : Int, pnl : Int, start : Int] /\ purse \in Int
        BY DEF Replay!TypeOK
    <2>2. Replay!Invested(trades) \in Int
        BY ReplaySets, InvestedInt DEF Replay!TypeOK
    <2>3. Replay!DayStart \in [number : Int, pnl : Int, start : Int]
        <3> DEFINE n == purse + Replay!Invested(trades)
        <3>1. n \in Int /\ Replay!DayStart = IF session.start = -1 THEN [session EXCEPT !.start = n] ELSE session
            BY <2>1, <2>2 DEF Replay!DayStart
        <3> HIDE DEF n
        <3> QED BY <2>1, <3>1
    <2> QED BY <2>1, <2>3 DEF Decided
<1>4. /\ purse' \in Int
      /\ trades' \in SUBSET Replay!Trade /\ Replay!IsFiniteSet(trades')
    <2>0. purse \in Int /\ trades \in SUBSET Replay!Trade /\ IsFiniteSet(trades)
        BY ReplaySets DEF Replay!TypeOK
    <2>1. CASE UNCHANGED <<purse, trades>>
        BY <2>0, <2>1, ReplaySets
    <2>2. CASE Bets(m)
        <3>1. PICK side, t : Bought(t, m, side)
            BY <2>2 DEF Bets, Bet
        <3>2. t \in Replay!Trade /\ trades' = trades \cup {t} /\ purse' = purse - (Replay!Cost(t) + t.fee)
            BY <3>1 DEF Bought
        <3>3. IsFiniteSet(trades') /\ Replay!Cost(t) + t.fee \in Int
            BY <2>0, <3>2, FS_AddElement, CostInt
        <3>4. purse' \in Int
            BY <2>0, <3>2, <3>3
        <3> QED BY <2>0, <3>2, <3>3, <3>4, ReplaySets
    <2> QED BY <2>1, <2>2 DEF Decided
<1>5. leg' = leg /\ minute' = minute /\ pnl' = pnl /\ quote' = quote /\ done' = done /\ todo' = todo \ {m}
    BY DEF Decided
<1>6. /\ (leg \in {"taker", "maker"} /\ minute \in Int /\ pnl \in Int)'
      /\ (quote \in {Replay!NoQuote} \cup Replay!RestingQuote /\ done \in SUBSET Replay!Modes)'
    BY <1>5 DEF Replay!TypeOK
<1>7. todo' \in SUBSET Replay!Markets
    BY <1>5 DEF Replay!TypeOK
<1> QED
    BY Zenon, <1>2, <1>3, <1>4, <1>6, <1>7 DEF Replay!TypeOK

LEMMA DecideKept ==
    ASSUME Replay!ReplayAssumption, Replay!TypeOK, Replay!ReplayInv, NEW m \in Replay!Markets, Decided(m)
    PROVE  Replay!ReplayInv'
<1>0. trades \in SUBSET Replay!Trade /\ IsFiniteSet(trades) /\ purse \in Int /\ pnl \in Int /\ Bankroll0 \in Int
    BY ReplaySets DEF Replay!TypeOK, Replay!ReplayAssumption
<1>1. purse + Replay!Spent(trades) = Bankroll0 + pnl /\ purse >= 0
    BY DEF Replay!ReplayInv, Replay!ReplaysHonest, Replay!ReportedPnlIsCash
<1>2. done' = done /\ pnl' = pnl
    BY DEF Decided
<1>3. Replay!AdverseIsLowerBound'
    BY <1>2 DEF Replay!ReplayInv, Replay!ReplaysHonest, Replay!AdverseIsLowerBound
<1>4. CASE UNCHANGED <<purse, trades>>
    <2>1. Replay!ReportedPnlIsCash'
        BY <1>1, <1>2, <1>4 DEF Replay!ReportedPnlIsCash
    <2>2. Replay!BetsApart' /\ (Replay!Cardinality(trades) <= MaxOpenTrades)'
        BY <1>4 DEF Replay!BetsApart, Replay!ReplayInv
    <2> QED BY <1>3, <2>1, <2>2 DEF Replay!ReplayInv, Replay!ReplaysHonest
<1>5. CASE Bets(m)
    <2>1. PICK side, t :
              /\ side \in {"yes", "no"} /\ \A u \in trades : u.market # m
              /\ Cardinality(trades) < MaxOpenTrades
              /\ ~Replay!BlockedByCorr(m, side) /\ Bought(t, m, side)
        BY <1>5 DEF Bets, Bet
    <2>2. /\ t \in Replay!Trade /\ t.market = m /\ t.side = side
          /\ Replay!Cost(t) + t.fee <= purse
          /\ purse' = purse - (Replay!Cost(t) + t.fee) /\ trades' = trades \cup {t}
        BY <2>1 DEF Bought
    <2>3. t \notin trades
        BY <2>1, <2>2
    <2>4. /\ Replay!Spent(trades) \in Int /\ Replay!Cost(t) + t.fee \in Int
          /\ Replay!Spent(trades \cup {t}) = Replay!Spent(trades) + (Replay!Cost(t) + t.fee)
        BY <1>0, <2>2, <2>3, SpentAdds, CostInt
    <2>5. Replay!ReportedPnlIsCash'
        <3> DEFINE s == Replay!Spent(trades)
                   c == Replay!Cost(t) + t.fee
        <3>1. s \in Int /\ c \in Int /\ c <= purse /\ purse' = purse - c /\ purse + s = Bankroll0 + pnl
            BY <1>1, <2>2, <2>4
        <3>2. Replay!Spent(trades)' = s + c
            BY <2>2, <2>4 DEF Replay!Spent, Replay!Cost
        <3> HIDE DEF s, c
        <3>3. purse' + (s + c) = Bankroll0 + pnl /\ purse' >= 0
            BY <1>0, <3>1
        <3> QED BY <1>2, <3>2, <3>3 DEF Replay!ReportedPnlIsCash
    <2>6. Replay!BetsApart'
        <3>1. \A u \in trades : ~(Windows[u.market].group = Windows[m].group /\ u.side = side)
            BY <2>1 DEF Replay!BlockedByCorr
        <3>2. \A u, v \in trades :
                  u.market = v.market \/ (Windows[u.market].group = Windows[v.market].group /\ u.side = v.side)
                      => u = v
            BY DEF Replay!ReplayInv, Replay!BetsApart
        <3> QED BY <2>1, <2>2, <3>1, <3>2, SMTT(30) DEF Replay!BetsApart
    <2>7. (Replay!Cardinality(trades) <= MaxOpenTrades)'
        <3>1. Cardinality(trades \cup {t}) = Cardinality(trades) + 1 /\ Cardinality(trades) \in Nat
            BY <1>0, <2>3, FS_AddElement, FS_CardinalityType
        <3>2. MaxOpenTrades \in Nat
            BY DEF Replay!ReplayAssumption
        <3>3. Cardinality(trades) < MaxOpenTrades /\ Replay!Cardinality(trades') = Cardinality(trades \cup {t})
            BY <2>1, <2>2, ReplaySets
        <3> QED BY <3>1, <3>2, <3>3
    <2> QED BY <1>3, <2>5, <2>6, <2>7 DEF Replay!ReplayInv, Replay!ReplaysHonest
<1> QED
    BY <1>4, <1>5 DEF Decided

\* A settlement pays what the trade had tied up and what it made.
LEMMA SettleKept ==
    ASSUME Replay!ReplayAssumption, Replay!TypeOK, Replay!ReplayInv, Replay!Settle
    PROVE  Replay!TypeOK' /\ Replay!ReplayInv'
<1>0. /\ trades \in SUBSET Replay!Trade /\ IsFiniteSet(trades) /\ purse \in Int /\ pnl \in Int
      /\ Bankroll0 \in Int /\ session \in [number : Int, pnl : Int, start : Int] /\ MaxOpenTrades \in Nat
    BY ReplaySets DEF Replay!TypeOK, Replay!ReplayAssumption
<1>1. PICK t \in trades, win \in BOOLEAN :
          /\ trades' = trades \ {t}
          /\ purse' = purse + Replay!Payout(t, win).cash
          /\ pnl' = pnl + Replay!Payout(t, win).pnl
          /\ session' = [session EXCEPT !.pnl = @ + Replay!Payout(t, win).pnl]
    BY DEF Replay!Settle
<1> DEFINE c == Replay!Cost(t) + t.fee
           p == IF win THEN 100 * t.count ELSE 0
<1>2. c \in Int /\ p \in Nat /\ Replay!Payout(t, win).cash = p /\ Replay!Payout(t, win).pnl = p - c
    <2>1. t \in Replay!Trade
        BY <1>0
    <2>2. Replay!Cost(t) \in Int /\ t.fee \in Int /\ 100 * t.count \in Nat
        BY <2>1, CostInt
    <2>3. /\ Replay!Payout(t, win).cash = p
          /\ Replay!Payout(t, win).pnl = p - Replay!Cost(t) - t.fee
        BY DEF Replay!Payout
    <2>4. c \in Int /\ p \in Nat
        BY <2>2
    <2> HIDE DEF p
    <2> QED BY <2>2, <2>3, <2>4
<1>3. UNCHANGED <<leg, minute, candle, todo, quote, done>>
    <2>1. UNCHANGED <<leg, minute, candle, todo, Replay!makerVars>>
        BY Zenon DEF Replay!Settle
    <2> QED BY <2>1 DEF Replay!makerVars
<1>4. /\ Replay!Spent(trades) \in Int /\ Replay!Spent(trades \ {t}) = Replay!Spent(trades) - c
      /\ Replay!Spent(trades)' = Replay!Spent(trades \ {t})
    <2>1. Replay!Spent(trades)' = Replay!Spent(trades')
        BY DEF Replay!Spent, Replay!Cost
    <2> QED BY <1>0, <1>1, <2>1, SpentRemoves
<1> HIDE DEF c, p
<1>5. /\ trades' = trades \ {t} /\ purse' = purse + p /\ pnl' = pnl + (p - c)
      /\ session' = [session EXCEPT !.pnl = @ + (p - c)]
    BY <1>1, <1>2
<1>6. IsFiniteSet(trades') /\ Cardinality(trades') <= Cardinality(trades) /\ Cardinality(trades) \in Nat
      /\ Cardinality(trades') \in Nat
    <2>1. IsFiniteSet(trades \ {t}) /\ Cardinality(trades \ {t}) = Cardinality(trades) - 1
        BY <1>0, FS_RemoveElement
    <2>2. Cardinality(trades) \in Nat /\ Cardinality(trades \ {t}) \in Nat
        BY <1>0, <2>1, FS_CardinalityType
    <2>3. trades' = trades \ {t}
        BY <1>5
    <2> QED BY <2>1, <2>2, <2>3
<1>7. Replay!TypeOK'
    <2>1. /\ purse' \in Int /\ pnl' \in Int /\ session' \in [number : Int, pnl : Int, start : Int]
          /\ trades' \in SUBSET Replay!Trade
        BY <1>0, <1>2, <1>5
    <2>2. Replay!IsFiniteSet(trades')
        BY <1>6, ReplaySets
    <2>3. /\ (leg \in {"taker", "maker"} /\ minute \in Int /\ todo \in SUBSET Replay!Markets)'
          /\ (candle \in [Replay!Markets -> Candles \cup {Replay!Missing}])'
          /\ (quote \in {Replay!NoQuote} \cup Replay!RestingQuote /\ done \in SUBSET Replay!Modes)'
        BY <1>3 DEF Replay!TypeOK
    <2> QED BY <2>1, <2>2, <2>3, Zenon DEF Replay!TypeOK
<1>8. Replay!ReportedPnlIsCash'
    <2>1. purse + Replay!Spent(trades) = Bankroll0 + pnl /\ purse >= 0
        BY DEF Replay!ReplayInv, Replay!ReplaysHonest, Replay!ReportedPnlIsCash
    <2> DEFINE s == Replay!Spent(trades)
    <2>2. s \in Int /\ purse + s = Bankroll0 + pnl /\ Replay!Spent(trades)' = s - c
        BY <1>4, <2>1
    <2> HIDE DEF s
    <2>3. purse' + (s - c) = Bankroll0 + pnl' /\ purse' >= 0
        BY <1>0, <1>2, <1>5, <2>1, <2>2
    <2> QED BY <2>2, <2>3 DEF Replay!ReportedPnlIsCash
<1>9. Replay!AdverseIsLowerBound'
    BY <1>3 DEF Replay!ReplayInv, Replay!ReplaysHonest, Replay!AdverseIsLowerBound
<1>10. Replay!BetsApart'
    BY <1>5 DEF Replay!ReplayInv, Replay!BetsApart
<1>11. (Replay!Cardinality(trades) <= MaxOpenTrades)'
    <2>1. Replay!Cardinality(trades') = Cardinality(trades') /\ Replay!Cardinality(trades) = Cardinality(trades)
        BY ReplaySets
    <2>2. Cardinality(trades) <= MaxOpenTrades
        BY <2>1 DEF Replay!ReplayInv
    <2> QED BY <1>0, <1>6, <2>1, <2>2
<1> QED
    BY <1>7, <1>8, <1>9, <1>10, <1>11 DEF Replay!ReplayInv, Replay!ReplaysHonest

LEMMA NextMinuteKept ==
    ASSUME Replay!ReplayAssumption, Replay!TypeOK, Replay!ReplayInv, Replay!NextMinute
    PROVE  Replay!TypeOK' /\ Replay!ReplayInv'
<1>1. UNCHANGED <<leg, candle, purse, trades, pnl, quote, done>>
    <2>1. UNCHANGED <<leg, candle, purse, trades, pnl, Replay!makerVars>>
        BY Zenon DEF Replay!NextMinute
    <2> QED BY <2>1 DEF Replay!makerVars
<1>2. minute' \in Int
    BY DEF Replay!NextMinute, Replay!TypeOK
<1>3. session' \in [number : Int, pnl : Int, start : Int]
    <2> DEFINE n == minute' \div DayLength
    <2>1. n \in Int
        BY <1>2 DEF Replay!ReplayAssumption
    <2>2. session' \in {session, [number |-> n, pnl |-> 0, start |-> -1]}
        <3>1. session' = IF n = session.number THEN session ELSE [number |-> n, pnl |-> 0, start |-> -1]
            BY Zenon DEF Replay!NextMinute
        <3> HIDE DEF n
        <3> QED BY <3>1
    <2> HIDE DEF n
    <2> QED BY <2>1, <2>2 DEF Replay!TypeOK
<1>4. todo' \in SUBSET Replay!Markets
    <2>1. todo' = Replay!Deciding(minute')
        BY Zenon DEF Replay!NextMinute
    <2>2. Replay!Deciding(minute') \subseteq Replay!Markets
        BY DEF Replay!Deciding
    <2> QED BY <2>1, <2>2
<1>5. /\ (leg \in {"taker", "maker"} /\ purse \in Int /\ pnl \in Int)'
      /\ (trades \in SUBSET Replay!Trade /\ Replay!IsFiniteSet(trades))'
      /\ (candle \in [Replay!Markets -> Candles \cup {Replay!Missing}])'
      /\ (quote \in {Replay!NoQuote} \cup Replay!RestingQuote /\ done \in SUBSET Replay!Modes)'
    BY <1>1 DEF Replay!TypeOK
<1>6. Replay!TypeOK'
    BY <1>2, <1>3, <1>4, <1>5, Zenon DEF Replay!TypeOK
<1>7. Replay!ReplayInv'
    BY <1>1 DEF Replay!ReplayInv, Replay!ReplaysHonest, Replay!ReportedPnlIsCash, Replay!AdverseIsLowerBound,
                Replay!BetsApart
<1> QED BY <1>6, <1>7

\* A quote of the maker has a price.
LEMMA MadeQuote ==
    ASSUME NEW side \in {"yes", "no"}, NEW fair \in Int, NEW touch \in Int, NEW other \in Int
    PROVE  Replay!MakeQuote(side, fair, touch, other) \in {Replay!NoQuote} \cup Replay!RestingQuote
<1> DEFINE bold == Replay!Min({fair - 4, touch + 1})
           price == IF bold >= other THEN other - 1 ELSE bold
<1>1. bold \in Int
    <2>1. fair - 4 \in Int /\ touch + 1 \in Int
        OBVIOUS
    <2>2. bold \in {fair - 4, touch + 1}
        BY <2>1, MinOfTwo
    <2> HIDE DEF bold
    <2> QED BY <2>1, <2>2
<1>2. price \in Int
    <2> HIDE DEF bold
    <2> QED BY <1>1
<1>3. Replay!MakeQuote(side, fair, touch, other) =
          IF price < 35 \/ price > 90 \/ fair - price < 4 THEN Replay!NoQuote
          ELSE [side |-> side, price |-> price, fair |-> fair, volume |-> 0]
    BY Zenon DEF Replay!MakeQuote
<1> HIDE DEF price
<1> QED
    BY <1>2, <1>3 DEF Replay!RestingQuote

LEMMA QuoteMade ==
    ASSUME Replay!ReplayAssumption, NEW c \in Candles, NEW fair \in Int
    PROVE  Replay!Quote(fair, c) \in {Replay!NoQuote} \cup Replay!RestingQuote
<1>1. c.bid \in Int /\ c.ask \in Int
    BY CandleFields
<1>2. Replay!MakeQuote("yes", fair, c.bid, c.ask) \in {Replay!NoQuote} \cup Replay!RestingQuote
    BY <1>1, MadeQuote
<1>3. Replay!MakeQuote("no", 100 - fair, 100 - c.ask, 100 - c.bid) \in {Replay!NoQuote} \cup Replay!RestingQuote
    <2>1. 100 - fair \in Int /\ 100 - c.ask \in Int /\ 100 - c.bid \in Int
        BY <1>1
    <2> QED BY <2>1, MadeQuote
<1> QED
    BY <1>2, <1>3 DEF Replay!Quote

\* Prints beyond a level are prints at it.
LEMMA ThroughTouches ==
    ASSUME NEW q \in Replay!RestingQuote, NEW c \in Candles, Replay!ReplayAssumption, Replay!Through(q, c)
    PROVE  Replay!Touched(q, c)
<1>1. c.low \in Int /\ c.high \in Int /\ q.price \in Int
    BY CandleFields DEF Replay!RestingQuote
<1> QED
    BY <1>1 DEF Replay!Through, Replay!Touched

\* The opinion of a minute is a number.
LEMMA OpinionInt ==
    ASSUME Replay!ReplayAssumption, NEW c \in Candles \cup {Replay!Missing}, NEW fair \in Replay!Opinions(c)
    PROVE  fair \in Int
<1>1. CASE fair \in Fairs
    BY <1>1 DEF Replay!ReplayAssumption
<1>2. CASE fair \notin Fairs
    <2>1. Replay!Live(c) /\ fair = (c.bid + c.ask) \div 2
        BY <1>2 DEF Replay!Opinions
    <2>2. c \in Candles
        BY <2>1 DEF Replay!Live
    <2>3. c.bid \in Int /\ c.ask \in Int
        BY <2>2, CandleFields
    <2> QED BY <2>1, <2>3
<1> QED BY <1>1, <1>2

\* What a minute does to the quote: nothing, a new one or none, or a test of it.
Tested(c) ==
    /\ quote # Replay!NoQuote
    /\ quote' = [quote EXCEPT !.volume = Replay!Printed(quote, c)]
    /\ done' = done \cup {mode \in Replay!Modes : Replay!FilledIn(mode, quote, c)}

LEMMA MakerKept ==
    ASSUME Replay!ReplayAssumption, Replay!TypeOK, Replay!ReplayInv, NEW m \in Replay!Markets,
           NEW c \in Candles \cup {Replay!Missing}, NEW fair \in Replay!Opinions(c),
           Replay!MakerMinute(m, c, fair)
    PROVE  Replay!TypeOK' /\ Replay!ReplayInv'
<1>0. fair \in Int
    BY OpinionInt
<1>1. /\ UNCHANGED <<leg, todo, purse, trades, pnl, session>>
      /\ minute' = minute + 1 /\ candle' = [candle EXCEPT ![m] = c]
    <2>1. UNCHANGED <<leg, todo, Replay!takerVars>>
        BY Zenon DEF Replay!MakerMinute
    <2>2. minute' = minute + 1 /\ candle' = [candle EXCEPT ![m] = c]
        BY Zenon DEF Replay!MakerMinute
    <2> QED BY <2>1, <2>2 DEF Replay!takerVars
<1>2. \/ quote' = quote /\ done' = done
      \/ c \in Candles /\ quote' \in {Replay!NoQuote, Replay!Quote(fair, c)} /\ done' = done
      \/ c \in Candles /\ Tested(c)
    <2> DEFINE tau == Windows[m].close - minute'
               own == IF quote.side = "yes" THEN fair ELSE 100 - fair
               keep == own >= quote.fair - 2 /\ tau >= 3
               post == IF tau \in 3 .. 11 THEN Replay!Quote(fair, c) ELSE Replay!NoQuote
    <2>1. \/ ~Replay!Live(c) /\ UNCHANGED Replay!makerVars
          \/ Replay!Live(c) /\ quote = Replay!NoQuote /\ UNCHANGED done /\ quote' = post
          \/ Replay!Live(c) /\ quote # Replay!NoQuote /\ ~keep /\ quote' = Replay!NoQuote /\ UNCHANGED done
          \/ Replay!Live(c) /\ keep /\ Tested(c)
        BY Zenon DEF Replay!MakerMinute, Tested
    <2>2. Replay!Live(c) => c \in Candles
        BY DEF Replay!Live
    <2>3. UNCHANGED Replay!makerVars => quote' = quote /\ done' = done
        BY DEF Replay!makerVars
    <2>4. post \in {Replay!NoQuote, Replay!Quote(fair, c)}
        <3> HIDE DEF tau
        <3> QED OBVIOUS
    <2> HIDE DEF tau, own, keep, post
    <2> QED BY <2>1, <2>2, <2>3, <2>4
<1>3. quote \in {Replay!NoQuote} \cup Replay!RestingQuote /\ done \in SUBSET Replay!Modes
    BY DEF Replay!TypeOK
<1>4. ("adverse" \in done => "queue" \in done)
    BY DEF Replay!ReplayInv, Replay!ReplaysHonest, Replay!AdverseIsLowerBound
<1>5. /\ quote' \in {Replay!NoQuote} \cup Replay!RestingQuote /\ done' \in SUBSET Replay!Modes
      /\ "adverse" \in done' => "queue" \in done'
    <2>1. CASE quote' = quote /\ done' = done
        BY <1>3, <1>4, <2>1
    <2>2. CASE c \in Candles /\ quote' \in {Replay!NoQuote, Replay!Quote(fair, c)} /\ done' = done
        BY <1>0, <1>3, <1>4, <2>2, QuoteMade
    <2>3. CASE c \in Candles /\ Tested(c)
        <3>1. quote \in Replay!RestingQuote
            BY <1>3, <2>3 DEF Tested
        <3>2. Replay!Printed(quote, c) \in Int
            BY <2>3, <3>1, CandleFields DEF Replay!Printed, Replay!RestingQuote
        <3>3. quote' \in Replay!RestingQuote
            <4> DEFINE v == Replay!Printed(quote, c)
            <4>1. v \in Int /\ quote' = [quote EXCEPT !.volume = v]
                BY <2>3, <3>2 DEF Tested
            <4> HIDE DEF v
            <4> QED BY <3>1, <4>1 DEF Replay!RestingQuote
        <3>4. Replay!FilledIn("adverse", quote, c) => Replay!FilledIn("queue", quote, c)
            <4>1. Replay!Through(quote, c) => Replay!Touched(quote, c)
                BY <2>3, <3>1, ThroughTouches
            <4> QED BY <4>1 DEF Replay!FilledIn
        <3>5. done' = done \cup {mode \in Replay!Modes : Replay!FilledIn(mode, quote, c)}
            BY <2>3 DEF Tested
        <3>6. "adverse" \in done' => "queue" \in done'
            BY <1>4, <3>4, <3>5 DEF Replay!Modes
        <3> QED BY <1>3, <3>3, <3>5, <3>6
    <2> QED BY <1>2, <2>1, <2>2, <2>3
<1>6. Replay!TypeOK'
    <2>1. /\ (leg \in {"taker", "maker"} /\ todo \in SUBSET Replay!Markets)'
          /\ (purse \in Int /\ pnl \in Int /\ session \in [number : Int, pnl : Int, start : Int])'
          /\ (trades \in SUBSET Replay!Trade /\ Replay!IsFiniteSet(trades))'
        BY <1>1 DEF Replay!TypeOK
    <2>2. minute' \in Int /\ candle' \in [Replay!Markets -> Candles \cup {Replay!Missing}]
        BY <1>1 DEF Replay!TypeOK
    <2>3. (quote \in {Replay!NoQuote} \cup Replay!RestingQuote /\ done \in SUBSET Replay!Modes)'
        BY <1>5
    <2> QED BY <2>1, <2>2, <2>3, Zenon DEF Replay!TypeOK
<1>7. Replay!ReplayInv'
    <2>1. Replay!AdverseIsLowerBound'
        BY <1>5 DEF Replay!AdverseIsLowerBound
    <2>2. Replay!ReportedPnlIsCash'
        BY <1>1 DEF Replay!ReplayInv, Replay!ReplaysHonest, Replay!ReportedPnlIsCash
    <2>3. Replay!BetsApart' /\ (Replay!Cardinality(trades) <= MaxOpenTrades)'
        BY <1>1 DEF Replay!ReplayInv, Replay!BetsApart
    <2> QED BY <2>1, <2>2, <2>3 DEF Replay!ReplayInv, Replay!ReplaysHonest
<1> QED BY <1>6, <1>7

LEMMA ReplayInitial ==
    ASSUME Replay!ReplayAssumption, Replay!Init
    PROVE  Replay!TypeOK /\ Replay!ReplayInv
<1>1. /\ candle \in [Replay!Markets -> Candles] /\ purse = Bankroll0 /\ trades = {} /\ pnl = 0
      /\ session = [number |-> 0, pnl |-> 0, start |-> -1] /\ quote = Replay!NoQuote /\ done = {}
    BY DEF Replay!Init
<1>2. leg \in {"taker", "maker"} /\ minute \in Int /\ todo \in SUBSET Replay!Markets
    <2>1. CASE leg = "taker" /\ minute = 0 /\ todo = {}
        BY <2>1
    <2>2. CASE leg = "maker" /\ \E m \in Replay!Markets : minute = Windows[m].open /\ todo = {m}
        BY <2>2 DEF Replay!ReplayAssumption, Replay!Markets
    <2> QED BY <2>1, <2>2 DEF Replay!Init
<1>3. Bankroll0 \in Nat /\ MaxOpenTrades \in Nat
    BY DEF Replay!ReplayAssumption
<1>4. IsFiniteSet({}) /\ Cardinality({}) = 0
    BY FS_EmptySet
<1>5. Replay!IsFiniteSet(trades) /\ Replay!Cardinality(trades) <= MaxOpenTrades
    BY <1>1, <1>3, <1>4, ReplaySets
<1>6. Replay!TypeOK
    <2>1. candle \in [Replay!Markets -> Candles \cup {Replay!Missing}]
        BY <1>1
    <2> QED BY <1>1, <1>2, <1>3, <1>5, <2>1 DEF Replay!TypeOK
<1>7. Replay!Spent(trades) = 0
    <2> DEFINE f == [t \in trades |-> Replay!Cost(t) + t.fee]
    <2>1. DOMAIN f = {} /\ Replay!Spent(trades) = Replay!SumFunction(f)
        BY <1>1 DEF Replay!Spent
    <2> HIDE DEF f
    <2> QED BY <2>1, ReplaySums, SumEmpty
<1>8. Replay!ReportedPnlIsCash /\ Replay!AdverseIsLowerBound /\ Replay!BetsApart
    BY <1>1, <1>3, <1>7 DEF Replay!ReportedPnlIsCash, Replay!AdverseIsLowerBound, Replay!BetsApart
<1> QED
    BY <1>5, <1>6, <1>8 DEF Replay!ReplayInv, Replay!ReplaysHonest

LEMMA ReplayStep ==
    ASSUME Replay!ReplayAssumption, Replay!TypeOK, Replay!ReplayInv, [Replay!Next]_(Replay!replayVars)
    PROVE  Replay!TypeOK' /\ Replay!ReplayInv'
<1>1. ASSUME NEW m \in Replay!Markets, Replay!Decide(m) PROVE Replay!TypeOK' /\ Replay!ReplayInv'
    <2>1. Decided(m)
        BY <1>1, Decision
    <2> QED BY <2>1, DecideTypes, DecideKept
<1>2. CASE Replay!Settle
    BY <1>2, SettleKept
<1>3. CASE Replay!NextMinute
    BY <1>3, NextMinuteKept
<1>4. ASSUME NEW m \in Replay!Markets, NEW c \in Candles \cup {Replay!Missing}, NEW fair \in Replay!Opinions(c),
             Replay!MakerMinute(m, c, fair)
      PROVE  Replay!TypeOK' /\ Replay!ReplayInv'
    BY <1>4, MakerKept
<1>5. CASE UNCHANGED Replay!replayVars
    <2>1. UNCHANGED <<leg, minute, candle, todo, purse, trades, pnl, session, quote, done>>
        BY <1>5 DEF Replay!replayVars, Replay!takerVars, Replay!makerVars
    <2>2. Replay!TypeOK'
        BY <2>1 DEF Replay!TypeOK
    <2>3. Replay!ReplayInv'
        BY <2>1 DEF Replay!ReplayInv, Replay!ReplaysHonest, Replay!ReportedPnlIsCash, Replay!AdverseIsLowerBound,
                    Replay!BetsApart
    <2> QED BY <2>2, <2>3
<1>6. CASE Replay!Next
    BY <1>1, <1>2, <1>3, <1>4, <1>6 DEF Replay!Next
<1> QED
    BY <1>5, <1>6

\* What a replay reports is what happened to its cash, whatever trades of
\* several markets and days it interleaves, and the adverse fill model of the
\* maker never fills what the queue model leaves unfilled.
THEOREM ReplaysAreHonest ==
    ASSUME Replay!ReplayAssumption
    PROVE  Replay!Spec => []Replay!ReplaysHonest
<1>1. Replay!Init => Replay!TypeOK /\ Replay!ReplayInv
    BY ReplayInitial
<1>2. Replay!TypeOK /\ Replay!ReplayInv /\ [Replay!Next]_(Replay!replayVars)
          => Replay!TypeOK' /\ Replay!ReplayInv'
    BY ReplayStep
<1>3. Replay!ReplayInv => Replay!ReplaysHonest
    BY DEF Replay!ReplayInv
<1> QED
    BY <1>1, <1>2, <1>3, PTL DEF Replay!Spec

\* The open trades of a replay are never more than allowed, at most one a
\* market and one on each side of a group, whatever minutes filled them.
THEOREM BetsStayApart ==
    ASSUME Replay!ReplayAssumption
    PROVE  Replay!Spec => [](Replay!BetsApart /\ Replay!Cardinality(trades) <= MaxOpenTrades)
<1>1. Replay!Init => Replay!TypeOK /\ Replay!ReplayInv
    BY ReplayInitial
<1>2. Replay!TypeOK /\ Replay!ReplayInv /\ [Replay!Next]_(Replay!replayVars)
          => Replay!TypeOK' /\ Replay!ReplayInv'
    BY ReplayStep
<1>3. Replay!ReplayInv => Replay!BetsApart /\ Replay!Cardinality(trades) <= MaxOpenTrades
    BY DEF Replay!ReplayInv
<1> QED
    BY <1>1, <1>2, <1>3, PTL DEF Replay!Spec

-----------------------------------------------------------------------------
(* The crypto strategies, live and replayed.                               *)

CONSTANTS Families, Prices, LastHour, HoursPerDay, Recent, Fast, Slow, MinHold, Cooldown, TargetVol
VARIABLES family, market, cached, gapped, decided

Coin == INSTANCE CryptoSignals WITH MaxHour <- LastHour

\* A finite set of numbers has a highest one, and a lowest.
LEMMA HasHighest ==
    ASSUME NEW S \in SUBSET Int, IsFiniteSet(S), S # {}
    PROVE  \E x \in S : \A y \in S : y <= x
<1> DEFINE G == {T \in SUBSET S : T # {} => \E x \in T : \A y \in T : y <= x}
<1>1. {} \in G
    OBVIOUS
<1>2. \A T \in SUBSET S, z \in S : T \in G => T \cup {z} \in G
    <2> SUFFICES ASSUME NEW T \in SUBSET S, NEW z \in S, T \in G PROVE T \cup {z} \in G
        BY Zenon
    <2> SUFFICES \E x \in T \cup {z} : \A y \in T \cup {z} : y <= x
        OBVIOUS
    <2>1. CASE T = {}
        BY <2>1
    <2>2. CASE T # {}
        <3>1. PICK x \in T : \A y \in T : y <= x
            BY <2>2
        <3>2. CASE z <= x
            BY <3>1, <3>2
        <3>3. CASE ~(z <= x)
            BY <3>1, <3>3
        <3> QED BY <3>2, <3>3
    <2> QED BY <2>1, <2>2
<1>3. S \in G
    <2> HIDE DEF G
    <2> QED BY <1>1, <1>2, SubsetInduction
<1> QED
    BY <1>3

LEMMA HasLowest ==
    ASSUME NEW S \in SUBSET Int, IsFiniteSet(S), S # {}
    PROVE  \E x \in S : \A y \in S : x <= y
<1> DEFINE G == {T \in SUBSET S : T # {} => \E x \in T : \A y \in T : x <= y}
<1>1. {} \in G
    OBVIOUS
<1>2. \A T \in SUBSET S, z \in S : T \in G => T \cup {z} \in G
    <2> SUFFICES ASSUME NEW T \in SUBSET S, NEW z \in S, T \in G PROVE T \cup {z} \in G
        BY Zenon
    <2> SUFFICES \E x \in T \cup {z} : \A y \in T \cup {z} : x <= y
        OBVIOUS
    <2>1. CASE T = {}
        BY <2>1
    <2>2. CASE T # {}
        <3>1. PICK x \in T : \A y \in T : x <= y
            BY <2>2
        <3>2. CASE x <= z
            BY <3>1, <3>2
        <3>3. CASE ~(x <= z)
            BY <3>1, <3>3
        <3> QED BY <3>2, <3>3
    <2> QED BY <2>1, <2>2
<1>3. S \in G
    <2> HIDE DEF G
    <2> QED BY <1>1, <1>2, SubsetInduction
<1> QED
    BY <1>3

LEMMA HighestIs ==
    ASSUME NEW S \in SUBSET Int, IsFiniteSet(S), S # {}
    PROVE  /\ Coin!Highest(S) \in S /\ Coin!Lowest(S) \in S
           /\ Coin!Lowest(S) <= Coin!Highest(S)
<1>1. Coin!Highest(S) \in S /\ \A y \in S : y <= Coin!Highest(S)
    BY HasHighest, Zenon DEF Coin!Highest
<1>2. Coin!Lowest(S) \in S
    BY HasLowest, Zenon DEF Coin!Lowest
<1> QED
    BY <1>1, <1>2

\* A range of closes swings by at least one.
LEMMA SwingIs ==
    ASSUME NEW s \in Seq(Int), NEW i \in 1 .. Len(s), NEW w \in Nat, w # 0, w <= i
    PROVE  Coin!Swing(s, i, w) \in Nat \ {0}
<1> DEFINE lo == i - w + 1
           S == Coin!Closes(s, lo, i)
<1>1. lo \in Int /\ lo .. i \subseteq 1 .. Len(s) /\ i \in lo .. i
    OBVIOUS
<1>2. S \in SUBSET Int /\ s[i] \in S
    <2> HIDE DEF lo
    <2> QED BY <1>1 DEF Coin!Closes
<1>3. IsFiniteSet(S)
    <2>1. IsFiniteSet(lo .. i)
        BY <1>1, FS_Interval
    <2>2. S = {s[j] : j \in lo .. i}
        BY Zenon DEF Coin!Closes
    <2> DEFINE f == [j \in lo .. i |-> s[j]]
    <2>3. f \in Surjection(lo .. i, S)
        <3> HIDE DEF lo
        <3> QED BY <2>2 DEF Surjection
    <2> HIDE DEF S, lo, f
    <2> QED BY <2>1, <2>3, FS_Surjection
<1>4. Coin!Swing(s, i, w) = Coin!Highest(S) - Coin!Lowest(S) + 1
    BY Zenon DEF Coin!Swing
<1> HIDE DEF S
<1>5. Coin!Highest(S) \in Int /\ Coin!Lowest(S) \in Int /\ Coin!Lowest(S) <= Coin!Highest(S)
    BY <1>2, <1>3, HighestIs
<1> QED
    BY <1>4, <1>5

LEMMA QuartersIn ==
    ASSUME Coin!CoinAssumption, NEW s \in Seq(Int), NEW i \in 1 .. Len(s), NEW w \in Nat, w # 0, w <= i
    PROVE  Coin!Quarters(s, i, w) \in 0 .. 4
<1> DEFINE g == Coin!Swing(s, i, w)
           q == (8 * TargetVol + g) \div (2 * g)
<1>1. g \in Nat \ {0}
    BY SwingIs
<1>2. q \in Int
    <2> HIDE DEF g
    <2>1. 8 * TargetVol + g \in Int /\ 2 * g \in Nat \ {0}
        BY <1>1 DEF Coin!CoinAssumption
    <2> QED BY <2>1
<1>3. Coin!Quarters(s, i, w) = Coin!Clip(q, 0, 4)
    BY Zenon DEF Coin!Quarters
<1> HIDE DEF q
<1> QED
    BY <1>2, <1>3 DEF Coin!Clip

\* A latch is on or off at every bar.
LEMMA LatchIn ==
    ASSUME NEW n \in Nat, NEW on \in [1 .. n -> BOOLEAN], NEW off \in [1 .. n -> BOOLEAN]
    PROVE  \A k \in 0 .. n : Coin!Latch(on, off)[k] \in {0, 4}
<1> DEFINE V == {0, 4}
           After(i, q) == IF on[i] THEN 4 ELSE IF off[i] THEN 0 ELSE q
           step == [i \in 1 .. n |-> [q \in V |-> After(i, q)]]
           Good(p) == p = [i \in 0 .. n |-> IF i = 0 THEN 0 ELSE After(i, p[i - 1])]
           r == CHOOSE p : Good(p)
<1>1. \A i \in 1 .. n, q \in V : After(i, q) \in V /\ step[i][q] = After(i, q)
    OBVIOUS
<1>2. step \in [1 .. n -> [V -> V]]
    <2> HIDE DEF V, After
    <2> QED BY <1>1
<1>3. 0 \in V
    OBVIOUS
<1> HIDE DEF V, After, step
<1>4. PICK f \in [0 .. n -> V] : Unrolls(f, 0, step, n)
    BY <1>2, <1>3, FiniteRecursion
<1>5. Good(f)
    <2>1. ASSUME NEW i \in 0 .. n, i # 0 PROVE f[i] = After(i, f[i - 1])
        <3>1. i \in 1 .. n /\ f[i - 1] \in V
            BY <2>1
        <3> QED BY <1>1, <1>4, <3>1 DEF Unrolls
    <2>2. f[0] = 0
        BY <1>4 DEF Unrolls
    <2> QED BY <1>4, <2>1, <2>2
<1>6. Len(on) = n
    BY <1>3
<1>7. Coin!Latch(on, off) = r
    BY <1>6, Zenon DEF Coin!Latch, After
<1>8. Good(r)
    <2> HIDE DEF Good
    <2> QED BY <1>5, Zenon
<1> HIDE DEF r
<1>9. r[0] \in V /\ \A i \in 1 .. n : r[i - 1] \in V => r[i] \in V
    BY <1>1, <1>3, <1>8
<1>10. \A k \in 0 .. n : r[k] \in V
    BY <1>9, StaysAmong
<1> QED
    BY <1>7, <1>10 DEF V

\* A ladder stands at zero or at one of its scores.
LEMMA LadderIn ==
    ASSUME Coin!CoinAssumption, NEW n \in Nat, NEW score \in [1 .. n -> 0 .. 4]
    PROVE  Coin!Ladder(score) \in 0 .. 4
<1> DEFINE V == [at : 0 .. 4, since : Int]
           start == [at |-> 0, since |-> -MinHold]
           After(i, q) == LET x == score[i] IN
               IF x < q.at THEN [at |-> x, since |-> i]
               ELSE IF x > q.at + 1 /\ i - q.since >= MinHold THEN [at |-> x, since |-> i] ELSE q
           step == [i \in 1 .. n |-> [q \in V |-> After(i, q)]]
           Good(p) == p = [i \in 0 .. n |-> IF i = 0 THEN start ELSE After(i, p[i - 1])]
           r == CHOOSE p : Good(p)
<1>1. \A i \in 1 .. n, q \in V : After(i, q) \in V /\ step[i][q] = After(i, q)
    <2> SUFFICES ASSUME NEW i \in 1 .. n, NEW q \in V PROVE After(i, q) \in V /\ step[i][q] = After(i, q)
        OBVIOUS
    <2>1. After(i, q) \in {q, [at |-> score[i], since |-> i]}
        OBVIOUS
    <2>2. score[i] \in 0 .. 4 /\ i \in Int
        OBVIOUS
    <2>3. [at |-> score[i], since |-> i] \in V
        BY <2>2
    <2>4. step[i][q] = After(i, q)
        <3> HIDE DEF After, V
        <3> QED OBVIOUS
    <2> HIDE DEF After, V, step
    <2> QED BY <2>1, <2>3, <2>4
<1>2. step \in [1 .. n -> [V -> V]]
    <2> HIDE DEF V, After
    <2> QED BY <1>1
<1>3. start \in V
    BY DEF Coin!CoinAssumption
<1> HIDE DEF V, After, step, start
<1>4. PICK f \in [0 .. n -> V] : Unrolls(f, start, step, n)
    BY <1>2, <1>3, FiniteRecursion
<1>5. Good(f)
    <2>1. ASSUME NEW i \in 0 .. n, i # 0 PROVE f[i] = After(i, f[i - 1])
        <3>1. i \in 1 .. n /\ f[i - 1] \in V
            BY <2>1
        <3> QED BY <1>1, <1>4, <3>1 DEF Unrolls
    <2>2. f[0] = start
        BY <1>4 DEF Unrolls
    <2> QED BY <1>4, <2>1, <2>2
<1>6. Len(score) = n
    OBVIOUS
<1>7. Coin!Ladder(score) = r[n].at
    BY <1>6, Zenon DEF Coin!Ladder, After, start
<1>8. Good(r)
    <2> HIDE DEF Good
    <2> QED BY <1>5, Zenon
<1> HIDE DEF r
<1>9. r[0] \in V /\ \A i \in 1 .. n : r[i - 1] \in V => r[i] \in V
    BY <1>1, <1>3, <1>8
<1>10. \A k \in 0 .. n : r[k] \in V
    BY <1>9, StaysAmong
<1>11. r[n] \in V
    BY <1>10
<1> QED
    BY <1>7, <1>11 DEF V

\* The latched strategies of a market.
LEMMA StatesIn ==
    ASSUME Coin!CoinAssumption, NEW s \in Seq(Int)
    PROVE  /\ Coin!Tsmom(s) \in {0, 4}
           /\ \A k \in 0 .. Len(s) : Coin!BreakState(s)[k] \in {0, 4}
<1> DEFINE n == Len(s)
           rising == [i \in DOMAIN s |-> Coin!Rising(s, i, Slow)]
           falling == [i \in DOMAIN s |-> Coin!Falling(s, i, Slow)]
           up == [i \in DOMAIN s |-> Coin!Up(s, i, Slow)]
           down == [i \in DOMAIN s |-> Coin!Down(s, i, Fast)]
<1>0. n \in Nat /\ n \in 0 .. n /\ DOMAIN s = 1 .. n
    OBVIOUS
<1>1. rising \in [1 .. n -> BOOLEAN] /\ falling \in [1 .. n -> BOOLEAN]
    BY <1>0 DEF Coin!Rising, Coin!Falling
<1>2. up \in [1 .. n -> BOOLEAN] /\ down \in [1 .. n -> BOOLEAN]
    BY <1>0 DEF Coin!Up, Coin!Down
<1>3. Coin!Tsmom(s) = Coin!Latch(rising, falling)[n]
    BY Zenon DEF Coin!Tsmom
<1>4. Coin!BreakState(s) = Coin!Latch(up, down)
    BY Zenon DEF Coin!BreakState
<1> HIDE DEF n, rising, falling, up, down
<1>5. \A k \in 0 .. n : Coin!Latch(rising, falling)[k] \in {0, 4}
    BY <1>0, <1>1, LatchIn
<1>6. \A k \in 0 .. n : Coin!Latch(up, down)[k] \in {0, 4}
    BY <1>0, <1>2, LatchIn
<1>7. Coin!Tsmom(s) \in {0, 4}
    BY <1>0, <1>3, <1>5
<1>8. \A k \in 0 .. n : Coin!BreakState(s)[k] \in {0, 4}
    BY <1>4, <1>6
<1> QED
    BY <1>7, <1>8 DEF n

LEMMA VoteIn ==
    ASSUME Coin!CoinAssumption, NEW s \in Seq(Int), NEW i \in 1 .. Len(s)
    PROVE  Coin!Vote(s, i) \in 0 .. 4
<1> DEFINE t == SubSeq(s, 1, i)
           on == [j \in DOMAIN t |-> Coin!Above(t, j)]
           off == [j \in DOMAIN t |-> Coin!Below(t, j)]
<1>1. t \in Seq(Int) /\ Len(t) = i /\ DOMAIN t = 1 .. i
    OBVIOUS
<1>2. Coin!Vote(s, i) = (Coin!Latch(on, off)[i] + Coin!Tsmom(t) + Coin!BreakState(t)[i]) \div 3
    BY Zenon DEF Coin!Vote
<1> HIDE DEF t
<1>3. on \in [1 .. i -> BOOLEAN] /\ off \in [1 .. i -> BOOLEAN]
    BY <1>1 DEF Coin!Above, Coin!Below
<1> HIDE DEF on, off
<1>4. \A k \in 0 .. i : Coin!Latch(on, off)[k] \in {0, 4}
    <2>1. i \in Nat
        OBVIOUS
    <2> QED BY <1>3, <2>1, LatchIn
<1>5. Coin!Tsmom(t) \in {0, 4} /\ \A k \in 0 .. i : Coin!BreakState(t)[k] \in {0, 4}
    BY <1>1, StatesIn
<1>6. Coin!Latch(on, off)[i] \in {0, 4} /\ Coin!BreakState(t)[i] \in {0, 4}
    BY <1>4, <1>5
<1> QED
    BY <1>2, <1>5, <1>6

LEMMA ScoresIn ==
    ASSUME Coin!CoinAssumption, NEW s \in Seq(Int)
    PROVE  Coin!Composite(s) \in 0 .. 4 /\ Coin!VolRegime(s) \in 0 .. 4
<1> DEFINE n == Len(s)
           voted == [i \in DOMAIN s |->
                        IF i <= Slow THEN 0 ELSE (Coin!Vote(s, i) * Coin!Quarters(s, i, Slow)) \div 4]
           calm == [i \in DOMAIN s |->
                        IF i <= Slow THEN 0
                        ELSE Coin!Quarters(s, i, Slow) \div (IF Coin!Expanding(s, i) THEN 2 ELSE 1)]
<1>0. n \in Nat /\ DOMAIN s = 1 .. n
    OBVIOUS
<1>1. ASSUME NEW i \in 1 .. n
      PROVE  voted[i] \in 0 .. 4 /\ calm[i] \in 0 .. 4
    <2>1. CASE i <= Slow
        BY <1>0, <2>1
    <2>2. CASE ~(i <= Slow)
        <3> DEFINE v == Coin!Vote(s, i)
                   q == Coin!Quarters(s, i, Slow)
        <3>0. Slow \in Nat /\ Slow # 0 /\ Slow <= i
            BY <2>2 DEF Coin!CoinAssumption
        <3>1. v \in 0 .. 4 /\ q \in 0 .. 4
            BY <3>0, VoteIn, QuartersIn
        <3>2. voted[i] = (v * q) \div 4 /\ calm[i] = q \div (IF Coin!Expanding(s, i) THEN 2 ELSE 1)
            BY <1>0, <2>2
        <3> HIDE DEF v, q
        <3>3. (v * q) \div 4 \in 0 .. 4
            <4>1. v * q \in 0 .. 16
                <5>1. CASE v = 0
                    BY <3>1, <5>1
                <5>2. CASE v = 1
                    BY <3>1, <5>2
                <5>3. CASE v = 2
                    BY <3>1, <5>3
                <5>4. CASE v = 3
                    BY <3>1, <5>4
                <5>5. CASE v = 4
                    BY <3>1, <5>5
                <5> QED BY <3>1, <5>1, <5>2, <5>3, <5>4, <5>5
            <4> DEFINE p == v * q
            <4>2. p \in 0 .. 16
                BY <4>1
            <4> HIDE DEF p
            <4>3. p \div 4 \in 0 .. 4
                BY <4>2
            <4> QED BY <4>3 DEF p
        <3>4. q \div 2 \in 0 .. 4 /\ q \div 1 \in 0 .. 4
            BY <3>1
        <3> HIDE DEF voted, calm
        <3>5. calm[i] \in 0 .. 4
            <4>1. CASE Coin!Expanding(s, i)
                BY <3>2, <3>4, <4>1
            <4>2. CASE ~Coin!Expanding(s, i)
                BY <3>2, <3>4, <4>2
            <4> QED BY <4>1, <4>2
        <3> QED BY <3>2, <3>3, <3>5
    <2> QED BY <2>1, <2>2
<1>2. voted \in [1 .. n -> 0 .. 4] /\ calm \in [1 .. n -> 0 .. 4]
    BY <1>0, <1>1
<1>3. Coin!Composite(s) = Coin!Ladder(voted) /\ Coin!VolRegime(s) = Coin!Ladder(calm)
    BY Zenon DEF Coin!Composite, Coin!VolRegime
<1> HIDE DEF voted, calm, n
<1> QED
    BY <1>0, <1>2, <1>3, LadderIn

\* The position of every strategy is between nothing and all of it; it is not a
\* number only as long as the window of the volatility is not full.
LEMMA PositionIn ==
    ASSUME Coin!CoinAssumption, NEW s \in Seq(Int)
    PROVE  /\ Coin!Position(s) \in 0 .. 4 \cup {Coin!Undefined}
           /\ Len(s) > Slow => Coin!Position(s) \in 0 .. 4
<1> DEFINE Fine(x) == x \in 0 .. 4 \cup {Coin!Undefined} /\ (Len(s) > Slow => x \in 0 .. 4)
<1>0. \A x \in 0 .. 4 : Fine(x)
    OBVIOUS
<1>1. Fine(Coin!MaCross(s)) /\ Coin!MaCross(s) \in {0, 4}
    BY DEF Coin!MaCross
<1>2. Fine(Coin!VolHold(s))
    <2>1. CASE Len(s) <= Slow
        <3>1. ~(Len(s) > Slow) /\ Coin!VolHold(s) = Coin!Undefined
            BY <2>1 DEF Coin!VolHold, Coin!CoinAssumption
        <3> QED BY <3>1
    <2>2. CASE ~(Len(s) <= Slow)
        <3>1. Len(s) \in 1 .. Len(s) /\ Slow \in Nat /\ Slow # 0 /\ Slow <= Len(s)
            BY <2>2 DEF Coin!CoinAssumption
        <3>2. Coin!Quarters(s, Len(s), Slow) \in 0 .. 4
            BY <3>1, QuartersIn
        <3>3. Coin!VolHold(s) \in 0 .. 4
            BY <2>2, <3>2 DEF Coin!VolHold
        <3> QED BY <1>0, <3>3
    <2> QED BY <2>1, <2>2
<1> HIDE DEF Fine
<1>3. Fine(Coin!Donchian(s)) /\ Fine(Coin!Tsmom(s))
    <2>1. Len(s) \in 0 .. Len(s)
        OBVIOUS
    <2>2. Coin!Donchian(s) \in {0, 4} /\ Coin!Tsmom(s) \in {0, 4}
        BY <2>1, StatesIn DEF Coin!Donchian
    <2> QED BY <1>0, <2>2
<1>4. Fine(Coin!TrendVol(s))
    BY <1>0, <1>2 DEF Coin!TrendVol
<1>5. Fine(Coin!BreakoutHold(s))
    <2>1. Coin!BreakoutHold(s) \in {0, 4}
        BY DEF Coin!BreakoutHold
    <2> QED BY <1>0, <2>1
<1>6. Fine(Coin!Composite(s)) /\ Fine(Coin!VolRegime(s))
    BY <1>0, ScoresIn
<1>7. Fine(Coin!DrawdownFilter(s))
    <2>1. Coin!DrawdownFilter(s) \in {0, 4}
        BY DEF Coin!DrawdownFilter
    <2> QED BY <1>0, <2>1
<1>8. Fine(Coin!SlowTrend(s))
    <2>1. Coin!SlowTrend(s) \in {0, 4, Coin!Clip(Coin!VolHold(s), 1, 4)}
        BY DEF Coin!SlowTrend
    <2>2. Coin!Clip(Coin!VolHold(s), 1, 4) \in 0 .. 4
        BY <1>2 DEF Fine, Coin!Clip, Coin!Undefined
    <2> QED BY <1>0, <2>1, <2>2
<1>9. Fine(Coin!Position(s))
    BY <1>1, <1>2, <1>3, <1>4, <1>5, <1>6, <1>7, <1>8 DEF Coin!Position
<1> QED
    BY <1>9 DEF Fine

\* Every rank of a finite set of numbers is taken.
LEMMA RankTaken ==
    ASSUME NEW S \in SUBSET Int, IsFiniteSet(S)
    PROVE  \A i \in 1 .. Cardinality(S) : \E t \in S : Cardinality({u \in S : u <= t}) = i
<1> DEFINE Ranked(T) == \A i \in 1 .. Cardinality(T) : \E t \in T : Cardinality({u \in T : u <= t}) = i
           G == {n \in Nat : \A T \in SUBSET S : Cardinality(T) = n => Ranked(T)}
<1>1. 0 \in G
    OBVIOUS
<1>2. \A n \in Nat : n \in G => n + 1 \in G
    <2> SUFFICES ASSUME NEW n \in Nat, n \in G, NEW T \in SUBSET S, Cardinality(T) = n + 1 PROVE Ranked(T)
        <3> HIDE DEF Ranked
        <3> QED OBVIOUS
    <2>0. \A R \in SUBSET S : Cardinality(R) = n => Ranked(R)
        OBVIOUS
    <2> HIDE DEF G
    <2>1. IsFiniteSet(T) /\ T # {} /\ T \in SUBSET Int
        <3>1. IsFiniteSet(T) /\ (Cardinality(T) = 0 <=> T = {})
            BY SubsetCard
        <3> QED BY <3>1
    <2>2. PICK x \in T : \A y \in T : y <= x
        BY <2>1, HasHighest
    <2> DEFINE R == T \ {x}
    <2>3. R \in SUBSET S /\ Cardinality(R) = n
        <3>1. Cardinality(R) = Cardinality(T) - 1
            BY <2>1, FS_RemoveElement
        <3> QED BY <3>1
    <2>4. Ranked(R)
        <3> HIDE DEF Ranked, R
        <3> QED BY <2>0, <2>3
    <2>5. ASSUME NEW i \in 1 .. n + 1 PROVE \E t \in T : Cardinality({u \in T : u <= t}) = i
        <3>1. CASE i = n + 1
            <4>1. {u \in T : u <= x} = T
                BY <2>2
            <4> QED BY <3>1, <4>1
        <3>2. CASE i # n + 1
            <4>1. i \in 1 .. Cardinality(R)
                BY <2>3, <3>2
            <4>2. PICK t \in R : Cardinality({u \in R : u <= t}) = i
                BY <2>4, <4>1
            <4>3. t \in T /\ t \in Int /\ x \in Int /\ t # x /\ t <= x
                BY <2>1, <2>2
            <4>4. {u \in T : u <= t} = {u \in R : u <= t}
                BY <4>3
            <4> QED BY <4>2, <4>3, <4>4
        <3> QED BY <3>1, <3>2
    <2> QED BY <2>5
<1>3. Nat \subseteq G
    <2> HIDE DEF G
    <2> QED BY <1>1, <1>2, NatSetInduction
<1>4. Cardinality(S) \in Nat
    BY FS_CardinalityType
<1> QED
    BY <1>3, <1>4

LEMMA CoinSets ==
    ASSUME NEW S
    PROVE  Coin!Cardinality(S) = Cardinality(S)
BY Zenon DEF Coin!Cardinality, Cardinality

\* The bars of a run are closes of the market.
LEMMA BarsAre ==
    ASSUME NEW m \in Seq(Int), Coin!Merged(Len(m)) \in SUBSET (1 .. Len(m))
    PROVE  Coin!Bars(m) \in Seq(Int)
<1> DEFINE h == Coin!Merged(Len(m))
           At(i) == CHOOSE t \in h : Coin!Cardinality({u \in h : u <= t}) = i
<1>1. Coin!Bars(m) = [i \in 1 .. Coin!Cardinality(h) |-> m[At(i)]]
    BY Zenon DEF Coin!Bars
<1>2. h \in SUBSET Int /\ h \in SUBSET (1 .. Len(m)) /\ IsFiniteSet(h)
    <2>1. IsFiniteSet(1 .. Len(m))
        BY FS_Interval
    <2>2. IsFiniteSet(h)
        <3> HIDE DEF h
        <3> QED BY <2>1, FS_Subset DEF h
    <2> QED BY <2>2
<1> HIDE DEF h
<1>3. Cardinality(h) \in Nat /\ Coin!Cardinality(h) = Cardinality(h)
    BY <1>2, FS_CardinalityType, CoinSets
<1>4. ASSUME NEW i \in 1 .. Cardinality(h) PROVE At(i) \in h
    <2>1. \E t \in h : Cardinality({u \in h : u <= t}) = i
        BY <1>2, RankTaken
    <2>2. \E t \in h : Coin!Cardinality({u \in h : u <= t}) = i
        BY <2>1, CoinSets
    <2> QED BY <2>2, Zenon
<1> HIDE DEF At
<1>5. \A i \in 1 .. Cardinality(h) : m[At(i)] \in Int
    <2> SUFFICES ASSUME NEW i \in 1 .. Cardinality(h) PROVE m[At(i)] \in Int
        OBVIOUS
    <2>1. At(i) \in 1 .. Len(m)
        BY <1>2, <1>4
    <2> QED BY <2>1
<1>6. Coin!Bars(m) \in [1 .. Cardinality(h) -> Int]
    BY <1>1, <1>3, <1>5
<1> QED
    BY <1>3, <1>6

\* With no hole in them they are the market.
LEMMA BarsWhole ==
    ASSUME NEW m \in Seq(Int), Coin!Merged(Len(m)) = 1 .. Len(m)
    PROVE  Coin!Bars(m) = m
<1> DEFINE n == Len(m)
           h == 1 .. n
           At(i) == CHOOSE t \in h : Coin!Cardinality({u \in h : u <= t}) = i
<1>0. n \in Nat
    OBVIOUS
<1>1. Coin!Bars(m) = [i \in 1 .. Coin!Cardinality(h) |-> m[At(i)]]
    <2> DEFINE Arranged(g) == [i \in 1 .. Coin!Cardinality(g) |->
                                  m[CHOOSE t \in g : Coin!Cardinality({u \in g : u <= t}) = i]]
    <2>1. Coin!Bars(m) = Arranged(Coin!Merged(Len(m)))
        BY Zenon DEF Coin!Bars
    <2>2. Coin!Bars(m) = Arranged(h)
        <3> HIDE DEF Arranged
        <3> QED BY <2>1
    <2> QED BY Zenon, <2>2
<1>2. Coin!Cardinality(h) = n
    <2>1. Cardinality(1 .. n) = n
        <3> HIDE DEF n
        <3>1. Cardinality(1 .. n) = IF 1 > n THEN 0 ELSE n - 1 + 1
            BY <1>0, FS_Interval
        <3> QED BY <1>0, <3>1
    <2> QED BY <2>1, CoinSets
<1>3. ASSUME NEW t \in h PROVE Coin!Cardinality({u \in h : u <= t}) = t
    <2>1. {u \in h : u <= t} = 1 .. t
        BY <1>0
    <2>2. Cardinality(1 .. t) = t
        BY FS_Interval
    <2> QED BY <2>1, <2>2, CoinSets
<1>4. ASSUME NEW i \in h PROVE At(i) = i
    <2>1. \E t \in h : Coin!Cardinality({u \in h : u <= t}) = i
        BY <1>3
    <2>2. At(i) \in h /\ Coin!Cardinality({u \in h : u <= At(i)}) = i
        BY <2>1, Zenon
    <2> HIDE DEF At, h
    <2> QED BY <1>3, <2>2
<1> HIDE DEF At
<1>5. Coin!Bars(m) = [i \in 1 .. n |-> m[i]]
    BY <1>1, <1>2, <1>4
<1> QED
    BY <1>5

LEMMA CoinInitial ==
    ASSUME Coin!Init
    PROVE  Coin!TypeOK /\ Coin!LiveIsBacktest
<1>1. family \in Families /\ market = <<>> /\ cached = {} /\ gapped = FALSE /\ decided = <<>>
    BY DEF Coin!Init
<1>2. Coin!TypeOK
    <2>1. <<>> \in Seq(Prices) /\ <<>> \in Seq(0 .. 4) /\ Len(<<>>) = 0
        OBVIOUS
    <2>2. market \in Seq(Prices) /\ decided \in Seq(0 .. 4) /\ Len(decided) = Len(market)
        BY <1>1, <2>1
    <2> QED BY <1>1, <2>2 DEF Coin!TypeOK, Coin!Now
<1>3. Coin!LiveIsBacktest
    BY <1>1 DEF Coin!LiveIsBacktest
<1> QED BY <1>2, <1>3

\* The recent bars are bars of the market.
LEMMA RecentBars ==
    ASSUME Coin!CoinAssumption, NEW n \in Nat
    PROVE  Coin!LastOf(n) \in SUBSET (1 .. n)
<1> DEFINE lo == Coin!Clip(n - Recent + 1, 1, n)
<1>1. lo \in Int /\ lo >= 1
    <2>1. Recent \in Nat /\ Recent # 0
        BY DEF Coin!CoinAssumption
    <2>2. CASE n = 0
        BY <2>1, <2>2 DEF Coin!Clip
    <2>3. CASE n # 0
        BY <2>1, <2>3 DEF Coin!Clip
    <2> QED BY <2>2, <2>3
<1>2. Coin!LastOf(n) = lo .. n
    BY Zenon DEF Coin!LastOf
<1> HIDE DEF lo
<1> QED BY <1>1, <1>2

LEMMA RefreshKept ==
    ASSUME Coin!CoinAssumption, Coin!TypeOK, Coin!LiveIsBacktest, NEW late, NEW up \in BOOLEAN,
           Coin!Refresh(late, up)
    PROVE  Coin!TypeOK' /\ Coin!LiveIsBacktest'
<1>1. UNCHANGED <<family, market, gapped, decided>>
    BY Zenon DEF Coin!Refresh
<1>2. cached' \in SUBSET (1 .. Coin!Now)
    <2> DEFINE last == IF cached = {} THEN 1 ELSE Coin!Highest(cached)
               dumps == {t \in Coin!DumpsFrom(last) : Coin!DayOf(t) \notin late}
    <2>1. cached' = cached \cup dumps \cup (IF up THEN Coin!LastOf(Coin!Now) ELSE {})
        BY Zenon DEF Coin!Refresh
    <2>2. dumps \in SUBSET (1 .. Coin!Now)
        <3> HIDE DEF last
        <3> QED BY DEF Coin!DumpsFrom
    <2>3. Coin!LastOf(Coin!Now) \in SUBSET (1 .. Coin!Now)
        <3>1. Coin!Now \in Nat
            BY DEF Coin!TypeOK, Coin!Now
        <3> QED BY <3>1, RecentBars
    <2>4. cached \in SUBSET (1 .. Coin!Now)
        BY DEF Coin!TypeOK
    <2> HIDE DEF dumps
    <2> QED BY <2>1, <2>2, <2>3, <2>4
<1>3. Coin!TypeOK'
    BY <1>1, <1>2 DEF Coin!TypeOK, Coin!Now
<1>4. Coin!LiveIsBacktest'
    <2>1. \A x : Coin!Position(x)' = Coin!Position(x)
        BY <1>1 DEF Coin!Position
    <2> QED BY <1>1, <2>1 DEF Coin!LiveIsBacktest
<1> QED BY <1>3, <1>4

\* An hour decides on the bars there are; on all of them, as a replay of the
\* whole market does.
LEMMA HourTypes ==
    ASSUME Coin!CoinAssumption, Coin!TypeOK, NEW c \in Prices, Coin!Hour(c)
    PROVE  /\ Coin!TypeOK'
           /\ market' = Append(market, c) /\ market' \in Seq(Int) /\ family' = family
           /\ Len(market') = Len(market) + 1
           /\ decided' = Append(decided, Coin!Target(Coin!Position(Coin!Bars(market'))))
<1> DEFINE x == Coin!Target(Coin!Position(Coin!Bars(market')))
<1>1. /\ market' = Append(market, c) /\ decided' = Append(decided, x)
      /\ family' = family /\ cached' = cached /\ gapped' \in BOOLEAN
    <2>1. gapped' = (gapped \/ cached \cup Coin!LastOf(Coin!Now + 1) # 1 .. Coin!Now + 1)
        BY Zenon DEF Coin!Hour
    <2>2. gapped' \in BOOLEAN
        BY <2>1, Zenon DEF Coin!TypeOK
    <2>3. market' = Append(market, c) /\ decided' = Append(decided, x) /\ UNCHANGED <<family, cached>>
        BY Zenon DEF Coin!Hour
    <2> HIDE DEF x
    <2> QED BY <2>2, <2>3
<1>2. /\ market \in Seq(Prices) /\ cached \in SUBSET (1 .. Len(market))
      /\ decided \in Seq(0 .. 4) /\ Len(decided) = Len(market) /\ Prices \subseteq Int
    BY DEF Coin!TypeOK, Coin!Now, Coin!CoinAssumption
<1>3. /\ market' \in Seq(Prices) /\ Len(market') = Len(market) + 1 /\ Len(market) \in Nat
      /\ Len(market') \in Nat
    BY <1>1, <1>2
<1>4. market' \in Seq(Int)
    <2> DEFINE m == market'
    <2>1. m \in Seq(Prices)
        BY <1>3
    <2>2. Prices \subseteq Int
        BY <1>2
    <2> HIDE DEF m
    <2>3. \A i \in 1 .. Len(m) : m[i] \in Int
        <3>1. \A i \in 1 .. Len(m) : m[i] \in Prices
            BY <2>1
        <3> QED BY <2>2, <3>1, Zenon
    <2>4. m \in [1 .. Len(m) -> Int] /\ Len(m) \in Nat
        BY <2>1, <2>3
    <2>5. m \in Seq(Int)
        BY <2>4
    <2> QED BY <2>5 DEF m
<1>5. Coin!Merged(Len(market')) \in SUBSET (1 .. Len(market'))
    <2>1. Coin!LastOf(Len(market')) \in SUBSET (1 .. Len(market'))
        BY <1>3, RecentBars
    <2>2. cached \in SUBSET (1 .. Len(market'))
        BY <1>2, <1>3
    <2> QED BY <2>1, <2>2 DEF Coin!Merged
<1>6. x \in 0 .. 4
    <2>1. Coin!Bars(market') \in Seq(Int)
        BY <1>4, <1>5, BarsAre
    <2>2. Coin!Position(Coin!Bars(market')) \in 0 .. 4 \cup {Coin!Undefined}
        BY <2>1, PositionIn
    <2> QED BY <2>2 DEF Coin!Target
<1> HIDE DEF x
<1>7. decided' \in Seq(0 .. 4) /\ Len(decided') = Len(decided) + 1
    BY <1>1, <1>2, <1>6
<1>8. cached' \in SUBSET (1 .. Len(market'))
    BY <1>1, <1>2, <1>3
<1>9. Coin!TypeOK'
    BY <1>1, <1>2, <1>3, <1>7, <1>8 DEF Coin!TypeOK, Coin!Now
<1> QED
    BY <1>1, <1>3, <1>4, <1>9 DEF x

LEMMA HourKept ==
    ASSUME Coin!CoinAssumption, Coin!TypeOK, Coin!LiveIsBacktest, NEW c \in Prices, Coin!Hour(c)
    PROVE  Coin!LiveIsBacktest'
<1> DEFINE n == Len(market)
           pos == Coin!Position(Coin!Bars(market'))
<1>1. /\ market' = Append(market, c) /\ market' \in Seq(Int) /\ Len(market') = n + 1 /\ family' = family
      /\ decided' = Append(decided, Coin!Target(pos))
    BY HourTypes
<1>2. /\ market \in Seq(Prices) /\ n \in Nat /\ decided \in Seq(0 .. 4) /\ Len(decided) = n
    BY DEF Coin!TypeOK, Coin!Now
<1>3. gapped' = (gapped \/ cached \cup Coin!LastOf(n + 1) # 1 .. n + 1)
    BY Zenon DEF Coin!Hour, Coin!Now
<1>4. \A s : Coin!Position(s)' = Coin!Position(s)
    BY <1>1 DEF Coin!Position
<1> SUFFICES ASSUME ~gapped', NEW t \in DOMAIN decided', t > Slow
             PROVE  decided'[t] = Coin!Position(SubSeq(market', 1, t))
    BY <1>4 DEF Coin!LiveIsBacktest
<1>5. ~gapped /\ Coin!Merged(Len(market')) = 1 .. Len(market')
    BY <1>1, <1>3, Zenon DEF Coin!Merged
<1>6. Coin!Bars(market') = market'
    BY <1>1, <1>5, BarsWhole
<1> HIDE DEF pos
<1>7. t \in 1 .. n + 1
    <2> HIDE DEF n
    <2> QED BY <1>1, <1>2
<1>8. CASE t = n + 1
    <2>1. decided'[t] = Coin!Target(pos)
        BY <1>1, <1>2, <1>8
    <2>2. SubSeq(market', 1, t) = market'
        <3> HIDE DEF n
        <3> QED BY <1>1, <1>2, <1>8
    <2>3. pos = Coin!Position(market')
        BY <1>6 DEF pos
    <2>4. Coin!Position(market') \in 0 .. 4
        BY <1>1, <1>8, PositionIn
    <2>5. Coin!Target(pos) = pos
        BY <2>3, <2>4 DEF Coin!Target, Coin!Undefined
    <2> QED BY <2>1, <2>2, <2>3, <2>5
<1>9. CASE t # n + 1
    <2>1. t \in 1 .. n
        BY <1>2, <1>7, <1>9
    <2>2. t \in DOMAIN decided /\ decided'[t] = decided[t]
        BY <1>1, <1>2, <2>1
    <2>3. decided[t] = Coin!Position(SubSeq(market, 1, t))
        BY <1>5, <2>2 DEF Coin!LiveIsBacktest
    <2>4. SubSeq(market', 1, t) = SubSeq(market, 1, t)
        <3>1. c \in Prices /\ market \in Seq(Prices) /\ t \in 1 .. Len(market)
            BY <1>2, <2>1
        <3>2. \A j \in 1 .. t : Append(market, c)[j] = market[j]
            BY <3>1
        <3> QED BY <1>1, <3>1, <3>2
    <2> QED BY <2>2, <2>3, <2>4
<1> QED BY <1>8, <1>9

LEMMA CoinStep ==
    ASSUME Coin!CoinAssumption, Coin!TypeOK, Coin!LiveIsBacktest, [Coin!Next]_(Coin!vars)
    PROVE  Coin!TypeOK' /\ Coin!LiveIsBacktest'
<1>1. ASSUME NEW c \in Prices, Coin!Hour(c) PROVE Coin!TypeOK' /\ Coin!LiveIsBacktest'
    BY <1>1, HourTypes, HourKept
<1>2. ASSUME NEW late, NEW up \in BOOLEAN, Coin!Refresh(late, up) PROVE Coin!TypeOK' /\ Coin!LiveIsBacktest'
    BY <1>2, RefreshKept
<1>3. CASE UNCHANGED Coin!vars
    <2>1. UNCHANGED <<family, market, cached, gapped, decided>>
        BY <1>3 DEF Coin!vars
    <2>2. \A s : Coin!Position(s)' = Coin!Position(s)
        BY <2>1 DEF Coin!Position
    <2>3. Coin!LiveIsBacktest'
        BY <2>1, <2>2 DEF Coin!LiveIsBacktest
    <2>4. Coin!TypeOK'
        BY <2>1 DEF Coin!TypeOK, Coin!Now
    <2> QED BY <2>3, <2>4
<1> QED
    BY <1>1, <1>2, <1>3 DEF Coin!Next

\* As long as no run has seen a hole in its bars, every hourly run of the desk
\* decided what the strategy holds in a backtest over the whole market, for each
\* of the ten strategies, whatever refreshes of the cache came late or failed.
THEOREM LiveStaysBacktest ==
    ASSUME Coin!CoinAssumption
    PROVE  Coin!Spec => []Coin!LiveIsBacktest
<1>1. Coin!Init => Coin!TypeOK /\ Coin!LiveIsBacktest
    BY CoinInitial
<1>2. Coin!TypeOK /\ Coin!LiveIsBacktest /\ [Coin!Next]_(Coin!vars)
          => Coin!TypeOK' /\ Coin!LiveIsBacktest'
    BY CoinStep
<1> QED
    BY <1>1, <1>2, PTL DEF Coin!Spec

\* Whatever bars are missing, no run decides on a short or a levered position:
\* every target is a quarter of the book from none to four.
THEOREM TargetsInRange ==
    ASSUME Coin!CoinAssumption
    PROVE  Coin!Spec => [](decided \in Seq(0 .. 4) /\ Len(decided) = Len(market))
<1>1. Coin!Init => Coin!TypeOK /\ Coin!LiveIsBacktest
    BY CoinInitial
<1>2. Coin!TypeOK /\ Coin!LiveIsBacktest /\ [Coin!Next]_(Coin!vars)
          => Coin!TypeOK' /\ Coin!LiveIsBacktest'
    BY CoinStep
<1>3. Coin!TypeOK => decided \in Seq(0 .. 4) /\ Len(decided) = Len(market)
    BY DEF Coin!TypeOK, Coin!Now
<1> QED
    BY <1>1, <1>2, <1>3, PTL DEF Coin!Spec

-----------------------------------------------------------------------------
(* Strike ladders: an edge the scanners report is one at every print.      *)

CONSTANTS Events, Ladders, Ensembles, Prints
VARIABLES event, quotes, members, print

Ladder == INSTANCE KalshiLadder

LEMMA LadderSums ==
    ASSUME NEW f
    PROVE  Ladder!SumFunction(f) = SumFunctionOnSet(f, DOMAIN f)
<1>1. Ladder!SumFunctionOnSet(f, DOMAIN f) = SumFunctionOnSet(f, DOMAIN f)
    BY Zenon DEF Ladder!SumFunctionOnSet, SumFunctionOnSet, Ladder!FoldFunctionOnSet, FoldFunctionOnSet,
                 Ladder!MapThenFoldSet, MapThenFoldSet
<1> QED BY <1>1 DEF Ladder!SumFunction

\* The fee is rounded up once per order: that of many lots is at most that of
\* as many orders of one.
LEMMA FeeOnce ==
    ASSUME NEW n \in Nat, NEW p \in Int
    PROVE  /\ Ladder!TakerFee(n, p) \in Int /\ Ladder!TakerFee(1, p) \in Int
           /\ Ladder!TakerFee(n, p) <= n * Ladder!TakerFee(1, p)
<1> DEFINE v == 7 * p * (100 - p)
           w == 7 * n * p * (100 - p)
           one == (v + 9999) \div 10000
<1>1. v \in Int /\ w \in Int /\ w = n * v
    <2>1. v \in Int /\ w = n * v
        OBVIOUS
    <2>2. n * v \in Int
        BY <2>1
    <2> QED BY <2>1, <2>2
<1>2. one \in Int /\ v <= 10000 * one
    <2> HIDE DEF v
    <2> QED BY <1>1
<1>3. n * one \in Int /\ n * v <= 10000 * (n * one)
    <2> HIDE DEF v, one
    <2>1. 10000 * one - v \in Nat
        BY <1>1, <1>2
    <2>2. n * (10000 * one - v) \in Nat
        BY <2>1
    <2>3. n * (10000 * one - v) = 10000 * (n * one) - n * v
        BY <1>1, <1>2
    <2>4. n * one \in Int /\ n * v \in Int
        BY <1>1, <1>2
    <2> QED BY <2>2, <2>3, <2>4
<1>4. (w + 9999) \div 10000 <= n * one
    <2>1. w <= 10000 * (n * one)
        BY <1>1, <1>3
    <2> HIDE DEF v, one, w
    <2> DEFINE m == n * one
    <2>2. m \in Int /\ w <= 10000 * m /\ w \in Int
        BY <2>1, <1>1, <1>3
    <2> HIDE DEF m
    <2>3. (w + 9999) \div 10000 <= m
        BY <2>2
    <2> QED BY <2>3 DEF m
<1>5. Ladder!TakerFee(n, p) = (w + 9999) \div 10000
    <2>1. w + 10000 - 1 = w + 9999
        BY <1>1
    <2> QED BY <2>1 DEF Ladder!TakerFee, Ladder!CeilDiv
<1>6. Ladder!TakerFee(1, p) = one
    <2>1. 7 * 1 * p * (100 - p) = v /\ v + 10000 - 1 = v + 9999
        BY <1>1
    <2> QED BY <2>1 DEF Ladder!TakerFee, Ladder!CeilDiv
<1>7. (w + 9999) \div 10000 \in Int
    <2> HIDE DEF w
    <2> QED BY <1>1
<1> QED
    BY <1>2, <1>4, <1>5, <1>6, <1>7

Strike == [type : STRING, floor : Int, cap : Int]
Touch == [bid : Nat, ask : Nat, bidSize : Nat, askSize : Nat]

\* What is quoted, and of what a ladder is made.
LEMMA LadderTypes ==
    ASSUME Ladder!LadderAssumption, Ladder!TypeOK
    PROVE  /\ Ladder!LegNumbers = 1 .. Len(Events[event]) /\ Len(Events[event]) \in Nat \ {0}
           /\ \A i \in Ladder!LegNumbers : Ladder!Leg(i) \in Strike /\ quotes[i] \in Touch
<1>1. event \in DOMAIN Events /\ Events[event] \in Seq(Strike) /\ Events[event] # <<>>
    BY DEF Ladder!LadderAssumption, Ladder!TypeOK, Strike
<1>2. Ladder!LegNumbers = 1 .. Len(Events[event]) /\ Len(Events[event]) \in Nat \ {0}
    BY <1>1 DEF Ladder!LegNumbers
<1>3. ASSUME NEW i \in Ladder!LegNumbers
      PROVE  Ladder!Leg(i) \in Strike /\ quotes[i] \in Touch
    <2>1. Ladder!Leg(i) \in Strike
        BY <1>1 DEF Ladder!LegNumbers, Ladder!Leg
    <2>2. quotes \in [Ladder!LegNumbers -> Ladders] /\ Ladders \subseteq Touch
        BY DEF Ladder!TypeOK, Ladder!LadderAssumption, Touch
    <2> QED BY <2>1, <2>2
<1> QED BY <1>2, <1>3

-----------------------------------------------------------------------------
(* Locks *)

\* Of two legs without a cap, what pays on the harder strike pays on the easier.
LEMMA OuterPays ==
    ASSUME Ladder!LadderAssumption, Ladder!TypeOK,
           \A i \in Ladder!LegNumbers : Ladder!Leg(i).type \notin {"less", "less_or_equal"},
           NEW i \in Ladder!LegNumbers, NEW j \in Ladder!LegNumbers, NEW x \in Int,
           Ladder!Threshold(Ladder!Leg(i)) # Ladder!Absent, Ladder!Threshold(Ladder!Leg(j)) # Ladder!Absent,
           Ladder!Before(i, j), Ladder!Holds(Ladder!Leg(j), x)
    PROVE  Ladder!Holds(Ladder!Leg(i), x)
<1> DEFINE a == Ladder!Leg(i)
           b == Ladder!Leg(j)
<1>1. a \in Strike /\ b \in Strike
    BY LadderTypes
<1>2. a.type \notin {"less", "less_or_equal"} /\ b.type \notin {"less", "less_or_equal"}
    OBVIOUS
<1>3. ASSUME NEW c \in Strike, c.type \notin {"less", "less_or_equal"}, Ladder!Threshold(c) # Ladder!Absent
      PROVE  /\ c.type \in {"greater", "greater_or_equal"} /\ Ladder!Threshold(c) = c.floor
             /\ Ladder!Holds(c, x) <=> IF c.type = "greater" THEN x > c.floor ELSE x >= c.floor
    <2>1. c.type \in {"greater", "greater_or_equal"} /\ Ladder!Threshold(c) = c.floor
        BY <1>3 DEF Ladder!Threshold
    <2>2. c.floor # Ladder!Absent
        BY <1>3, <2>1
    <2> QED BY <2>1, <2>2 DEF Ladder!Holds
<1>4. a.floor < b.floor \/ a.floor = b.floor
    BY <1>1, <1>2, <1>3 DEF Ladder!Before
<1>5. CASE a.floor < b.floor
    BY <1>1, <1>2, <1>3, <1>5 DEF Strike
<1>6. CASE a.floor = b.floor
    <2>1. Ladder!Threshold(a) = Ladder!Threshold(b) /\ Ladder!Threshold(a) # Ladder!Absent
        BY <1>1, <1>2, <1>3, <1>6
    <2>2. a.type = b.type
        BY <2>1 DEF Ladder!LadderAssumption, Ladder!TypeOK, Ladder!LegNumbers, Ladder!Leg
    <2> QED BY <1>1, <1>2, <1>3, <1>6, <2>2 DEF Strike
<1> QED BY <1>4, <1>5, <1>6

\* The least of finitely many numbers is one of them.
LEMMA LeastOf ==
    ASSUME NEW S \in SUBSET Nat, S # {}
    PROVE  Ladder!Min(S) \in S /\ \A y \in S : Ladder!Min(S) <= y
<1> DEFINE P(x) == x \in S /\ \A y \in S : x <= y
<1>1. \E x : P(x)
    <2> DEFINE G == {n \in Nat : \A m \in 0 .. n : m \notin S}
    <2> SUFFICES ASSUME ~\E x : P(x) PROVE FALSE
        OBVIOUS
    <2>1. 0 \in G
        <3>1. ASSUME 0 \in S PROVE FALSE
            <4>1. P(0)
                BY <3>1
            <4> QED BY <4>1
        <3> QED BY <3>1
    <2>2. \A n \in Nat : n \in G => n + 1 \in G
        <3> SUFFICES ASSUME NEW n \in Nat, n \in G, n + 1 \in S PROVE FALSE
            OBVIOUS
        <3>1. \A y \in S : n + 1 <= y
            OBVIOUS
        <3>2. P(n + 1)
            BY <3>1
        <3> QED BY <3>2
    <2>3. Nat \subseteq G
        <3> HIDE DEF G
        <3> QED BY <2>1, <2>2, NatSetInduction
    <2> QED BY <2>3
<1>2. Ladder!Min(S) = CHOOSE x \in S : \A y \in S : x <= y
    BY Zenon DEF Ladder!Min
<1> QED BY <1>1, <1>2

\* A locked pair is two legs with prices, the easier bought and the harder sold,
\* and its edge is what one lot of each makes.
LEMMA LockedPair ==
    ASSUME Ladder!LadderAssumption, Ladder!TypeOK, NEW l \in Ladder!Nested
    PROVE  /\ l.outer \in Ladder!LegNumbers /\ l.inner \in Ladder!LegNumbers
           /\ Ladder!Threshold(Ladder!Leg(l.outer)) # Ladder!Absent
           /\ Ladder!Threshold(Ladder!Leg(l.inner)) # Ladder!Absent
           /\ Ladder!Before(l.outer, l.inner)
           /\ l.count \in Nat
           /\ l.edge = Ladder!Bid(l.inner) - Ladder!Ask(l.outer) - Ladder!TakerFee(1, Ladder!Ask(l.outer))
                          - Ladder!TakerFee(1, Ladder!Bid(l.inner))
<1> DEFINE Gain(p) == Ladder!Bid(p[2]) - Ladder!Ask(p[1]) - Ladder!TakerFee(1, Ladder!Ask(p[1]))
                         - Ladder!TakerFee(1, Ladder!Bid(p[2]))
           Lock(p) == [outer |-> p[1], inner |-> p[2], edge |-> Gain(p),
                       count |-> Ladder!Min({quotes[p[1]].askSize, quotes[p[2]].bidSize})]
<1>1. \E p \in Ladder!Neighbours : l = Lock(p)
    BY DEF Ladder!Nested
<1>2. PICK p \in Ladder!Neighbours : l = Lock(p)
    BY <1>1
<1>3. /\ p[1] \in Ladder!LegNumbers /\ p[2] \in Ladder!LegNumbers
      /\ Ladder!Threshold(Ladder!Leg(p[1])) # Ladder!Absent
      /\ Ladder!Threshold(Ladder!Leg(p[2])) # Ladder!Absent
      /\ Ladder!Before(p[1], p[2])
    <2> DEFINE ranked == {i \in Ladder!LegNumbers : Ladder!Threshold(Ladder!Leg(i)) # Ladder!Absent}
    <2>1. p \in ranked \X ranked /\ Ladder!Before(p[1], p[2])
        BY DEF Ladder!Neighbours
    <2> QED BY <2>1
<1>4. l.outer = p[1] /\ l.inner = p[2] /\ l.edge = Gain(p)
      /\ l.count = Ladder!Min({quotes[p[1]].askSize, quotes[p[2]].bidSize})
    BY <1>2
<1>5. l.count \in Nat
    <2> DEFINE S == {quotes[p[1]].askSize, quotes[p[2]].bidSize}
    <2>1. quotes[p[1]] \in Touch /\ quotes[p[2]] \in Touch
        BY <1>3, LadderTypes
    <2>2. S \in SUBSET Nat /\ S # {}
        BY <2>1 DEF Touch
    <2>3. Ladder!Min(S) \in S
        <3> HIDE DEF S
        <3> QED BY <2>2, LeastOf
    <2> QED BY <2>2, <2>3, <1>4
<1> QED BY <1>3, <1>4, <1>5

LEMMA LockArithmetic ==
    ASSUME NEW n \in Nat, NEW a \in Int, NEW b \in Int, NEW d \in Nat, NEW feeA \in Int, NEW feeB \in Int,
           NEW feesA \in Int, NEW feesB \in Int, feesA <= n * feeA, feesB <= n * feeB
    PROVE  n * (b - a + d) - feesA - feesB >= (b - a - feeA - feeB) * n
<1> DEFINE p == n * (b - a)
           q == n * d
           r == n * feeA
           t == n * feeB
<1>1. n * (b - a + d) = p + q
    OBVIOUS
<1>2. (b - a - feeA - feeB) * n = p - r - t
    OBVIOUS
<1>3. p \in Int /\ q \in Nat /\ r \in Int /\ t \in Int /\ feesA <= r /\ feesB <= t
    OBVIOUS
<1> HIDE DEF p, q, r, t
<1>4. p + q - feesA - feesB >= p - r - t
    BY <1>3
<1> QED BY <1>1, <1>2, <1>4

\* Whatever is printed, a lock makes at least its edge for each of its lots.
LEMMA LocksPay ==
    ASSUME Ladder!LadderAssumption, Ladder!TypeOK
    PROVE  Ladder!NestedLockPays
<1> SUFFICES ASSUME print # Ladder!Absent,
                    \A i \in Ladder!LegNumbers : Ladder!Leg(i).type \notin {"less", "less_or_equal"},
                    NEW l \in Ladder!Nested
             PROVE  Ladder!PairPnl(l) >= l.edge * l.count
    BY DEF Ladder!NestedLockPays
<1> DEFINE a == Ladder!Ask(l.outer)
           b == Ladder!Bid(l.inner)
           n == l.count
           feeA == Ladder!TakerFee(1, a)
           feeB == Ladder!TakerFee(1, b)
           feesA == Ladder!TakerFee(n, a)
           feesB == Ladder!TakerFee(n, b)
           won == Ladder!Pays(l.outer)
           lost == Ladder!Pays(l.inner)
<1>1. /\ l.outer \in Ladder!LegNumbers /\ l.inner \in Ladder!LegNumbers
      /\ Ladder!Threshold(Ladder!Leg(l.outer)) # Ladder!Absent
      /\ Ladder!Threshold(Ladder!Leg(l.inner)) # Ladder!Absent
      /\ Ladder!Before(l.outer, l.inner)
      /\ n \in Nat /\ l.edge = b - a - feeA - feeB
    BY LockedPair
<1>2. a \in Nat /\ b \in Nat
    <2>1. quotes[l.outer] \in Touch /\ quotes[l.inner] \in Touch
        BY <1>1, LadderTypes
    <2> QED BY <2>1 DEF Touch, Ladder!Ask, Ladder!Bid
<1>3. print \in Int
    BY DEF Ladder!TypeOK, Ladder!LadderAssumption
<1>4. won \in Int /\ lost \in Int /\ won >= lost
    <2>1. Ladder!Holds(Ladder!Leg(l.inner), print) => Ladder!Holds(Ladder!Leg(l.outer), print)
        BY <1>1, <1>3, OuterPays
    <2> QED BY <2>1 DEF Ladder!Pays
<1>5. /\ feeA \in Int /\ feesA \in Int /\ feesA <= n * feeA
      /\ feeB \in Int /\ feesB \in Int /\ feesB <= n * feeB
    <2>1. a \in Int /\ b \in Int /\ n \in Nat
        BY <1>1, <1>2
    <2> HIDE DEF a, b, n
    <2> QED BY <2>1, FeeOnce
<1>6. Ladder!PairPnl(l) = n * (b - a + won - lost) - feesA - feesB
    BY DEF Ladder!PairPnl
<1>7. Ladder!PairPnl(l) = n * (b - a + (won - lost)) - feesA - feesB
    <2>1. b - a + won - lost = b - a + (won - lost)
        BY <1>2, <1>4
    <2> QED BY <1>6, <2>1
<1>8. won - lost \in Nat
    BY <1>4
<1>9. l.edge * l.count = (b - a - feeA - feeB) * n
    BY <1>1 DEF n
<1> HIDE DEF a, b, n, feeA, feeB, feesA, feesB, won, lost
<1>10. n * (b - a + (won - lost)) - feesA - feesB >= (b - a - feeA - feeB) * n
    BY <1>1, <1>2, <1>5, <1>8, LockArithmetic
<1> QED BY <1>7, <1>9, <1>10

-----------------------------------------------------------------------------
(* One of every leg *)

LEMMA LegsFinite ==
    ASSUME Ladder!LadderAssumption, Ladder!TypeOK
    PROVE  IsFiniteSet(Ladder!LegNumbers) /\ Ladder!LegNumbers # {}
<1> DEFINE n == Len(Events[event])
<1>1. Ladder!LegNumbers = 1 .. n /\ n \in Nat \ {0}
    BY LadderTypes
<1> HIDE DEF n
<1>2. IsFiniteSet(1 .. n)
    <2>1. 1 \in Int /\ n \in Int
        BY <1>1
    <2> QED BY <2>1, FS_Interval
<1>3. 1 \in Ladder!LegNumbers
    BY <1>1
<1> QED BY <1>1, <1>2, <1>3

LEMMA LadderCards ==
    ASSUME NEW S
    PROVE  Ladder!Cardinality(S) = Cardinality(S)
BY Zenon DEF Ladder!Cardinality, Cardinality

\* A tradeable book has a price on every leg and at least one lot.
LEMMA DutchTrades ==
    ASSUME NEW price, NEW depth, NEW gross, depth \in Nat, Ladder!Dutch(price, depth, gross).edge > 0
    PROVE  /\ \A i \in Ladder!LegNumbers : ~(price[i] <= 0)
           /\ Ladder!Dutch(price, depth, gross).count = depth
           /\ Ladder!Dutch(price, depth, gross).edge = depth * gross - Ladder!DutchFees(depth, price)
BY DEF Ladder!Dutch, Ladder!NoBook

\* The fees are a number.
LEMMA DutchFeesInt ==
    ASSUME Ladder!LadderAssumption, Ladder!TypeOK, NEW n \in Nat,
           NEW price, \A i \in Ladder!LegNumbers : price[i] \in Nat
    PROVE  Ladder!DutchFees(n, price) \in Int
<1> DEFINE f == [i \in Ladder!LegNumbers |-> Ladder!TakerFee(n, price[i])]
<1>1. \A i \in Ladder!LegNumbers : f[i] \in Int
    BY FeeOnce
<1>2. SumFunctionOnSet(f, Ladder!LegNumbers) \in Int
    <2> HIDE DEF f
    <2> QED BY <1>1, LegsFinite, SumInt
<1>3. DOMAIN f = Ladder!LegNumbers
    OBVIOUS
<1>4. Ladder!SumFunction(f) \in Int
    <2> HIDE DEF f
    <2> QED BY <1>2, <1>3, LadderSums
<1> QED BY <1>4 DEF Ladder!DutchFees

\* If exactly one leg pays, all of them together pay one contract.
LEMMA OnePays ==
    ASSUME Ladder!LadderAssumption, Ladder!TypeOK, NEW pay, DOMAIN pay = Ladder!LegNumbers,
           \A i \in Ladder!LegNumbers : pay[i] = Ladder!Pays(i),
           Ladder!Cardinality({i \in Ladder!LegNumbers : Ladder!Holds(Ladder!Leg(i), print)}) = 1
    PROVE  SumFunctionOnSet(pay, Ladder!LegNumbers) = 100
<1> DEFINE T == {i \in Ladder!LegNumbers : Ladder!Holds(Ladder!Leg(i), print)}
<1>1. T \in SUBSET Ladder!LegNumbers /\ IsFiniteSet(Ladder!LegNumbers)
    BY LegsFinite
<1>2. \A i \in Ladder!LegNumbers : pay[i] = IF i \in T THEN 100 ELSE 0
    BY DEF Ladder!Pays
<1>3. Cardinality(T) = 1
    BY LadderCards
<1>4. Cardinality(Ladder!LegNumbers) \in Nat
    BY <1>1, FS_CardinalityType
<1>5. SumFunctionOnSet(pay, Ladder!LegNumbers)
          = 100 * Cardinality(T) + 0 * (Cardinality(Ladder!LegNumbers) - Cardinality(T))
    <2> HIDE DEF T
    <2> QED BY <1>1, <1>2, SumOfTwoKinds
<1> HIDE DEF T
<1> QED BY <1>3, <1>4, <1>5

\* The least depth of the legs is a number of lots.
LEMMA DepthNat ==
    ASSUME Ladder!LadderAssumption, Ladder!TypeOK
    PROVE  /\ Ladder!Min({quotes[i].askSize : i \in Ladder!LegNumbers}) \in Nat
           /\ Ladder!Min({quotes[i].bidSize : i \in Ladder!LegNumbers}) \in Nat
<1> DEFINE A == {quotes[i].askSize : i \in Ladder!LegNumbers}
           B == {quotes[i].bidSize : i \in Ladder!LegNumbers}
<1>1. \A i \in Ladder!LegNumbers : quotes[i] \in Touch
    BY LadderTypes
<1>2. A \in SUBSET Nat /\ A # {} /\ B \in SUBSET Nat /\ B # {}
    BY <1>1, LegsFinite DEF Touch
<1>3. Ladder!Min(A) \in A /\ Ladder!Min(B) \in B
    <2> HIDE DEF A, B
    <2> QED BY <1>2, LeastOf
<1> QED BY <1>2, <1>3

\* A book called tradeable made money at the print.
LEMMA DutchesPay ==
    ASSUME Ladder!LadderAssumption, Ladder!TypeOK
    PROVE  Ladder!DutchPays
<1> DEFINE legs == Ladder!LegNumbers
           bought == {i \in legs : Ladder!Ask(i) > 0}
           sold == {i \in legs : Ladder!Bid(i) > 0}
           gains == [i \in bought |-> Ladder!Pays(i) - Ladder!Ask(i)]
           yields == [i \in sold |-> Ladder!Bid(i) - Ladder!Pays(i)]
           pay == [i \in legs |-> Ladder!Pays(i)]
           asks == Ladder!Asks
           bids == Ladder!Bids
<1> SUFFICES ASSUME print # Ladder!Absent,
                    \A x \in Prints :
                        Ladder!Cardinality({i \in legs : Ladder!Holds(Ladder!Leg(i), x)}) = 1
             PROVE  /\ Ladder!DutchBuy.edge > 0 =>
                          Ladder!DutchBuy.count * Ladder!SumFunction(gains)
                              > Ladder!DutchFees(Ladder!DutchBuy.count, asks)
                    /\ Ladder!DutchSell.edge > 0 =>
                          Ladder!DutchSell.count * Ladder!SumFunction(yields)
                              > Ladder!DutchFees(Ladder!DutchSell.count, bids)
    BY DEF Ladder!DutchPays
<1>1. /\ IsFiniteSet(legs) /\ \A i \in legs : Ladder!Ask(i) \in Nat /\ Ladder!Bid(i) \in Nat
      /\ \A i \in legs : Ladder!Pays(i) \in Int
    <2>1. \A i \in legs : quotes[i] \in Touch
        BY LadderTypes
    <2> QED BY <2>1, LegsFinite DEF Touch, Ladder!Ask, Ladder!Bid, Ladder!Pays
<1>2. SumFunctionOnSet(pay, legs) = 100
    <2>1. Ladder!Cardinality({i \in legs : Ladder!Holds(Ladder!Leg(i), print)}) = 1
        BY DEF Ladder!TypeOK
    <2>2. DOMAIN pay = legs /\ \A i \in legs : pay[i] = Ladder!Pays(i)
        OBVIOUS
    <2> HIDE DEF pay, legs
    <2>3. DOMAIN pay = Ladder!LegNumbers /\ \A i \in Ladder!LegNumbers : pay[i] = Ladder!Pays(i)
        BY <2>2 DEF legs
    <2> QED BY <2>1, <2>3, OnePays DEF legs
<1>3. /\ DOMAIN asks = legs /\ \A i \in legs : asks[i] = Ladder!Ask(i) /\ asks[i] \in Nat
      /\ DOMAIN bids = legs /\ \A i \in legs : bids[i] = Ladder!Bid(i) /\ bids[i] \in Nat
    BY <1>1 DEF Ladder!Asks, Ladder!Bids
<1>4. ASSUME Ladder!DutchBuy.edge > 0
      PROVE  Ladder!DutchBuy.count * Ladder!SumFunction(gains) > Ladder!DutchFees(Ladder!DutchBuy.count, asks)
    <2> DEFINE n == Ladder!Min({quotes[i].askSize : i \in legs})
               gross == 100 - Ladder!SumFunction(asks)
    <2>1. n \in Nat
        BY DepthNat
    <2>2. Ladder!DutchBuy = Ladder!Dutch(asks, n, gross)
        BY DEF Ladder!DutchBuy
    <2>3. /\ \A i \in legs : ~(asks[i] <= 0)
          /\ Ladder!DutchBuy.count = n
          /\ Ladder!DutchBuy.edge = n * gross - Ladder!DutchFees(n, asks)
        <3> HIDE DEF n, gross, asks
        <3> QED BY <1>4, <2>1, <2>2, DutchTrades
    <2>4. Ladder!DutchFees(n, asks) \in Int
        <3> HIDE DEF n, asks
        <3> QED BY <1>3, <2>1, DutchFeesInt
    <2>5. DOMAIN gains = legs /\ \A i \in legs : gains[i] \in Int /\ gains[i] = pay[i] - asks[i] /\ pay[i] \in Int
        <3>1. bought = legs
            BY <1>1, <1>3, <2>3
        <3> QED BY <3>1, <1>1, <1>3
    <2>6. SumFunctionOnSet(pay, legs) = SumFunctionOnSet(gains, legs) + SumFunctionOnSet(asks, legs)
        <3>1. \A i \in legs : gains[i] \in Int /\ asks[i] \in Int /\ pay[i] = gains[i] + asks[i]
            BY <1>3, <2>5
        <3> HIDE DEF gains, asks, pay, legs
        <3> QED BY <1>1, <3>1, SumPlus
    <2>7. SumFunctionOnSet(gains, legs) \in Int /\ SumFunctionOnSet(asks, legs) \in Int
        <3>1. (\A i \in legs : gains[i] \in Int) /\ (\A i \in legs : asks[i] \in Int)
            BY <1>3, <2>5
        <3> HIDE DEF gains, asks, legs
        <3> QED BY <1>1, <3>1, SumInt
    <2>8. Ladder!SumFunction(gains) = gross /\ gross \in Int
        <3>1. Ladder!SumFunction(gains) = SumFunctionOnSet(gains, legs)
            <4> HIDE DEF gains
            <4> QED BY <2>5, LadderSums
        <3>2. Ladder!SumFunction(asks) = SumFunctionOnSet(asks, legs)
            <4> HIDE DEF asks
            <4> QED BY <1>3, LadderSums
        <3> HIDE DEF gains, asks, pay, legs
        <3> QED BY <1>2, <2>6, <2>7, <3>1, <3>2
    <2> DEFINE m == n * gross
               fees == Ladder!DutchFees(n, asks)
    <2>9. m \in Int /\ fees \in Int /\ m - fees > 0
        <3> HIDE DEF n, gross
        <3> QED BY <1>4, <2>1, <2>3, <2>4, <2>8
    <2>10. m > fees
        <3> HIDE DEF m, fees
        <3> QED BY <2>9
    <2> QED BY <2>3, <2>8, <2>10
<1>5. ASSUME Ladder!DutchSell.edge > 0
      PROVE  Ladder!DutchSell.count * Ladder!SumFunction(yields) > Ladder!DutchFees(Ladder!DutchSell.count, bids)
    <2> DEFINE n == Ladder!Min({quotes[i].bidSize : i \in legs})
               gross == Ladder!SumFunction(bids) - 100
    <2>1. n \in Nat
        BY DepthNat
    <2>2. Ladder!DutchSell = Ladder!Dutch(bids, n, gross)
        BY DEF Ladder!DutchSell
    <2>3. /\ \A i \in legs : ~(bids[i] <= 0)
          /\ Ladder!DutchSell.count = n
          /\ Ladder!DutchSell.edge = n * gross - Ladder!DutchFees(n, bids)
        <3> HIDE DEF n, gross, bids
        <3> QED BY <1>5, <2>1, <2>2, DutchTrades
    <2>4. Ladder!DutchFees(n, bids) \in Int
        <3> HIDE DEF n, bids
        <3> QED BY <1>3, <2>1, DutchFeesInt
    <2>5. DOMAIN yields = legs /\ \A i \in legs : yields[i] \in Int /\ yields[i] = bids[i] - pay[i] /\ pay[i] \in Int
        <3>1. sold = legs
            BY <1>1, <1>3, <2>3
        <3> QED BY <3>1, <1>1, <1>3
    <2>6. SumFunctionOnSet(bids, legs) = SumFunctionOnSet(yields, legs) + SumFunctionOnSet(pay, legs)
        <3>1. \A i \in legs : yields[i] \in Int /\ pay[i] \in Int /\ bids[i] = yields[i] + pay[i]
            BY <1>3, <2>5
        <3> HIDE DEF yields, bids, pay, legs
        <3> QED BY <1>1, <3>1, SumPlus
    <2>7. SumFunctionOnSet(yields, legs) \in Int /\ SumFunctionOnSet(bids, legs) \in Int
        <3>1. (\A i \in legs : yields[i] \in Int) /\ (\A i \in legs : bids[i] \in Int)
            BY <1>3, <2>5
        <3> HIDE DEF yields, bids, legs
        <3> QED BY <1>1, <3>1, SumInt
    <2>8. Ladder!SumFunction(yields) = gross /\ gross \in Int
        <3>1. Ladder!SumFunction(yields) = SumFunctionOnSet(yields, legs)
            <4> HIDE DEF yields
            <4> QED BY <2>5, LadderSums
        <3>2. Ladder!SumFunction(bids) = SumFunctionOnSet(bids, legs)
            <4> HIDE DEF bids
            <4> QED BY <1>3, LadderSums
        <3> HIDE DEF yields, bids, pay, legs
        <3> QED BY <1>2, <2>6, <2>7, <3>1, <3>2
    <2> DEFINE m == n * gross
               fees == Ladder!DutchFees(n, bids)
    <2>9. m \in Int /\ fees \in Int /\ m - fees > 0
        <3> HIDE DEF n, gross
        <3> QED BY <1>5, <2>1, <2>3, <2>4, <2>8
    <2>10. m > fees
        <3> HIDE DEF m, fees
        <3> QED BY <2>9
    <2> QED BY <2>3, <2>8, <2>10
<1> QED BY <1>4, <1>5

-----------------------------------------------------------------------------
(* The ensemble *)

LEMMA OneAtMost ==
    ASSUME NEW S, IsFiniteSet(S), Cardinality(S) <= 1, NEW x \in S, NEW y \in S
    PROVE  x = y
<1>1. IsFiniteSet(S \ {x}) /\ Cardinality(S \ {x}) = Cardinality(S) - 1
    BY FS_RemoveElement
<1>2. Cardinality(S) \in Nat /\ Cardinality(S \ {x}) \in Nat
    BY <1>1, FS_CardinalityType
<1>3. Cardinality(S \ {x}) = 0
    BY <1>1, <1>2
<1>4. S \ {x} = {}
    BY <1>1, <1>3, FS_EmptySet
<1> QED BY <1>4

\* Of brackets that exclude each other the first that holds is the one.
LEMMA MatchIsHolds ==
    ASSUME Ladder!LadderAssumption, Ladder!TypeOK, NEW x,
           Ladder!Cardinality({j \in Ladder!LegNumbers : Ladder!Holds(Ladder!Leg(j), x)}) <= 1,
           NEW i \in Ladder!LegNumbers
    PROVE  Ladder!MatchLeg(x) = i <=> Ladder!Holds(Ladder!Leg(i), x)
<1> DEFINE matched == {j \in Ladder!LegNumbers : Ladder!Holds(Ladder!Leg(j), x)}
<1>1. Ladder!LegNumbers \subseteq Nat \ {0}
    BY LadderTypes
<1>2. IsFiniteSet(matched) /\ Cardinality(matched) <= 1
    BY LegsFinite, LadderCards, FS_Subset
<1>3. Ladder!MatchLeg(x) = IF matched = {} THEN 0 ELSE Ladder!Min(matched)
    BY DEF Ladder!MatchLeg
<1>4. ASSUME matched # {}
      PROVE  Ladder!Min(matched) \in matched
    <2>1. matched \in SUBSET Nat
        BY <1>1
    <2> HIDE DEF matched
    <2> QED BY <1>4, <2>1, LeastOf
<1>5. i \in matched <=> Ladder!Holds(Ladder!Leg(i), x)
    OBVIOUS
<1>6. \A y, z \in matched : y = z
    <2> HIDE DEF matched
    <2> QED BY <1>2, OneAtMost
<1>7. i # 0
    BY <1>1
<1> HIDE DEF matched
<1> QED BY <1>3, <1>4, <1>5, <1>6, <1>7

\* What a take is: the side with an edge, at its price.
LEMMA TakeHasEdge ==
    ASSUME NEW i, Ladder!YesEdge(i, 5) \in Int, Ladder!NoEdge(i, 5) \in Int,
           NEW prices, NEW take, take = Ladder!FeeAwareEdge(i, 5, prices), take # Ladder!NoTake
    PROVE  \/ take.side = "yes" /\ take.price = Ladder!Ask(i) /\ Ladder!YesEdge(i, 5) > 0
           \/ take.side = "no" /\ take.price = 100 - Ladder!Bid(i) /\ Ladder!NoEdge(i, 5) > 0
<1> DEFINE yes == IF Ladder!Ask(i) \in prices THEN Ladder!YesEdge(i, 5) ELSE 0
           no == IF 100 - Ladder!Bid(i) \in prices THEN Ladder!NoEdge(i, 5) ELSE 0
<1>1. take = CASE yes > 0 /\ yes >= no -> [side |-> "yes", price |-> Ladder!Ask(i)]
               [] no > 0 /\ yes < no -> [side |-> "no", price |-> 100 - Ladder!Bid(i)]
               [] OTHER -> Ladder!NoTake
    BY DEF Ladder!FeeAwareEdge
<1>2. yes > 0 => yes = Ladder!YesEdge(i, 5)
    OBVIOUS
<1>3. no > 0 => no = Ladder!NoEdge(i, 5)
    OBVIOUS
<1>0. yes \in Int /\ no \in Int
    OBVIOUS
<1> HIDE DEF yes, no
<1>4. CASE yes > 0 /\ yes >= no
    <2>1. take = [side |-> "yes", price |-> Ladder!Ask(i)]
        BY <1>0, <1>1, <1>4
    <2> QED BY <1>2, <1>4, <2>1
<1>5. CASE ~(yes > 0 /\ yes >= no) /\ no > 0 /\ yes < no
    <2>1. take = [side |-> "no", price |-> 100 - Ladder!Bid(i)]
        BY <1>0, <1>1, <1>5
    <2> QED BY <1>3, <1>5, <2>1
<1>6. CASE ~(yes > 0 /\ yes >= no) /\ ~(no > 0 /\ yes < no)
    BY <1>1, <1>6
<1> QED BY <1>4, <1>5, <1>6

\* The two edges are what the members add up to, hits and misses.
LEMMA EdgeArithmetic ==
    ASSUME NEW h \in Nat, NEW l \in Nat, NEW p \in Int, NEW fee \in Int
    PROVE  /\ (5 * (100 - p) - fee) * h + (5 * (0 - p) - fee) * (l - h) = 5 * (100 * h - p * l) - fee * l
           /\ (5 * (0 - p) - fee) * h + (5 * (100 - p) - fee) * (l - h) = 5 * ((100 - p) * l - 100 * h) - fee * l
<1> DEFINE a == p * h
           b == p * l
           c == fee * h
           d == fee * l
<1>1. a \in Int /\ b \in Int /\ c \in Int /\ d \in Int
    OBVIOUS
<1>2. (5 * (100 - p) - fee) * h = 500 * h - 5 * a - c /\ (5 * (0 - p) - fee) * h = 0 - 5 * a - c
    OBVIOUS
<1>3. /\ (5 * (0 - p) - fee) * (l - h) = 5 * a - 5 * b + c - d
      /\ (5 * (100 - p) - fee) * (l - h) = 500 * l - 500 * h + 5 * a - 5 * b + c - d
    OBVIOUS
<1>4. (100 - p) * l = 100 * l - b
    OBVIOUS
<1> HIDE DEF a, b, c, d
<1>5. 5 * (100 * h - p * l) - fee * l = 500 * h - 5 * b - d
    BY <1>1 DEF b, d
<1>6. 5 * ((100 - p) * l - 100 * h) - fee * l = 500 * l - 5 * b - 500 * h - d
    <2>1. 5 * (100 * l - b - 100 * h) = 500 * l - 5 * b - 500 * h
        BY <1>1
    <2> QED BY <1>4, <2>1 DEF d
<1> QED BY <1>1, <1>2, <1>3, <1>5, <1>6

LEMMA HoldsBoolean ==
    ASSUME NEW rung, NEW x
    PROVE  Ladder!Holds(rung, x) \in BOOLEAN
<1> DEFINE kinds == {"less", "less_or_equal", "greater", "greater_or_equal"}
           atLeast == rung.floor # Ladder!Absent
           below == rung.cap # Ladder!Absent
<1>1. CASE rung.type \in kinds
    BY <1>1 DEF Ladder!Holds
<1>2. CASE rung.type \notin kinds /\ atLeast /\ below
    <2>1. Ladder!Holds(rung, x) = (x \in rung.floor .. rung.cap)
        BY <1>2 DEF Ladder!Holds
    <2> QED BY <2>1
<1>3. CASE rung.type \notin kinds /\ atLeast /\ ~below
    <2>1. Ladder!Holds(rung, x) = (x >= rung.floor)
        BY <1>3 DEF Ladder!Holds
    <2> QED BY <2>1
<1>4. CASE rung.type \notin kinds /\ ~atLeast
    <2>1. Ladder!Holds(rung, x) = (below /\ x < rung.cap)
        BY <1>4 DEF Ladder!Holds
    <2> QED BY <2>1
<1> QED BY <1>1, <1>2, <1>3, <1>4

\* A leg is taken only if the take makes money on the average of the members.
LEMMA TakesPay ==
    ASSUME Ladder!LadderAssumption, Ladder!TypeOK
    PROVE  Ladder!TakesPayOnAverage
<1> DEFINE Made(i, take) == [k \in DOMAIN members |-> Ladder!TakePnl(i, take, 5, Ladder!Rounded(members[k]))]
<1> SUFFICES ASSUME \A x \in Prints :
                        Ladder!Cardinality({j \in Ladder!LegNumbers : Ladder!Holds(Ladder!Leg(j), x)}) <= 1,
                    NEW i \in Ladder!LegNumbers, NEW take \in Ladder!Takes(i)
             PROVE  Ladder!SumFunction(Made(i, take)) > 0
    BY DEF Ladder!TakesPayOnAverage
<1> DEFINE all == DOMAIN members
           T == {k \in all : Ladder!Holds(Ladder!Leg(i), Ladder!Rounded(members[k]))}
           made == Made(i, take)
           p == take.price
           fee == Ladder!TakerFee(5, p)
           h == Cardinality(T)
           l == Len(members)
           win == 5 * (100 - p) - fee
           lose == 5 * (0 - p) - fee
<1>1. /\ members \in Seq({t \in Int : Ladder!Rounded(t) \in Prints}) /\ l \in Nat
      /\ all = 1 .. l /\ IsFiniteSet(all) /\ Cardinality(all) = l
      /\ \A k \in all : Ladder!Rounded(members[k]) \in Prints
    <2>1. members \in Seq({t \in Int : Ladder!Rounded(t) \in Prints})
        BY DEF Ladder!TypeOK, Ladder!LadderAssumption
    <2>2. l \in Nat /\ all = 1 .. l /\ \A k \in all : Ladder!Rounded(members[k]) \in Prints
        BY <2>1
    <2>3. IsFiniteSet(1 .. l) /\ Cardinality(1 .. l) = l
        <3> HIDE DEF l
        <3> QED BY <2>2, FS_Interval
    <2> QED BY <2>1, <2>2, <2>3
<1>2. T \in SUBSET all /\ IsFiniteSet(T) /\ h \in Nat
    <2>1. T \in SUBSET all
        OBVIOUS
    <2> HIDE DEF T, all
    <2> QED BY <1>1, <2>1, FS_Subset, FS_CardinalityType
<1>3. Ladder!Hits(i) = h
    <2>1. \A k \in all : Ladder!MatchLeg(Ladder!Rounded(members[k])) = i
                            <=> Ladder!Holds(Ladder!Leg(i), Ladder!Rounded(members[k]))
        BY <1>1, MatchIsHolds
    <2>2. {k \in all : Ladder!MatchLeg(Ladder!Rounded(members[k])) = i} = T
        BY <2>1
    <2> QED BY <2>2, LadderCards DEF Ladder!Hits
<1>4. Ladder!Ask(i) \in Int /\ Ladder!Bid(i) \in Int
    BY LadderTypes DEF Touch, Ladder!Ask, Ladder!Bid
<1>5. /\ Ladder!TakerFee(5, Ladder!Ask(i)) \in Int
      /\ 100 - Ladder!Bid(i) \in Int /\ Ladder!TakerFee(5, 100 - Ladder!Bid(i)) \in Int
    <2>1. 100 - Ladder!Bid(i) \in Int
        BY <1>4
    <2> QED BY <1>4, <2>1, FeeOnce
<1>6. /\ Ladder!YesEdge(i, 5) = 5 * (100 * h - Ladder!Ask(i) * l) - Ladder!TakerFee(5, Ladder!Ask(i)) * l
      /\ Ladder!NoEdge(i, 5) = 5 * (Ladder!Bid(i) * l - 100 * h) - Ladder!TakerFee(5, 100 - Ladder!Bid(i)) * l
    BY <1>3 DEF Ladder!YesEdge, Ladder!NoEdge
<1>7. Ladder!YesEdge(i, 5) \in Int /\ Ladder!NoEdge(i, 5) \in Int
    <2> DEFINE a == Ladder!Ask(i)
               b == Ladder!Bid(i)
               x == Ladder!TakerFee(5, a)
               y == Ladder!TakerFee(5, 100 - b)
    <2>1. a \in Int /\ b \in Int /\ x \in Int /\ y \in Int /\ h \in Int /\ l \in Int
        BY <1>1, <1>2, <1>4, <1>5
    <2>2. /\ Ladder!YesEdge(i, 5) = 5 * (100 * h - a * l) - x * l
          /\ Ladder!NoEdge(i, 5) = 5 * (b * l - 100 * h) - y * l
        BY <1>6
    <2> HIDE DEF h, l, a, b, x, y
    <2>3. a * l \in Int /\ x * l \in Int /\ b * l \in Int /\ y * l \in Int
        BY <2>1
    <2> QED BY <2>1, <2>2, <2>3
<1>8. \/ take.side = "yes" /\ p = Ladder!Ask(i) /\ Ladder!YesEdge(i, 5) > 0
      \/ take.side = "no" /\ p = 100 - Ladder!Bid(i) /\ Ladder!NoEdge(i, 5) > 0
    <2>1. \E prices : take = Ladder!FeeAwareEdge(i, 5, prices) /\ take # Ladder!NoTake
        BY DEF Ladder!Takes
    <2> QED BY <1>7, <2>1, TakeHasEdge
<1>9. p \in Int /\ fee \in Int /\ win \in Int /\ lose \in Int
    BY <1>4, <1>5, <1>8
<1>10. DOMAIN made = all /\ \A k \in all : made[k] =
            5 * ((IF Ladder!Holds(Ladder!Leg(i), Ladder!Rounded(members[k])) = (take.side = "yes") THEN 100 ELSE 0) - p) - fee
    BY DEF Ladder!TakePnl
<1>11. Ladder!SumFunction(made) = SumFunctionOnSet(made, all)
    <2> HIDE DEF made, all
    <2> QED BY <1>10, LadderSums
<1>12. ASSUME take.side = "yes" /\ p = Ladder!Ask(i) /\ Ladder!YesEdge(i, 5) > 0
       PROVE  Ladder!SumFunction(made) > 0
    <2>1. \A k \in all : made[k] = IF k \in T THEN win ELSE lose
        <3> HIDE DEF made, p, fee
        <3> QED BY <1>10, <1>12
    <2>2. SumFunctionOnSet(made, all) = win * h + lose * (l - h)
        <3>1. SumFunctionOnSet(made, all) = win * Cardinality(T) + lose * (Cardinality(all) - Cardinality(T))
            <4> HIDE DEF made, T, all, win, lose, l
            <4>1. IsFiniteSet(all) /\ T \in SUBSET all /\ win \in Int /\ lose \in Int
                BY <1>1, <1>2, <1>9
            <4>2. (\A k \in T : made[k] = win) /\ \A k \in all \ T : made[k] = lose
                BY <2>1, <4>1
            <4> QED BY <4>1, <4>2, SumOfTwoKinds
        <3>2. Cardinality(all) = l
            BY <1>1
        <3> HIDE DEF made, T, all, win, lose, l
        <3> QED BY <3>1, <3>2
    <2>3. win * h + lose * (l - h) = 5 * (100 * h - p * l) - fee * l
        <3> HIDE DEF p, fee, h, l
        <3> QED BY <1>1, <1>2, <1>9, EdgeArithmetic
    <2>4. Ladder!YesEdge(i, 5) = 5 * (100 * h - p * l) - fee * l
        BY <1>6, <1>12
    <2> HIDE DEF made, p, fee, h, l, win, lose
    <2> QED BY <1>11, <1>12, <2>2, <2>3, <2>4
<1>13. ASSUME take.side = "no" /\ p = 100 - Ladder!Bid(i) /\ Ladder!NoEdge(i, 5) > 0
       PROVE  Ladder!SumFunction(made) > 0
    <2>1. \A k \in all : made[k] = IF k \in T THEN lose ELSE win
        <3>1. take.side # "yes"
            BY <1>13
        <3>2. \A x : Ladder!Holds(Ladder!Leg(i), x) \in BOOLEAN
            BY HoldsBoolean
        <3> HIDE DEF made, p, fee
        <3> QED BY <1>10, <3>1, <3>2
    <2>2. SumFunctionOnSet(made, all) = lose * h + win * (l - h)
        <3>1. SumFunctionOnSet(made, all) = lose * Cardinality(T) + win * (Cardinality(all) - Cardinality(T))
            <4> HIDE DEF made, T, all, win, lose, l
            <4>1. IsFiniteSet(all) /\ T \in SUBSET all /\ win \in Int /\ lose \in Int
                BY <1>1, <1>2, <1>9
            <4>2. (\A k \in T : made[k] = lose) /\ \A k \in all \ T : made[k] = win
                BY <2>1, <4>1
            <4> QED BY <4>1, <4>2, SumOfTwoKinds
        <3>2. Cardinality(all) = l
            BY <1>1
        <3> HIDE DEF made, T, all, win, lose, l
        <3> QED BY <3>1, <3>2
    <2>3. lose * h + win * (l - h) = 5 * ((100 - p) * l - 100 * h) - fee * l
        <3> HIDE DEF p, fee, h, l
        <3> QED BY <1>1, <1>2, <1>9, EdgeArithmetic
    <2>4. 100 - p = Ladder!Bid(i)
        <3> HIDE DEF p
        <3> QED BY <1>4, <1>13
    <2>5. Ladder!NoEdge(i, 5) = 5 * ((100 - p) * l - 100 * h) - fee * l
        BY <1>6, <1>13, <2>4
    <2> HIDE DEF made, p, fee, h, l, win, lose
    <2> QED BY <1>11, <1>13, <2>2, <2>3, <2>5
<1>14. Ladder!SumFunction(made) > 0
    BY <1>8, <1>12, <1>13
<1> QED BY <1>14

-----------------------------------------------------------------------------
LEMMA LadderInitial == ASSUME Ladder!LadderAssumption PROVE Ladder!Init => Ladder!TypeOK
BY DEF Ladder!Init, Ladder!TypeOK

LEMMA LadderStep ==
    ASSUME Ladder!LadderAssumption
    PROVE  Ladder!TypeOK /\ [Ladder!Next]_(Ladder!ladderVars) => Ladder!TypeOK'
<1> SUFFICES ASSUME Ladder!TypeOK, [Ladder!Next]_(Ladder!ladderVars) PROVE Ladder!TypeOK'
    OBVIOUS
<1> USE DEF Ladder!TypeOK, Ladder!LegNumbers
<1>1. CASE UNCHANGED Ladder!ladderVars
    BY <1>1 DEF Ladder!ladderVars
<1>2. ASSUME NEW i \in Ladder!LegNumbers, NEW q \in Ladders, Ladder!Requote(i, q)
      PROVE  Ladder!TypeOK'
    BY <1>2 DEF Ladder!Requote
<1>3. ASSUME NEW x \in Prints, Ladder!Settle(x)
      PROVE  Ladder!TypeOK'
    BY <1>3 DEF Ladder!Settle
<1> QED
    BY <1>1, <1>2, <1>3 DEF Ladder!Next

\* For every event that lists each strike once, every ladder of quotes and every
\* ensemble: a lock and a book of all legs that the scanners report make money at
\* the print, and a take averaged over the ensemble, with the fees of whole orders.
THEOREM EdgesPay ==
    ASSUME Ladder!LadderAssumption
    PROVE  Ladder!Spec => []Ladder!LadderEdgesPay
<1>1. Ladder!Init => Ladder!TypeOK
    BY LadderInitial
<1>2. Ladder!TypeOK /\ [Ladder!Next]_(Ladder!ladderVars) => Ladder!TypeOK'
    BY LadderStep
<1>3. Ladder!TypeOK => Ladder!LadderEdgesPay
    BY LocksPay, DutchesPay, TakesPay DEF Ladder!LadderEdgesPay
<1> QED
    BY <1>1, <1>2, <1>3, PTL DEF Ladder!Spec

-----------------------------------------------------------------------------
(* Walk-forward: no fold knows what comes after it, and the folds are one  *)
(* track.                                                                  *)

CONSTANTS Bars, Returns, Folds, Warmup, MinFold, Embargo, Cost
VARIABLES kind, rule, ours, theirs, agree, fold, scores

Walk == INSTANCE WalkForward

LEMMA WalkSums ==
    ASSUME NEW f
    PROVE  Walk!SumFunction(f) = SumFunctionOnSet(f, DOMAIN f)
<1>1. Walk!SumFunctionOnSet(f, DOMAIN f) = SumFunctionOnSet(f, DOMAIN f)
    BY Zenon DEF Walk!SumFunctionOnSet, SumFunctionOnSet, Walk!FoldFunctionOnSet, FoldFunctionOnSet,
                 Walk!MapThenFoldSet, MapThenFoldSet
<1> QED BY <1>1 DEF Walk!SumFunction

LEMMA QuotientGrows ==
    ASSUME NEW x \in Int, NEW y \in Int, x <= y, NEW d \in Nat \ {0}
    PROVE  (x \div d) \in Int /\ (y \div d) \in Int /\ x \div d <= y \div d
<1> DEFINE p == x \div d
           q == y \div d
<1>1. p \in Int /\ q \in Int /\ d * p <= x /\ y < d * (q + 1)
    OBVIOUS
<1> HIDE DEF p, q
<1>2. ASSUME p >= q + 1 PROVE FALSE
    <2>1. p - (q + 1) \in Nat
        BY <1>1, <1>2
    <2>2. d * (p - (q + 1)) \in Nat
        BY <2>1
    <2>3. d * (p - (q + 1)) = d * p - d * (q + 1) /\ d * p \in Int /\ d * (q + 1) \in Int
        BY <1>1
    <2> QED BY <1>1, <2>2, <2>3
<1>3. p <= q
    BY <1>1, <1>2
<1> QED BY <1>1, <1>3 DEF p, q

\* The edges go from the warmup to the last bar, in order.
LEMMA Edges ==
    ASSUME Walk!WalkAssumption
    PROVE  /\ \A f \in Nat : Walk!Edge(f) \in Int /\ Walk!Edge(f) >= Warmup
           /\ \A f, g \in Nat : f <= g => Walk!Edge(f) <= Walk!Edge(g)
           /\ Walk!Edge(0) = Warmup /\ Walk!Edge(Folds) = Bars
<1> DEFINE span == Bars - Warmup
<1>1. span \in Nat /\ Folds \in Nat \ {0} /\ Warmup \in Nat /\ Bars \in Nat
    BY DEF Walk!WalkAssumption
<1>2. \A f : Walk!Edge(f) = Warmup + ((f * span) \div Folds)
    BY DEF Walk!Edge
<1>3. Bars = Warmup + span
    BY <1>1
<1> HIDE DEF span
<1>4. ASSUME NEW f \in Nat, NEW g \in Nat, f <= g
      PROVE  /\ (f * span) \div Folds \in Int /\ (g * span) \div Folds \in Int
             /\ (f * span) \div Folds <= (g * span) \div Folds
    <2>1. (g - f) * span \in Nat
        BY <1>1, <1>4
    <2>2. f * span \in Int /\ g * span \in Int /\ (g - f) * span = g * span - f * span
        BY <1>1
    <2>3. f * span <= g * span
        BY <2>1, <2>2
    <2> QED BY <1>1, <2>2, <2>3, QuotientGrows
<1>5. (0 * span) \div Folds = 0
    <2>1. 0 * span = 0
        BY <1>1
    <2>2. 0 \div Folds = 0
        BY <1>1
    <2> QED BY <2>1, <2>2
<1>6. (Folds * span) \div Folds = span
    <2> DEFINE q == (Folds * span) \div Folds
               x == Folds * span
    <2>1. x \in Nat
        BY <1>1
    <2>2. q \in Int /\ Folds * q <= x /\ x < Folds * (q + 1)
        <3> HIDE DEF x
        <3>1. (x \div Folds) \in Int /\ Folds * (x \div Folds) <= x /\ x < Folds * ((x \div Folds) + 1)
            BY <1>1, <2>1
        <3> QED BY <3>1 DEF x
    <2> HIDE DEF q
    <2>3. ASSUME q < span PROVE FALSE
        <3>1. Folds * (span - (q + 1)) \in Nat
            <4>1. span - (q + 1) \in Nat
                BY <1>1, <2>2, <2>3
            <4> QED BY <1>1, <4>1
        <3>2. Folds * (span - (q + 1)) = x - Folds * (q + 1) /\ Folds * (q + 1) \in Int
            BY <1>1, <2>2
        <3> HIDE DEF x
        <3> QED BY <2>1, <2>2, <3>1, <3>2
    <2>4. ASSUME q > span PROVE FALSE
        <3>1. Folds * (q - (span + 1)) \in Nat
            <4>1. q - (span + 1) \in Nat
                BY <1>1, <2>2, <2>4
            <4> QED BY <1>1, <4>1
        <3>2. Folds * (q - (span + 1)) = Folds * q - x - Folds /\ Folds * q \in Int
            BY <1>1, <2>2
        <3> HIDE DEF x
        <3> QED BY <1>1, <2>1, <2>2, <3>1, <3>2
    <2>5. q = span
        BY <1>1, <2>2, <2>3, <2>4
    <2> QED BY <2>5 DEF q
<1>7. \A f \in Nat : Walk!Edge(f) \in Int
    BY <1>1, <1>2, <1>4
<1>8. \A f, g \in Nat : f <= g => Walk!Edge(f) <= Walk!Edge(g)
    BY <1>1, <1>2, <1>4
<1>9. Walk!Edge(0) = Warmup /\ Walk!Edge(Folds) = Bars
    BY <1>1, <1>2, <1>3, <1>5, <1>6
<1>10. \A f \in Nat : Walk!Edge(f) >= Warmup
    <2> SUFFICES ASSUME NEW f \in Nat PROVE Walk!Edge(f) >= Walk!Edge(0)
        BY <1>9
    <2> QED BY <1>7, <1>8
<1> QED BY <1>7, <1>8, <1>9, <1>10

Alike(a, b, k) == \A j \in 1 .. k : a[j] = b[j]
Blind(s, n, k) == s \in {"follow", "fade"} \/ n \in 0 .. k

\* What a strategy holds is none or one, and depends on the bars it was given.
LEMMA PositionKnown ==
    ASSUME NEW a, NEW b, NEW k \in Nat, Alike(a, b, k), NEW s, NEW n, Blind(s, n, k), NEW i \in 0 .. k - 1
    PROVE  Walk!Position(s, a, n, i) = Walk!Position(s, b, n, i)
<1>1. \A j \in 0 .. k - 1 : Walk!R(a, j) = Walk!R(b, j)
    BY DEF Alike, Walk!R
<1>2. CASE s = "follow"
    BY <1>1, <1>2 DEF Walk!Position
<1>3. CASE s = "fade"
    BY <1>1, <1>3 DEF Walk!Position
<1>4. CASE s # "follow" /\ s # "fade"
    <2>1. n \in 0 .. k
        BY <1>4 DEF Blind
    <2>2. \A j \in 0 .. n - 1 : j \in 0 .. k - 1
        BY <2>1
    <2>3. (\A j \in 0 .. n - 1 : Walk!R(a, j) <= Walk!R(a, i)) <=> \A j \in 0 .. n - 1 : Walk!R(b, j) <= Walk!R(b, i)
        BY <1>1, <2>2
    <2> QED BY <1>4, <2>3 DEF Walk!Position
<1> QED BY <1>2, <1>3, <1>4

LEMMA PositionType ==
    ASSUME NEW s, NEW a, NEW n, NEW i
    PROVE  Walk!Position(s, a, n, i) \in {0, 1}
BY DEF Walk!Position

LEMMA NetKnown ==
    ASSUME NEW a, NEW b, NEW k \in Nat, Alike(a, b, k), NEW s, NEW n, Blind(s, n, k), NEW i \in 0 .. k - 1
    PROVE  /\ Walk!Net(s, a, n, i) = Walk!Net(s, b, n, i)
           /\ \A from \in 0 .. i : Walk!PerpsNet(s, a, n, from, i) = Walk!PerpsNet(s, b, n, from, i)
<1>1. \A j \in 0 .. k - 1 : Walk!Position(s, a, n, j) = Walk!Position(s, b, n, j) /\ Walk!R(a, j) = Walk!R(b, j)
    BY PositionKnown DEF Alike, Walk!R
<1>2. Walk!CryptoNet(s, a, n, i) = Walk!CryptoNet(s, b, n, i)
    <2>1. CASE i = 0
        BY <1>1, <2>1 DEF Walk!CryptoNet
    <2>2. CASE i # 0
        <3>1. i - 1 \in 0 .. k - 1 /\ ~(i - 1 < 0) /\ ~(i < 0)
            BY <2>2
        <3> QED BY <1>1, <2>2, <3>1 DEF Walk!CryptoNet
    <2> QED BY <2>1, <2>2
<1>3. Walk!EquityNet(s, a, n, i) = Walk!EquityNet(s, b, n, i)
    <2>1. CASE i = 0
        BY <2>1 DEF Walk!EquityNet
    <2>2. CASE i = 1
        BY <1>1, <2>2 DEF Walk!EquityNet
    <2>3. CASE i \notin {0, 1}
        <3>1. i - 1 \in 0 .. k - 1 /\ i - 2 \in 0 .. k - 1 /\ ~(i < 2) /\ i # 0
            BY <2>3
        <3> QED BY <1>1, <3>1 DEF Walk!EquityNet
    <2> QED BY <2>1, <2>2, <2>3
<1>4. ASSUME NEW from \in 0 .. i
      PROVE  Walk!PerpsNet(s, a, n, from, i) = Walk!PerpsNet(s, b, n, from, i)
    <2>1. CASE i = from
        BY <2>1 DEF Walk!PerpsNet
    <2>2. CASE i = from + 1
        <3>1. i - 1 \in 0 .. k - 1 /\ i - 1 = from /\ ~(i <= from) /\ i - 1 <= from /\ i # from
            BY <2>2
        <3> QED BY <1>1, <3>1 DEF Walk!PerpsNet
    <2>3. CASE i \notin {from, from + 1}
        <3>1. i - 1 \in 0 .. k - 1 /\ (i - 1) - 1 \in 0 .. k - 1 /\ ~(i <= from) /\ ~(i - 1 <= from) /\ i # from
            BY <2>3
        <3> QED BY <1>1, <3>1 DEF Walk!PerpsNet
    <2> QED BY <2>1, <2>2, <2>3
<1> QED BY <1>2, <1>3, <1>4 DEF Walk!Net

\* A window is scored, and its trades counted, on its bars and those before it.
LEMMA WindowKnown ==
    ASSUME NEW a, NEW b, NEW k \in Nat, Alike(a, b, k), NEW s \in {"follow", "fade"}, NEW lo \in Nat, NEW hi \in Int, hi <= k
    PROVE  /\ Walk!PerpsWindow(s, a, lo, hi) = Walk!PerpsWindow(s, b, lo, hi)
           /\ Walk!PerpsTurnover(s, a, lo, hi) = Walk!PerpsTurnover(s, b, lo, hi)
<1>1. ASSUME NEW i \in lo .. hi - 1
      PROVE  Walk!PerpsNet(s, a, Bars, lo, i) = Walk!PerpsNet(s, b, Bars, lo, i)
    <2>1. i \in 0 .. k - 1 /\ lo \in 0 .. i /\ Blind(s, Bars, k)
        BY DEF Blind
    <2> QED BY <2>1, NetKnown
<1>2. [i \in lo .. hi - 1 |-> Walk!PerpsNet(s, a, Bars, lo, i)] = [i \in lo .. hi - 1 |-> Walk!PerpsNet(s, b, Bars, lo, i)]
    BY <1>1
<1>3. Walk!PerpsWindow(s, a, lo, hi) = Walk!PerpsWindow(s, b, lo, hi)
    BY <1>2 DEF Walk!PerpsWindow
<1> DEFINE Move(p, i) == Walk!Abs(Walk!Position(s, p, Bars, i - 1)
                                  - (IF i - 1 <= lo THEN 0 ELSE Walk!Position(s, p, Bars, i - 2)))
<1>4. ASSUME NEW i \in lo + 1 .. hi - 1
      PROVE  Move(a, i) = Move(b, i)
    <2>1. Walk!Position(s, a, Bars, i - 1) = Walk!Position(s, b, Bars, i - 1)
        <3>1. i - 1 \in 0 .. k - 1 /\ Blind(s, Bars, k)
            BY DEF Blind
        <3> QED BY <3>1, PositionKnown
    <2>2. ~(i - 1 <= lo) => Walk!Position(s, a, Bars, i - 2) = Walk!Position(s, b, Bars, i - 2)
        <3> SUFFICES ASSUME ~(i - 1 <= lo) PROVE Walk!Position(s, a, Bars, i - 2) = Walk!Position(s, b, Bars, i - 2)
            OBVIOUS
        <3>1. i - 2 \in 0 .. k - 1 /\ Blind(s, Bars, k)
            BY DEF Blind
        <3> QED BY <3>1, PositionKnown
    <2> QED BY <2>1, <2>2
<1>5. [i \in lo + 1 .. hi - 1 |-> Move(a, i)] = [i \in lo + 1 .. hi - 1 |-> Move(b, i)]
    <2> HIDE DEF Move
    <2> QED BY <1>4
<1>6. Walk!PerpsTurnover(s, a, lo, hi) = Walk!PerpsTurnover(s, b, lo, hi)
    BY <1>5 DEF Walk!PerpsTurnover
<1> QED BY <1>3, <1>6

\* The point a fold is scored with is chosen on the bars before its embargo.
LEMMA PickKnown ==
    ASSUME Walk!WalkAssumption, NEW a, NEW b, NEW k \in Nat, Alike(a, b, k), NEW f \in Nat, Walk!Edge(f) - Embargo <= k
    PROVE  Walk!Pick(a, f) = Walk!Pick(b, f) /\ Walk!Pick(a, f) \in {"follow", "fade"}
<1> DEFINE end == Walk!InSampleEnd(f)
<1>1. end \in Int /\ end <= k
    BY Edges DEF Walk!InSampleEnd, Walk!WalkAssumption
<1>2. \A s \in {"follow", "fade"} :
          /\ Walk!PerpsWindow(s, a, 0, end) = Walk!PerpsWindow(s, b, 0, end)
          /\ Walk!PerpsTurnover(s, a, 0, end) = Walk!PerpsTurnover(s, b, 0, end)
    <2> HIDE DEF end
    <2> QED BY <1>1, WindowKnown
<1>3. Walk!Grid[1] = "follow" /\ Walk!Grid[2] = "fade"
    BY DEF Walk!Grid
<1>4. Walk!Better(a, f, "fade", "follow") = Walk!Better(b, f, "fade", "follow")
    BY <1>2 DEF Walk!Better
<1> QED BY <1>3, <1>4 DEF Walk!Pick

\* A fold's score depends on no bar after it.
LEMMA ScoredKnown ==
    ASSUME Walk!WalkAssumption, NEW a, NEW b, NEW k \in Nat, Alike(a, b, k), NEW f \in Nat, Walk!Edge(f + 1) <= k,
           kind \in Walk!Kinds
    PROVE  Walk!Scored(a, f) = Walk!Scored(b, f)
<1> DEFINE lo == Walk!Edge(f)
           hi == Walk!Edge(f + 1)
<1>1. lo \in Nat /\ hi \in Nat /\ lo <= hi /\ hi <= k
    <2>1. f + 1 \in Nat /\ f <= f + 1 /\ Warmup \in Nat
        BY DEF Walk!WalkAssumption
    <2> QED BY <2>1, Edges
<1> HIDE DEF lo, hi
<1>2. CASE kind = "perps"
    <2>1. Walk!Edge(f) - Embargo <= k
        BY <1>1 DEF lo, Walk!WalkAssumption
    <2>2. Walk!Pick(a, f) = Walk!Pick(b, f) /\ Walk!Pick(a, f) \in {"follow", "fade"}
        BY <2>1, PickKnown
    <2>3. Walk!PerpsWindow(Walk!Pick(a, f), a, lo, hi) = Walk!PerpsWindow(Walk!Pick(a, f), b, lo, hi)
        BY <1>1, <2>2, WindowKnown
    <2> QED BY <1>2, <2>2, <2>3 DEF Walk!Scored, lo, hi
<1>3. CASE kind # "perps"
    <2>1. ASSUME NEW i \in lo .. hi - 1
          PROVE  Walk!Net(rule, a, hi, i) = Walk!Net(rule, b, hi, i)
        <3>1. i \in 0 .. k - 1 /\ Blind(rule, hi, k)
            BY <1>1 DEF Blind
        <3> QED BY <3>1, NetKnown
    <2>2. [i \in lo .. hi - 1 |-> Walk!Net(rule, a, hi, i)] = [i \in lo .. hi - 1 |-> Walk!Net(rule, b, hi, i)]
        BY <2>1
    <2> QED BY <1>3, <2>2 DEF Walk!Scored, Walk!Window, lo, hi
<1> QED BY <1>2, <1>3

-----------------------------------------------------------------------------
LEMMA NetInt ==
    ASSUME Walk!WalkAssumption, Walk!WalkInv, NEW n, NEW i \in 0 .. Bars - 1
    PROVE  Walk!Net(rule, ours, n, i) \in Int
<1>1. \A j : Walk!Position(rule, ours, n, j) \in {0, 1}
    BY PositionType
<1>2. Walk!R(ours, i) \in Int
    <2>1. Bars \in Nat /\ Returns \subseteq Int
        BY DEF Walk!WalkAssumption
    <2>2. ours \in [1 .. Bars -> Returns]
        BY DEF Walk!WalkInv
    <2>3. i + 1 \in 1 .. Bars
        BY <2>1
    <2> QED BY <2>1, <2>2, <2>3 DEF Walk!R
<1>3. Cost \in Int
    BY DEF Walk!WalkAssumption
<1>4. \A x, y \in {0, 1} : x * Walk!R(ours, i) \in Int /\ Cost * Walk!Abs(x - y) \in Int
    BY <1>2, <1>3 DEF Walk!Abs
<1>5. Walk!CryptoNet(rule, ours, n, i) \in Int
    <2> DEFINE at(j) == IF j < 0 THEN 0 ELSE Walk!Position(rule, ours, n, j)
    <2>1. at(i - 1) \in {0, 1} /\ at(i) \in {0, 1}
        BY <1>1
    <2>2. Walk!CryptoNet(rule, ours, n, i)
              = at(i - 1) * Walk!R(ours, i) - (IF i = 0 THEN 0 ELSE Cost * Walk!Abs(at(i) - at(i - 1)))
        BY DEF Walk!CryptoNet
    <2> HIDE DEF at
    <2>3. at(i - 1) * Walk!R(ours, i) \in Int /\ Cost * Walk!Abs(at(i) - at(i - 1)) \in Int
        BY <1>4, <2>1
    <2> QED BY <2>2, <2>3
<1>6. Walk!EquityNet(rule, ours, n, i) \in Int
    <2> DEFINE held == IF i < 2 THEN 0 ELSE Walk!Position(rule, ours, n, i - 2)
               next == Walk!Position(rule, ours, n, i - 1)
    <2>1. held \in {0, 1} /\ next \in {0, 1}
        BY <1>1
    <2>2. Walk!EquityNet(rule, ours, n, i) = IF i = 0 THEN 0 ELSE held * Walk!R(ours, i) - Cost * Walk!Abs(next - held)
        BY DEF Walk!EquityNet
    <2> HIDE DEF held, next
    <2>3. held * Walk!R(ours, i) \in Int /\ Cost * Walk!Abs(next - held) \in Int
        BY <1>4, <2>1
    <2> QED BY <2>2, <2>3
<1> QED BY <1>5, <1>6 DEF Walk!Net

\* A causal strategy holds the same whatever history it is given.
LEMMA CausalNet ==
    ASSUME rule \in Walk!Causal, NEW n, NEW i
    PROVE  Walk!Net(rule, ours, n, i) = Walk!Net(rule, ours, Bars, i)
<1>1. \A j : Walk!Position(rule, ours, n, j) = Walk!Position(rule, ours, Bars, j)
    BY DEF Walk!Causal, Walk!Position
<1> QED BY <1>1 DEF Walk!Net, Walk!CryptoNet, Walk!EquityNet

\* Put end to end, the folds score every bar from the warmup on once.
LEMMA OneTrack ==
    ASSUME Walk!WalkAssumption, Walk!WalkInv
    PROVE  Walk!FoldsAreOneTrack
<1> SUFFICES ASSUME fold = Folds, rule \in Walk!Causal, kind \in {"crypto", "equity"},
                    \A f \in 0 .. Folds - 1 : Walk!Edge(f + 1) - Walk!Edge(f) >= MinFold
             PROVE  Walk!SumFunction([f \in DOMAIN scores |-> scores[f].ours.net])
                        = Walk!SumFunction([i \in Warmup .. Bars - 1 |-> Walk!Net(rule, ours, Bars, i)])
    BY DEF Walk!FoldsAreOneTrack
<1> DEFINE nets == [f \in DOMAIN scores |-> scores[f].ours.net]
           net == [i \in 0 .. Bars - 1 |-> Walk!Net(rule, ours, Bars, i)]
           track == [i \in Warmup .. Bars - 1 |-> Walk!Net(rule, ours, Bars, i)]
           Upto(f) == Warmup .. Walk!Edge(f) - 1
           G == {k \in Nat : k <= Folds => SumFunctionOnSet(nets, 1 .. k) = SumFunctionOnSet(net, Upto(k))}
<1>1. Bars \in Nat /\ Warmup \in 0 .. Bars /\ Folds \in Nat \ {0}
    BY DEF Walk!WalkAssumption
<1>2. \A i \in 0 .. Bars - 1 : net[i] \in Int
    BY NetInt
<1>3. DOMAIN nets = 1 .. Folds
    BY DEF Walk!WalkInv
<1>4. ASSUME NEW k \in 0 .. Folds
      PROVE  Walk!Edge(k) \in Int /\ Warmup <= Walk!Edge(k) /\ Walk!Edge(k) <= Bars
    BY <1>1, Edges
<1>5. ASSUME NEW k \in 1 .. Folds
      PROVE  nets[k] = SumFunctionOnSet(net, Walk!Edge(k - 1) .. Walk!Edge(k) - 1)
    <2> DEFINE lo == Walk!Edge(k - 1)
               hi == Walk!Edge(k)
               part == [i \in lo .. hi - 1 |-> Walk!Net(rule, ours, hi, i)]
    <2>1. k - 1 \in 0 .. Folds - 1 /\ (k - 1) + 1 = k /\ k - 1 \in 0 .. Folds /\ k \in 0 .. Folds
        BY <1>1
    <2>2. lo \in Int /\ hi \in Int /\ Warmup <= lo /\ hi <= Bars
        BY <1>4, <2>1
    <2>3. ~(hi - lo < MinFold)
        <3>1. hi - lo >= MinFold
            BY <2>1
        <3>2. MinFold \in Int
            BY DEF Walk!WalkAssumption
        <3> HIDE DEF hi, lo
        <3> QED BY <2>2, <3>1, <3>2
    <2>4. Walk!Scored(ours, k - 1).net = Walk!SumFunction(part)
        <3>1. Walk!Scored(ours, k - 1) = [pick |-> rule, net |-> Walk!SumFunction(part)]
            BY <2>1, <2>3 DEF Walk!Scored, Walk!Window
        <3> HIDE DEF part
        <3> QED BY <3>1
    <2>5. nets[k] = Walk!Scored(ours, k - 1).net
        BY <1>3 DEF Walk!WalkInv
    <2>6. Walk!SumFunction(part) = SumFunctionOnSet(part, lo .. hi - 1)
        <3>1. DOMAIN part = lo .. hi - 1
            OBVIOUS
        <3> HIDE DEF part
        <3> QED BY <3>1, WalkSums
    <2>7. SumFunctionOnSet(part, lo .. hi - 1) = SumFunctionOnSet(net, lo .. hi - 1)
        <3>1. \A i \in lo .. hi - 1 : part[i] \in Int /\ part[i] = net[i]
            <4> SUFFICES ASSUME NEW i \in lo .. hi - 1 PROVE part[i] \in Int /\ part[i] = net[i]
                OBVIOUS
            <4>1. i \in 0 .. Bars - 1
                <5> HIDE DEF lo, hi
                <5> QED BY <1>1, <2>2
            <4>2. part[i] = Walk!Net(rule, ours, hi, i)
                OBVIOUS
            <4> QED BY <1>2, <4>1, <4>2, CausalNet
        <3>2. IsFiniteSet(lo .. hi - 1)
            <4> HIDE DEF lo, hi
            <4>1. hi - 1 \in Int
                BY <2>2
            <4> QED BY <2>2, <4>1, FS_Interval
        <3> HIDE DEF part, net, lo, hi
        <3> QED BY <3>1, <3>2, SumSame
    <2> QED BY <2>4, <2>5, <2>6, <2>7
<1>6. 0 \in G
    <2>1. 1 .. 0 = {} /\ Upto(0) = {}
        BY <1>1, Edges
    <2> HIDE DEF nets, net, Upto
    <2> QED BY <2>1, SumEmpty
<1>7. ASSUME NEW k \in Nat, k \in G PROVE k + 1 \in G
    <2> SUFFICES ASSUME k + 1 <= Folds
                 PROVE  SumFunctionOnSet(nets, 1 .. k + 1) = SumFunctionOnSet(net, Upto(k + 1))
        OBVIOUS
    <2> DEFINE lo == Walk!Edge(k)
               hi == Walk!Edge(k + 1)
               window == lo .. hi - 1
    <2>1. k + 1 \in 1 .. Folds /\ (k + 1) - 1 = k /\ k \in 0 .. Folds /\ k + 1 \in 0 .. Folds
        BY <1>1
    <2>2. lo \in Int /\ hi \in Int /\ Warmup <= lo /\ lo <= hi /\ hi <= Bars
        <3>1. lo <= hi
            BY <2>1, Edges
        <3> QED BY <1>4, <2>1, <3>1
    <2>3. \A f \in 1 .. Folds : nets[f] \in Int
        <3> SUFFICES ASSUME NEW f \in 1 .. Folds PROVE nets[f] \in Int
            OBVIOUS
        <3> DEFINE from == Walk!Edge(f - 1)
                   to == Walk!Edge(f) - 1
        <3>1. f - 1 \in 0 .. Folds /\ f \in 0 .. Folds
            BY <1>1
        <3>2. from \in Int /\ to \in Int /\ Warmup <= from /\ to <= Bars - 1
            BY <1>1, <1>4, <3>1
        <3> HIDE DEF from, to
        <3>3. IsFiniteSet(from .. to) /\ \A i \in from .. to : net[i] \in Int
            <4>1. from .. to \subseteq 0 .. Bars - 1
                BY <1>1, <3>2
            <4> HIDE DEF net
            <4> QED BY <1>2, <3>2, <4>1, FS_Interval
        <3>4. nets[f] = SumFunctionOnSet(net, from .. to)
            BY <1>5 DEF from, to
        <3> HIDE DEF net, nets
        <3> QED BY <3>3, <3>4, SumInt
    <2>4. SumFunctionOnSet(nets, 1 .. k + 1) = SumFunctionOnSet(nets, 1 .. k) + nets[k + 1]
        <3>1. 1 .. (k + 1) = (1 .. k) \cup {k + 1} /\ k + 1 \notin 1 .. k
            BY SMT
        <3>2. IsFiniteSet(1 .. k)
            <4>1. 1 \in Int /\ k \in Int
                OBVIOUS
            <4> QED BY <4>1, FS_Interval
        <3>3. \A y \in (1 .. k) \cup {k + 1} : nets[y] \in Int
            <4> HIDE DEF nets
            <4>1. (1 .. k) \cup {k + 1} \subseteq 1 .. Folds
                <5>1. \A y \in 1 .. k : y \in 1 .. Folds
                    BY <1>1, <2>1
                <5> QED BY <2>1, <5>1
            <4> QED BY <2>3, <4>1
        <3> HIDE DEF nets
        <3>4. SumFunctionOnSet(nets, (1 .. k) \cup {k + 1}) = SumFunctionOnSet(nets, 1 .. k) + nets[k + 1]
            BY <3>1, <3>2, <3>3, SumAdd
        <3> QED BY <3>1, <3>4
    <2>5. SumFunctionOnSet(net, Upto(k + 1)) = SumFunctionOnSet(net, Upto(k)) + SumFunctionOnSet(net, window)
        <3> DEFINE whole == Warmup .. hi - 1
                   before == Warmup .. lo - 1
        <3> HIDE DEF lo, hi
        <3>1. window = whole \ before /\ before \in SUBSET whole
            BY <1>1, <2>2
        <3>2. IsFiniteSet(whole)
            <4>1. Warmup \in Int /\ hi - 1 \in Int
                BY <1>1, <2>2
            <4> QED BY <4>1, FS_Interval
        <3>3. \A i \in whole : net[i] \in Int
            <4>1. whole \subseteq 0 .. Bars - 1
                BY <1>1, <2>2
            <4> HIDE DEF net, whole
            <4> QED BY <1>2, <4>1
        <3>4. Upto(k + 1) = whole /\ Upto(k) = before
            BY DEF hi, lo
        <3> HIDE DEF net, window, Upto, whole, before
        <3>5. SumFunctionOnSet(net, whole) = SumFunctionOnSet(net, before) + SumFunctionOnSet(net, whole \ before)
            BY <3>1, <3>2, <3>3, SumSplit
        <3> QED BY <3>1, <3>4, <3>5
    <2>6. nets[k + 1] = SumFunctionOnSet(net, window)
        BY <1>5, <2>1
    <2>7. SumFunctionOnSet(nets, 1 .. k) = SumFunctionOnSet(net, Upto(k))
        BY <1>7, <2>1
    <2> HIDE DEF nets, net, Upto, window
    <2> QED BY <2>4, <2>5, <2>6, <2>7
<1>8. Folds \in G
    <2> HIDE DEF G
    <2>1. Nat \subseteq G
        BY <1>6, <1>7, NatSetInduction
    <2> QED BY <1>1, <2>1
<1>9. SumFunctionOnSet(nets, 1 .. Folds) = SumFunctionOnSet(net, Warmup .. Bars - 1)
    <2>1. Upto(Folds) = Warmup .. Bars - 1
        BY Edges
    <2> HIDE DEF nets, net, Upto
    <2> QED BY <1>1, <1>8, <2>1
<1>10. SumFunctionOnSet(track, Warmup .. Bars - 1) = SumFunctionOnSet(net, Warmup .. Bars - 1)
    <2>1. \A i \in Warmup .. Bars - 1 : track[i] \in Int /\ track[i] = net[i]
        <3>1. Warmup .. Bars - 1 \subseteq 0 .. Bars - 1
            BY <1>1
        <3> QED BY <1>2, <3>1
    <2>2. IsFiniteSet(Warmup .. Bars - 1)
        <3>1. Warmup \in Int /\ Bars - 1 \in Int
            BY <1>1
        <3> QED BY <3>1, FS_Interval
    <2> HIDE DEF track, net
    <2> QED BY <2>1, <2>2, SumSame
<1>11. /\ Walk!SumFunction(nets) = SumFunctionOnSet(nets, 1 .. Folds)
       /\ Walk!SumFunction(track) = SumFunctionOnSet(track, Warmup .. Bars - 1)
    <2>1. DOMAIN track = Warmup .. Bars - 1
        OBVIOUS
    <2> HIDE DEF nets, track
    <2> QED BY <1>3, <2>1, WalkSums
<1> QED BY <1>9, <1>10, <1>11

-----------------------------------------------------------------------------
LEMMA WalkInitial == ASSUME Walk!WalkAssumption PROVE Walk!Init => Walk!WalkInv
<1> SUFFICES ASSUME Walk!Init PROVE Walk!WalkInv
    OBVIOUS
<1>1. fold = 0 /\ scores = << >> /\ Folds \in Nat
    BY DEF Walk!Init, Walk!WalkAssumption
<1>2. scores = [f \in 1 .. fold |-> [ours |-> Walk!Scored(ours, f - 1), theirs |-> Walk!Scored(theirs, f - 1)]]
    <2>1. 1 .. fold = {}
        BY <1>1
    <2> QED BY <1>1, <2>1
<1> QED BY <1>1, <1>2 DEF Walk!Init, Walk!WalkInv

LEMMA WalkStep ==
    ASSUME Walk!WalkAssumption, Walk!WalkInv, [Walk!Next]_Walk!vars
    PROVE  Walk!WalkInv'
<1> DEFINE Row(f) == [ours |-> Walk!Scored(ours, f - 1), theirs |-> Walk!Scored(theirs, f - 1)]
<1>1. UNCHANGED <<kind, rule, ours, theirs, agree>>
    BY DEF Walk!Next, Walk!vars
<1>2. \A f : Row(f)' = Row(f)
    BY <1>1 DEF Walk!Scored, Walk!Net
<1>3. fold \in 0 .. Folds /\ Folds \in Nat /\ scores = [f \in 1 .. fold |-> Row(f)]
    BY DEF Walk!WalkInv, Walk!WalkAssumption
<1>4. fold' \in 0 .. Folds /\ scores' = [f \in 1 .. fold' |-> Row(f)]
    <2>1. CASE Walk!Next
        <3>1. fold < Folds /\ fold' = fold + 1 /\ scores' = Append(scores, Row(fold + 1))
            <4>1. (fold + 1) - 1 = fold
                BY <1>3
            <4> QED BY <2>1, <4>1 DEF Walk!Next
        <3> HIDE DEF Row
        <3>2. fold' \in 0 .. Folds
            BY <1>3, <3>1
        <3>3. Append(scores, Row(fold + 1)) = [f \in 1 .. fold + 1 |-> Row(f)]
            <4>1. \A f \in 1 .. fold + 1 : Append(scores, Row(fold + 1))[f] = Row(f)
                BY <1>3
            <4>2. Append(scores, Row(fold + 1)) = [f \in 1 .. fold + 1 |-> Append(scores, Row(fold + 1))[f]]
                BY <1>3
            <4> QED BY <4>1, <4>2
        <3> QED BY <3>1, <3>2, <3>3
    <2>2. CASE UNCHANGED Walk!vars
        BY <1>3, <2>2 DEF Walk!vars
    <2> QED BY <2>1, <2>2
<1>5. scores' = [f \in 1 .. fold' |-> Row(f)']
    <2> HIDE DEF Row
    <2> QED BY <1>2, <1>4
<1> QED BY <1>1, <1>4, <1>5 DEF Walk!WalkInv

\* No fold's score, and no fold's pick, saw a bar that came after it.
LEMMA FoldsBlind ==
    ASSUME Walk!WalkAssumption, Walk!WalkInv
    PROVE  Walk!FoldIgnoresFuture /\ Walk!PickIsBlind
<1>1. DOMAIN scores = 1 .. fold /\ fold \in Nat /\ agree \in Nat /\ kind \in Walk!Kinds
    BY DEF Walk!WalkInv, Walk!WalkAssumption
<1>2. Alike(ours, theirs, agree)
    BY DEF Alike, Walk!WalkInv, Walk!WalkAssumption
<1>3. ASSUME NEW f \in DOMAIN scores
      PROVE  /\ f - 1 \in Nat /\ (f - 1) + 1 = f
             /\ scores[f].ours = Walk!Scored(ours, f - 1) /\ scores[f].theirs = Walk!Scored(theirs, f - 1)
    BY <1>1 DEF Walk!WalkInv
<1>4. Walk!FoldIgnoresFuture
    <2> SUFFICES ASSUME NEW f \in DOMAIN scores, Walk!Edge(f) <= agree PROVE scores[f].ours = scores[f].theirs
        BY DEF Walk!FoldIgnoresFuture
    <2>1. Walk!Scored(ours, f - 1) = Walk!Scored(theirs, f - 1)
        BY <1>1, <1>2, <1>3, ScoredKnown
    <2> QED BY <1>3, <2>1
<1>5. Walk!PickIsBlind
    <2> SUFFICES ASSUME kind = "perps", NEW f \in DOMAIN scores, Walk!Edge(f - 1) - Embargo <= agree
                 PROVE  scores[f].ours.pick = scores[f].theirs.pick
        BY DEF Walk!PickIsBlind
    <2>1. Walk!Pick(ours, f - 1) = Walk!Pick(theirs, f - 1)
        BY <1>1, <1>2, <1>3, PickKnown
    <2>2. Walk!Scored(ours, f - 1).pick = Walk!Pick(ours, f - 1) /\ Walk!Scored(theirs, f - 1).pick = Walk!Pick(theirs, f - 1)
        BY DEF Walk!Scored
    <2> QED BY <1>3, <2>1, <2>2
<1> QED BY <1>4, <1>5

\* A walk-forward report is honest on all three desks, whatever the panels, the
\* edges, the embargo and the cost: a fold's score depends on no bar after the
\* fold, a perps pick on no bar of the fold or its embargo, and the folds of the
\* crypto and equity desks are together the track of one account.
THEOREM FoldsAreHonest == ASSUME Walk!WalkAssumption PROVE Walk!Spec => []Walk!FoldsHonest
<1>1. Walk!Init => Walk!WalkInv
    BY WalkInitial
<1>2. Walk!WalkInv /\ [Walk!Next]_Walk!vars => Walk!WalkInv'
    BY WalkStep
<1>3. Walk!WalkInv => Walk!FoldsHonest
    BY FoldsBlind, OneTrack DEF Walk!FoldsHonest
<1> QED BY <1>1, <1>2, <1>3, PTL DEF Walk!Spec

-----------------------------------------------------------------------------
(* The Kalshi strategies: whatever the window looks like, an entry costs no *)
(* more than the strategy's share of the bankroll.                          *)

CONSTANTS Snapshots, Requotes
VARIABLE m

Entry == INSTANCE KalshiStrategies

Functions ==
    {"always_yes", "always_no", "coin_flip", "oracle", "favorite_blind", "crypto_fav", "one_pct", "offhours_lock",
     "desk_book", "wait7_book", "persist_book", "tight_book", "late_sit_book", "richer_wait", "no_eth_book", "dir_zone",
     "settle_ride", "longshot_no", "same_side_book", "spot_desk", "poly_confirm", "poly_book", "model_fav", "late_lock",
     "favorite_confirmed", "session_favorite", "iv_rich_favorite", "open_fade", "open_follow", "longshot", "yolo_book"}

Params ==
    [fn : Functions, first : Int, last : Int, low : Int, high : Int, theta : Int, kelly : Nat, stake : Nat,
     count : Nat \ {0}, open : Int, spread : Int, volume : Int, flowOnly : BOOLEAN]
Candidate == [side : {"yes", "no"}, cost : Int, q : Int]

\* At most one candidate a side.
Slate(S) == S \subseteq Candidate /\ \A c, d \in S : c.side = d.side => c = d

\* The order has the minimum of lots, and with its fee fits the stake.
Within(order, p) ==
    order # Entry!Sit =>
        /\ order.count \in Int /\ order.price \in Int /\ order.count >= p.count
        /\ 100 * (order.count * order.price + Entry!TakerFee(order.count, order.price)) <= p.stake * m.bankroll

LEMMA MostIs ==
    ASSUME NEW S \in SUBSET Int, IsFiniteSet(S), S # {}
    PROVE  Entry!Max(S) \in S /\ \A y \in S : y <= Entry!Max(S)
<1> DEFINE P(x) == x \in S /\ \A y \in S : x >= y
<1>1. \E x : P(x)
    <2>1. PICK x \in S : \A y \in S : y <= x
        BY HasHighest
    <2>2. \A y \in S : x >= y
        BY <2>1
    <2> QED BY <2>2
<1>2. Entry!Max(S) = CHOOSE x : P(x)
    BY Zenon DEF Entry!Max
<1> HIDE DEF P
<1>3. P(Entry!Max(S))
    BY <1>1, <1>2, Zenon
<1>4. P(Entry!Max(S)) => Entry!Max(S) \in S /\ \A y \in S : Entry!Max(S) >= y
    BY DEF P
<1> QED
    BY <1>3, <1>4

LEMMA MostOfTwo ==
    ASSUME NEW a \in Int, NEW b \in Int
    PROVE  Entry!Max({a, b}) \in {a, b}
<1>1. IsFiniteSet({a, b}) /\ {a, b} \in SUBSET Int /\ {a, b} # {}
    <2>1. IsFiniteSet({a}) /\ {a, b} = {a} \cup {b}
        BY FS_Singleton
    <2>2. IsFiniteSet({a} \cup {b})
        BY <2>1, FS_AddElement
    <2> QED BY <2>1, <2>2
<1> QED
    BY <1>1, MostIs

LEMMA FewerOfTwo ==
    ASSUME NEW a \in Int, NEW b \in Int
    PROVE  Entry!Min({a, b}) \in {a, b}
<1> DEFINE P(x) == x \in {a, b} /\ \A y \in {a, b} : x <= y
<1>1. \E x : P(x)
    <2>1. CASE a <= b
        BY <2>1
    <2>2. CASE ~(a <= b)
        BY <2>2
    <2> QED BY <2>1, <2>2
<1>2. Entry!Min({a, b}) = CHOOSE x : P(x)
    BY Zenon DEF Entry!Min
<1> HIDE DEF P
<1>3. P(Entry!Min({a, b}))
    BY <1>1, <1>2, Zenon
<1> QED
    BY <1>3 DEF P

\* Of a slate there is a best, whatever it is judged by.
LEMMA BestIs ==
    ASSUME NEW S, Slate(S), S # {}, NEW key, \A c \in S : key[c] \in Int
    PROVE  Entry!Best(S, key) \in S
<1> DEFINE Better(c) == \A d \in S : key[d] < key[c] \/ (key[d] = key[c] /\ (c.side = "yes" \/ d = c))
<1>1. \E c \in S : Better(c)
    <2>1. PICK c \in S : TRUE
        OBVIOUS
    <2>2. CASE \A d \in S : d = c
        BY <2>2
    <2>3. CASE \E d \in S : d # c
        <3>1. PICK d \in S : d # c
            BY <2>3
        <3>2. c.side # d.side /\ c.side \in {"yes", "no"} /\ d.side \in {"yes", "no"}
            BY <3>1 DEF Slate, Candidate
        <3>3. PICK y \in S, n \in S : y.side = "yes" /\ n.side = "no"
            BY <3>2
        <3>4. \A e \in S : e = y \/ e = n
            <4> SUFFICES ASSUME NEW e \in S PROVE e = y \/ e = n
                OBVIOUS
            <4>1. e.side \in {"yes", "no"}
                BY DEF Slate, Candidate
            <4> QED BY <3>3, <4>1 DEF Slate
        <3>5. CASE key[n] <= key[y]
            <4>1. Better(y)
                BY <3>3, <3>4, <3>5
            <4> QED BY <4>1
        <3>6. CASE ~(key[n] <= key[y])
            <4>1. Better(n)
                BY <3>4, <3>6
            <4> QED BY <4>1
        <3> QED BY <3>5, <3>6
    <2> QED BY <2>2, <2>3
<1>2. Entry!Best(S, key) = CHOOSE c \in S : Better(c)
    BY Zenon DEF Entry!Best
<1> HIDE DEF Better
<1> QED
    BY <1>1, <1>2, Zenon

LEMMA DearestIs ==
    ASSUME NEW S, Slate(S), S # {}
    PROVE  Entry!Dearest(S) \in S
<1>1. \A c \in S : [d \in S |-> d.cost][c] \in Int
    BY DEF Slate, Candidate
<1> QED
    BY <1>1, BestIs DEF Entry!Dearest

\* What is sized by looking for what fits, fits.
LEMMA LotsFit ==
    ASSUME Entry!TypeOK, NEW p \in Params, NEW c \in Candidate, NEW want \in Int
    PROVE  Within(Entry!Order(c, Entry!Lots(want, c.cost, p)), p)
<1> DEFINE fitting == {n \in p.count .. want : Entry!Fits(n, c.cost, p)}
           n == Entry!Lots(want, c.cost, p)
<1>1. CASE fitting = {}
    BY <1>1 DEF Entry!Lots, Entry!Order, Within
<1>2. CASE fitting # {}
    <2>1. p.count \in Nat \ {0}
        BY DEF Params
    <2>2. fitting \in SUBSET Int /\ IsFiniteSet(fitting)
        <3> DEFINE range == p.count .. want
        <3>1. IsFiniteSet(range)
            BY <2>1, FS_Interval
        <3>2. fitting \in SUBSET range /\ range \in SUBSET Int
            BY <2>1
        <3> HIDE DEF fitting, range
        <3>3. IsFiniteSet(fitting)
            BY <3>1, <3>2, FS_Subset
        <3> QED BY <3>2, <3>3
    <2>3. n = Entry!Max(fitting)
        BY <1>2 DEF Entry!Lots
    <2>4. n \in fitting
        <3> HIDE DEF fitting, n
        <3> QED BY <1>2, <2>2, <2>3, MostIs
    <2>5. n \in Int /\ n >= p.count /\ n # 0 /\ Entry!Fits(n, c.cost, p)
        BY <2>1, <2>4
    <2> HIDE DEF n, fitting
    <2>6. Entry!Order(c, n) = [side |-> c.side, count |-> n, price |-> c.cost]
        BY <2>5 DEF Entry!Order
    <2>7. Within(Entry!Order(c, n), p)
        BY <2>5, <2>6 DEF Within, Entry!Fits, Candidate
    <2> QED BY <2>7 DEF n
<1> QED
    BY <1>1, <1>2

\* Kelly's size, the whole cap or the minimum lot.
LEMMA SizeWithin ==
    ASSUME Entry!TypeOK, NEW p \in Params, NEW c \in Candidate, NEW fillCap \in BOOLEAN
    PROVE  Within(Entry!Size(c, p, fillCap), p)
<1> DEFINE cap == Entry!CapLots(c.cost, p)
           kelly == Entry!KellyLots(c, p)
           want == IF fillCap THEN cap ELSE Entry!Min({kelly, cap})
           most == Entry!Max({want, p.count})
<1>1. c.cost \in Int /\ c.q \in Int /\ p.stake \in Nat /\ p.kelly \in Nat /\ p.count \in Int /\ m.bankroll \in Nat
    BY DEF Candidate, Params, Entry!TypeOK, Entry!Snapshot
<1>2. CASE c.cost <= 0 \/ c.cost >= 100
    BY <1>2 DEF Entry!Size, Within
<1>3. CASE ~(c.cost <= 0 \/ c.cost >= 100)
    <2>1. cap \in Int
        <3>1. p.stake * m.bankroll \in Int /\ 100 * c.cost \in Nat \ {0}
            BY <1>1, <1>3
        <3> QED BY <3>1 DEF Entry!CapLots
    <2>2. kelly \in Int
        <3> DEFINE allin == c.cost + Entry!TakerFee(1, c.cost)
        <3>1. Entry!TakerFee(1, c.cost) \in Int
            <4>1. 7 * 1 * c.cost * (100 - c.cost) \in Int
                BY <1>1
            <4> QED BY <4>1 DEF Entry!TakerFee, Entry!CeilDiv
        <3>2. allin \in Int
            BY <1>1, <3>1
        <3> HIDE DEF allin
        <3>3. Entry!KellyLots(c, p) = IF allin >= 100 \/ c.q <= allin THEN 0
                                      ELSE (p.kelly * (c.q - allin) * m.bankroll) \div (4 * (100 - allin) * c.cost)
            BY DEF Entry!KellyLots, allin
        <3>4. CASE allin >= 100 \/ c.q <= allin
            BY <3>3, <3>4
        <3>5. CASE ~(allin >= 100 \/ c.q <= allin)
            <4>1. p.kelly * (c.q - allin) * m.bankroll \in Int
                BY <1>1, <3>2
            <4>2. 4 * (100 - allin) * c.cost \in Nat \ {0}
                BY <1>1, <1>3, <3>2, <3>5
            <4> QED BY <3>3, <3>5, <4>1, <4>2
        <3> QED BY <3>4, <3>5
    <2>3. want \in Int
        <3> HIDE DEF kelly, cap
        <3>1. Entry!Min({kelly, cap}) \in Int
            BY <2>1, <2>2, FewerOfTwo
        <3> QED BY <2>1, <3>1
    <2>4. most \in Int
        <3> HIDE DEF want
        <3> QED BY <1>1, <2>3, MostOfTwo
    <2>5. Entry!Size(c, p, fillCap) = Entry!Order(c, Entry!Lots(most, c.cost, p))
        BY <1>3 DEF Entry!Size
    <2> HIDE DEF most
    <2> QED BY <2>4, <2>5, LotsFit
<1> QED
    BY <1>2, <1>3

\* A lock's size, for what it wants to win.
LEMMA SizeLockWithin ==
    ASSUME Entry!TypeOK, NEW p \in Params, NEW c \in Candidate, NEW target \in Nat
    PROVE  Within(Entry!SizeLock(c, p, target), p)
<1> DEFINE cap == Entry!CapLots(c.cost, p)
           want == (target * m.bankroll) \div (100 * (100 - c.cost))
           most == Entry!Max({p.count, want})
           lots == Entry!Min({cap, most})
<1>1. c.cost \in Int /\ p.stake \in Nat /\ p.count \in Int /\ m.bankroll \in Nat
    BY DEF Candidate, Params, Entry!TypeOK, Entry!Snapshot
<1>2. CASE c.cost <= 0 \/ c.cost > 97 \/ Entry!FeeEatsPayout(c.cost)
    BY <1>2 DEF Entry!SizeLock, Within
<1>3. CASE ~(c.cost <= 0 \/ c.cost > 97 \/ Entry!FeeEatsPayout(c.cost))
    <2>1. cap \in Int
        <3>1. p.stake * m.bankroll \in Int /\ 100 * c.cost \in Nat \ {0}
            BY <1>1, <1>3
        <3> QED BY <3>1 DEF Entry!CapLots
    <2>2. want \in Int
        <3>1. target * m.bankroll \in Int /\ 100 * (100 - c.cost) \in Nat \ {0}
            BY <1>1, <1>3
        <3> QED BY <3>1
    <2>3. most \in Int
        <3> HIDE DEF want
        <3> QED BY <1>1, <2>2, MostOfTwo
    <2>4. lots \in Int
        <3> HIDE DEF cap, most
        <3> QED BY <2>1, <2>3, FewerOfTwo
    <2>5. Entry!SizeLock(c, p, target) = Entry!Order(c, Entry!Lots(lots, c.cost, p))
        BY <1>3 DEF Entry!SizeLock
    <2> HIDE DEF lots
    <2> QED BY <2>4, <2>5, LotsFit
<1> QED
    BY <1>2, <1>3

-----------------------------------------------------------------------------
(* Candidates *)

LEMMA Offers ==
    ASSUME Entry!TypeOK, NEW y \in Int, NEW n \in Int
    PROVE  /\ Slate(Entry!Yes(y) \cup Entry!No(n)) /\ Slate(Entry!Yes(y)) /\ Slate(Entry!No(n))
           /\ Slate(Entry!Bias(Entry!Yes(y) \cup Entry!No(n))) /\ Slate(Entry!Bias(Entry!No(n)))
<1>1. m.ask \in Int /\ m.bid \in Int
    BY DEF Entry!TypeOK, Entry!Snapshot
<1>2. /\ Entry!Yes(y) \subseteq {[side |-> "yes", cost |-> m.ask, q |-> y]}
      /\ Entry!No(n) \subseteq {[side |-> "no", cost |-> 100 - m.bid, q |-> n]}
    BY DEF Entry!Yes, Entry!No, Entry!Buy
<1>3. Slate(Entry!Yes(y) \cup Entry!No(n)) /\ Slate(Entry!Yes(y)) /\ Slate(Entry!No(n))
    BY <1>1, <1>2 DEF Slate, Candidate
<1>4. ASSUME NEW S, Slate(S) PROVE Slate(Entry!Bias(S))
    <2> DEFINE Sized(c) == [c EXCEPT !.q = Entry!Min({97, c.cost + 3})]
    <2>1. ASSUME NEW c \in S PROVE Sized(c) \in Candidate /\ Sized(c).side = c.side
        <3>1. c \in Candidate /\ c.cost + 3 \in Int
            BY <1>4 DEF Slate, Candidate
        <3>2. Entry!Min({97, c.cost + 3}) \in Int
            BY <3>1, FewerOfTwo
        <3> QED BY <3>1, <3>2 DEF Candidate
    <2>2. Entry!Bias(S) = {Sized(c) : c \in S}
        BY DEF Entry!Bias
    <2> HIDE DEF Sized
    <2>3. Entry!Bias(S) \subseteq Candidate
        BY <2>1, <2>2
    <2>4. ASSUME NEW c \in Entry!Bias(S), NEW d \in Entry!Bias(S), c.side = d.side PROVE c = d
        <3>1. PICK x \in S, y1 \in S : c = Sized(x) /\ d = Sized(y1)
            BY <2>2
        <3>2. x.side = y1.side
            BY <2>1, <2>4, <3>1
        <3> QED BY <1>4, <3>1, <3>2 DEF Slate
    <2> QED BY <2>3, <2>4 DEF Slate
<1> QED
    BY <1>3, <1>4

LEMMA SmallerSlate ==
    ASSUME NEW S, Slate(S), NEW T \in SUBSET S
    PROVE  Slate(T)
BY DEF Slate

LEMMA AnyOf ==
    ASSUME NEW S, Slate(S), S # {}
    PROVE  (CHOOSE c \in S : TRUE) \in Candidate
<1>1. (CHOOSE c \in S : TRUE) \in S
    BY Zenon
<1> QED
    BY <1>1 DEF Slate

-----------------------------------------------------------------------------
(* The strategies *)

LEMMA WithinMore ==
    ASSUME Entry!TypeOK, NEW p \in Params, NEW q \in Params, p.stake <= q.stake, q.count <= p.count,
           NEW order, Within(order, p)
    PROVE  Within(order, q)
<1> SUFFICES ASSUME order # Entry!Sit PROVE Within(order, q)
    BY DEF Within
<1> DEFINE cost == 100 * (order.count * order.price + Entry!TakerFee(order.count, order.price))
<1>1. order.count \in Int /\ order.price \in Int /\ order.count >= p.count /\ cost <= p.stake * m.bankroll
    BY DEF Within
<1>2. cost \in Int
    <2>1. order.count * order.price \in Int /\ 7 * order.count * order.price * (100 - order.price) \in Int
        BY <1>1
    <2>2. Entry!TakerFee(order.count, order.price) \in Int
        BY <2>1 DEF Entry!TakerFee, Entry!CeilDiv
    <2> QED BY <2>1, <2>2
<1>3. p.stake \in Nat /\ q.stake \in Nat /\ p.count \in Int /\ q.count \in Int /\ m.bankroll \in Nat
    BY DEF Params, Entry!TypeOK, Entry!Snapshot
<1>4. p.stake * m.bankroll <= q.stake * m.bankroll
    <2>1. (q.stake - p.stake) * m.bankroll \in Nat
        <3>1. q.stake - p.stake \in Nat
            BY <1>3
        <3> QED BY <1>3, <3>1
    <2>2. (q.stake - p.stake) * m.bankroll = q.stake * m.bankroll - p.stake * m.bankroll
        BY <1>3
    <2>3. q.stake * m.bankroll \in Int /\ p.stake * m.bankroll \in Int
        BY <1>3
    <2> QED BY <2>1, <2>2, <2>3
<1>5. cost <= q.stake * m.bankroll /\ order.count >= q.count
    <2>1. q.stake * m.bankroll \in Int /\ p.stake * m.bankroll \in Int
        BY <1>3
    <2> HIDE DEF cost
    <2> QED BY <1>1, <1>2, <1>3, <1>4, <2>1
<1> QED
    BY <1>1, <1>5 DEF Within

\* The favourite at most costs the stake, and is bought at a price in the band.
LEMMA FavoriteWithin ==
    ASSUME Entry!TypeOK, NEW p \in Params, NEW fillCap \in BOOLEAN
    PROVE  LET order == Entry!FavoriteBlind(p, fillCap) IN
           /\ Within(order, p)
           /\ order # Entry!Sit => order.side \in {"yes", "no"} /\ Entry!HeldEntry(order.side) >= p.low
<1> DEFINE order == Entry!FavoriteBlind(p, fillCap)
           band == Entry!InBand(Entry!Bias(Entry!Yes(0) \cup Entry!No(0)), p)
           cands == {c \in band : ~Entry!FeeEatsPayout(c.cost)}
           best == Entry!Dearest(cands)
<1>1. CASE order = Entry!Sit
    BY <1>1 DEF Within
<1>2. CASE order # Entry!Sit
    <2>1. cands # {} /\ order = Entry!Size(best, p, fillCap)
        BY <1>2 DEF Entry!FavoriteBlind
    <2>2. Slate(cands)
        <3>1. Slate(Entry!Bias(Entry!Yes(0) \cup Entry!No(0)))
            BY Offers
        <3>2. cands \in SUBSET Entry!Bias(Entry!Yes(0) \cup Entry!No(0))
            BY DEF Entry!InBand
        <3> HIDE DEF cands
        <3> QED BY <3>1, <3>2, SmallerSlate
    <2>3. best \in cands /\ best \in Candidate
        <3>1. best \in cands
            <4> HIDE DEF cands
            <4> QED BY <2>1, <2>2, DearestIs
        <3> HIDE DEF cands, best
        <3> QED BY <2>2, <3>1 DEF Slate
    <2>4. Within(order, p)
        <3> HIDE DEF cands, best, order
        <3> QED BY <2>1, <2>3, SizeWithin
    <2>5. order.side = best.side
        <3> HIDE DEF best, order
        <3> QED BY <1>2, <2>1 DEF Entry!Size, Entry!Order
    <2>6. best.side \in {"yes", "no"} /\ Entry!HeldEntry(best.side) >= p.low
        <3>1. best \in Entry!Bias(Entry!Yes(0) \cup Entry!No(0)) /\ best.cost \in p.low .. p.high
            <4> HIDE DEF best
            <4> QED BY <2>3 DEF Entry!InBand
        <3> HIDE DEF best
        <3>2. PICK c \in Entry!Yes(0) \cup Entry!No(0) : best = [c EXCEPT !.q = Entry!Min({97, c.cost + 3})]
            BY <3>1 DEF Entry!Bias
        <3>3. m.ask \in Int /\ m.bid \in Int /\ p.low \in Int /\ p.high \in Int
            BY DEF Entry!TypeOK, Entry!Snapshot, Params
        <3>4. CASE c \in Entry!Yes(0)
            <4>1. m.ask # Entry!Absent /\ c = [side |-> "yes", cost |-> m.ask, q |-> 0]
                BY <3>4 DEF Entry!Yes, Entry!Buy, Entry!Quoted
            <4>2. best.side = "yes" /\ best.cost = m.ask
                BY <3>2, <4>1
            <4>3. Entry!HeldEntry("yes") = m.ask
                BY <4>1 DEF Entry!HeldEntry, Entry!Quoted
            <4> QED BY <3>1, <3>3, <4>1, <4>2, <4>3
        <3>5. CASE c \in Entry!No(0)
            <4>1. m.bid # Entry!Absent /\ c = [side |-> "no", cost |-> 100 - m.bid, q |-> 0]
                BY <3>5 DEF Entry!No, Entry!Buy, Entry!Quoted
            <4>2. best.side = "no" /\ best.cost = 100 - m.bid
                BY <3>2, <4>1
            <4>3. Entry!HeldEntry("no") = 100 - m.bid
                BY <4>1 DEF Entry!HeldEntry, Entry!Quoted
            <4> QED BY <3>1, <3>3, <4>1, <4>2, <4>3
        <3> QED BY <3>2, <3>4, <3>5
    <2> HIDE DEF order, best
    <2>7. order.side \in {"yes", "no"} /\ Entry!HeldEntry(order.side) >= p.low
        BY <2>5, <2>6
    <2> QED BY <2>4, <2>7 DEF order
<1> QED
    BY <1>1, <1>2

Like(q, p) == q \in Params /\ q.fn = p.fn /\ q.stake = p.stake /\ q.count = p.count

LEMMA CryptoStake ==
    ASSUME NEW p \in Params
    PROVE  /\ Entry!CryptoParams(p) \in Params
           /\ Entry!CryptoParams(p).stake = 4 /\ Entry!CryptoParams(p).count = 4 /\ Entry!CryptoParams(p).low = 75
<1> DEFINE p1 == [p EXCEPT !.low = 75]
           p2 == [p1 EXCEPT !.high = 92]
           p3 == [p2 EXCEPT !.stake = 4]
           p4 == [p3 EXCEPT !.kelly = 1]
           p5 == [p4 EXCEPT !.first = 0]
           p6 == [p5 EXCEPT !.last = 900]
           p7 == [p6 EXCEPT !.count = 4]
           p8 == [p7 EXCEPT !.spread = 100]
           p9 == [p8 EXCEPT !.volume = 0]
<1>1. Entry!CryptoParams(p) = p9
    BY DEF Entry!CryptoParams
<1>2. p1 \in Params /\ p1.low = 75
    BY DEF Params
<1> HIDE DEF p1
<1>3. p2 \in Params /\ p2.low = 75
    BY <1>2 DEF Like, Params
<1> HIDE DEF p2
<1>4. p3 \in Params /\ p3.low = 75 /\ p3.stake = 4
    BY <1>3 DEF Params
<1> HIDE DEF p3
<1>5. p4 \in Params /\ p4.low = 75 /\ p4.stake = 4
    BY <1>4 DEF Params
<1> HIDE DEF p4
<1>6. p5 \in Params /\ p5.low = 75 /\ p5.stake = 4
    BY <1>5 DEF Like, Params
<1> HIDE DEF p5
<1>7. p6 \in Params /\ p6.low = 75 /\ p6.stake = 4
    BY <1>6 DEF Like, Params
<1> HIDE DEF p6
<1>8. p7 \in Params /\ p7.low = 75 /\ p7.stake = 4 /\ p7.count = 4
    BY <1>7 DEF Params
<1> HIDE DEF p7
<1>9. p8 \in Params /\ p8.low = 75 /\ p8.stake = 4 /\ p8.count = 4
    BY <1>8 DEF Like, Params
<1> HIDE DEF p8
<1>10. p9 \in Params /\ p9.low = 75 /\ p9.stake = 4 /\ p9.count = 4
    BY <1>9 DEF Like, Params
<1> HIDE DEF p9
<1> QED BY <1>1, <1>10

Overrides ==
    [wait : Int, spread : Int, move : Int, low : Int, high : Int, first : Int, noEth : BOOLEAN]

\* A strategy of the desk is cut to the crypto stake on crypto, never past its own.
Cuts(p) == p.stake >= 4 /\ p.count = 4

LEMMA DeskWithin ==
    ASSUME Entry!TypeOK, NEW p \in Params, Cuts(p), NEW over \in Overrides
    PROVE  LET order == Entry!DeskBook(p, over) IN
           /\ Within(order, p)
           /\ (order # Entry!Sit /\ over.low = Entry!Absent) =>
                  /\ order.side \in {"yes", "no"}
                  /\ p.low >= 60 => Entry!HeldEntry(order.side) >= 60
                  /\ (m.metal \in Entry!CryptoLive /\ Entry!HasPoly) => Entry!PolyFavorite(55) = order.side
<1> DEFINE crypto == m.metal \in Entry!CryptoOverlay
           base == IF crypto THEN Entry!CryptoParams(p) ELSE p
           own == [base EXCEPT !.last = 900 - over.wait, !.low = Entry!Or(over.low, @),
                               !.high = Entry!Or(over.high, @), !.first = Entry!Or(over.first, @)]
           plain == Entry!FavoriteBlind(own, crypto)
           order == Entry!DeskBook(p, over)
<1>1. base \in Params /\ base.stake <= p.stake /\ base.count = p.count /\ (p.low >= 60 => base.low >= 60)
    <2>1. p.stake \in Nat /\ p.count \in Nat
        BY DEF Params
    <2>2. CASE crypto
        BY <2>1, <2>2, CryptoStake DEF Cuts
    <2>3. CASE ~crypto
        BY <2>1, <2>3
    <2> QED BY <2>2, <2>3
<1> HIDE DEF base
<1>2. /\ own \in Params /\ own.stake = base.stake /\ own.count = base.count
      /\ over.low = Entry!Absent => own.low = base.low
    <2> DEFINE p1 == [base EXCEPT !.last = 900 - over.wait]
               p2 == [p1 EXCEPT !.low = Entry!Or(over.low, p1.low)]
               p3 == [p2 EXCEPT !.high = Entry!Or(over.high, p2.high)]
               p4 == [p3 EXCEPT !.first = Entry!Or(over.first, p3.first)]
    <2>1. /\ 900 - over.wait \in Int
          /\ \A v \in Int : Entry!Or(over.low, v) \in Int /\ Entry!Or(over.high, v) \in Int /\ Entry!Or(over.first, v) \in Int
        BY DEF Overrides, Entry!Or
    <2>2. Like(p1, base) /\ p1.low = base.low /\ p1.low \in Int
        BY <1>1, <2>1 DEF Like, Params
    <2>3. own = p4
        BY <1>1, <2>2 DEF Params
    <2> HIDE DEF p1
    <2>4. Like(p2, p1) /\ p2.low = Entry!Or(over.low, p1.low) /\ p2.high \in Int
        <3>1. Entry!Or(over.low, p1.low) \in Int /\ p1 \in Params
            BY <2>1, <2>2 DEF Like
        <3>2. Like(p2, p1) /\ p2.low = Entry!Or(over.low, p1.low)
            BY <3>1 DEF Like, Params
        <3> QED BY <3>2 DEF Like, Params
    <2> HIDE DEF p2
    <2>5. Like(p3, p2) /\ p3.low = p2.low /\ p3.first \in Int
        <3>1. Entry!Or(over.high, p2.high) \in Int /\ p2 \in Params
            BY <2>1, <2>4 DEF Like
        <3>2. Like(p3, p2) /\ p3.low = p2.low
            BY <3>1 DEF Like, Params
        <3> QED BY <3>2 DEF Like, Params
    <2> HIDE DEF p3
    <2>6. Like(p4, p3) /\ p4.low = p3.low
        <3>1. Entry!Or(over.first, p3.first) \in Int /\ p3 \in Params
            BY <2>1, <2>5 DEF Like
        <3> QED BY <3>1 DEF Like, Params
    <2> HIDE DEF p4, own
    <2> QED BY <2>2, <2>3, <2>4, <2>5, <2>6 DEF Like, Entry!Or
<1> HIDE DEF own
<1>3. crypto \in BOOLEAN
    OBVIOUS
<1>4. order = Entry!Sit \/ (/\ order = plain
                            /\ (m.metal \in Entry!CryptoLive /\ Entry!HasPoly) => Entry!PolyFavorite(55) = plain.side)
    BY DEF Entry!DeskBook, Entry!Unless, Entry!CryptoOverlay, own, base
<1> HIDE DEF crypto
<1>5. Within(plain, own) /\ (plain # Entry!Sit => plain.side \in {"yes", "no"} /\ Entry!HeldEntry(plain.side) >= own.low)
    BY <1>2, <1>3, FavoriteWithin
<1> HIDE DEF plain
<1>6. Within(plain, p)
    <2>1. own.stake <= p.stake /\ p.count <= own.count
        BY <1>1, <1>2 DEF Params
    <2> QED BY <1>2, <1>5, <2>1, WithinMore
<1>7. Within(order, p)
    BY <1>4, <1>6 DEF Within
<1>8. ASSUME order # Entry!Sit, over.low = Entry!Absent
      PROVE  /\ order.side \in {"yes", "no"}
             /\ p.low >= 60 => Entry!HeldEntry(order.side) >= 60
             /\ (m.metal \in Entry!CryptoLive /\ Entry!HasPoly) => Entry!PolyFavorite(55) = order.side
    <2>1. order = plain /\ plain.side \in {"yes", "no"} /\ Entry!HeldEntry(plain.side) >= own.low
        BY <1>4, <1>5, <1>8
    <2>2. Entry!HeldEntry(plain.side) \in Int
        <3>1. m.ask \in Int /\ m.bid \in Int
            BY DEF Entry!TypeOK, Entry!Snapshot
        <3> QED BY <2>1, <3>1 DEF Entry!HeldEntry, Entry!Absent
    <2>3. own.low \in Int /\ (p.low >= 60 => own.low >= 60)
        BY <1>1, <1>2, <1>8 DEF Params
    <2>4. p.low >= 60 => Entry!HeldEntry(plain.side) >= 60
        BY <2>1, <2>2, <2>3
    <2> HIDE DEF order
    <2> QED BY <1>4, <1>8, <2>1, <2>4
<1> QED
    BY <1>7, <1>8

LEMMA UnlessWithin ==
    ASSUME NEW p, NEW order, Within(order, p), NEW sit
    PROVE  Within(Entry!Unless(sit, order), p)
BY DEF Entry!Unless, Within

LEMMA BooksWithin ==
    ASSUME Entry!TypeOK, NEW p \in Params, Cuts(p)
    PROVE  /\ Within(Entry!SettleRide(p), p) /\ Within(Entry!SameSideBook(p), p) /\ Within(Entry!SpotDesk(p), p)
           /\ Within(Entry!PolyConfirm(p), p) /\ Within(Entry!PolyBook(p), p)
<1>1. Entry!Plain \in Overrides
    BY DEF Entry!Plain, Overrides, Entry!Absent
<1>2. Within(Entry!DeskBook(p, Entry!Plain), p)
    BY <1>1, DeskWithin
<1>3. Within(Entry!SameSideBook(p), p) /\ Within(Entry!SpotDesk(p), p) /\ Within(Entry!PolyConfirm(p), p)
    BY <1>2, UnlessWithin DEF Entry!SameSideBook, Entry!SpotDesk, Entry!PolyConfirm
<1>4. Within(Entry!SettleRide(p), p)
    <2> DEFINE crypto == m.metal \in Entry!CryptoLive
               base == IF crypto THEN Entry!CryptoParams(p) ELSE p
               own == [base EXCEPT !.first = 60, !.last = 300, !.low = 70]
    <2>1. base \in Params /\ base.stake <= p.stake /\ base.count = p.count
        <3>1. p.stake \in Nat
            BY DEF Params
        <3> QED BY <3>1, CryptoStake DEF Cuts
    <2>2. crypto \in BOOLEAN /\ Entry!SettleRide(p) = Entry!FavoriteBlind(own, crypto)
        BY DEF Entry!SettleRide
    <2> HIDE DEF base, crypto
    <2>3. own \in Params /\ own.stake <= p.stake /\ p.count <= own.count
        <3> DEFINE p1 == [base EXCEPT !.first = 60]
                   p2 == [p1 EXCEPT !.last = 300]
        <3>1. Like(p1, base)
            BY <2>1 DEF Like, Params
        <3> HIDE DEF p1
        <3>2. Like(p2, p1)
            BY <3>1 DEF Like, Params
        <3> HIDE DEF p2
        <3>3. Like([p2 EXCEPT !.low = 70], p2)
            BY <3>2 DEF Like, Params
        <3>4. own = [p2 EXCEPT !.low = 70]
            BY DEF p1, p2
        <3> HIDE DEF own
        <3>5. own \in Params /\ own.stake = base.stake /\ own.count = base.count
            BY <3>1, <3>2, <3>3, <3>4 DEF Like
        <3> QED BY <2>1, <3>5 DEF Params
    <2> HIDE DEF own
    <2>4. Within(Entry!FavoriteBlind(own, crypto), own)
        BY <2>2, <2>3, FavoriteWithin
    <2> QED BY <2>2, <2>3, <2>4, WithinMore
<1>5. Within(Entry!PolyBook(p), p)
    <2> DEFINE base == Entry!CryptoParams(p)
               own == [base EXCEPT !.low = p.low]
               order == Entry!FavoriteBlind(own, TRUE)
    <2>1. base \in Params /\ base.stake <= p.stake /\ base.count = p.count
        <3>1. p.stake \in Nat
            BY DEF Params
        <3> QED BY <3>1, CryptoStake DEF Cuts
    <2>2. Within(order, p) => Within(Entry!PolyBook(p), p)
        BY UnlessWithin DEF Entry!PolyBook
    <2> HIDE DEF base
    <2>3. own \in Params /\ own.stake <= p.stake /\ p.count <= own.count
        BY <2>1 DEF Params
    <2> HIDE DEF own
    <2>4. Within(order, own)
        BY <2>3, FavoriteWithin
    <2> HIDE DEF order
    <2> QED BY <2>2, <2>3, <2>4, WithinMore
<1> QED
    BY <1>3, <1>4, <1>5

LEMMA BandSlate ==
    ASSUME NEW S, Slate(S), NEW p
    PROVE  Slate(Entry!InBand(S, p))
<1>1. Entry!InBand(S, p) \in SUBSET S
    BY DEF Entry!InBand
<1> QED BY <1>1, SmallerSlate

LEMMA LockWithin ==
    ASSUME Entry!TypeOK, NEW p \in Params, NEW target \in Nat
    PROVE  Within(Entry!OnePct(p, target), p)
<1> DEFINE band == Entry!InBand(Entry!Yes(0) \cup Entry!No(0), p)
           cands == {c \in band : m.spot = "none" \/ Entry!Agrees(c.side)}
           best == Entry!Dearest(cands)
           order == Entry!OnePct(p, target)
<1>1. Slate(cands)
    <2>1. Slate(band)
        BY Offers, BandSlate
    <2>2. cands \in SUBSET band
        OBVIOUS
    <2> HIDE DEF cands, band
    <2> QED BY <2>1, <2>2, SmallerSlate
<1>2. order = Entry!Sit \/ (cands # {} /\ order = Entry!SizeLock(best, p, target))
    BY DEF Entry!OnePct
<1> HIDE DEF cands, order
<1>3. CASE order = Entry!Sit
    BY <1>3 DEF Within, order
<1>4. CASE cands # {} /\ order = Entry!SizeLock(best, p, target)
    <2>1. best \in Candidate
        BY <1>1, <1>4, DearestIs DEF Slate
    <2> HIDE DEF best
    <2> QED BY <1>4, <2>1, SizeLockWithin DEF order
<1> QED BY <1>2, <1>3, <1>4

LEMMA ModelWithin ==
    ASSUME Entry!TypeOK, NEW p \in Params, NEW sure, NEW theta
    PROVE  Within(Entry!ModelAgrees(p, sure, theta), p)
<1> DEFINE fair == Entry!Clamp(m.fair)
           band == Entry!InBand(Entry!Yes(fair) \cup Entry!No(100 - fair), p)
           cands == {c \in band : c.q >= sure /\ Entry!Edge(c) >= theta}
           any == CHOOSE c \in cands : TRUE
           order == Entry!ModelAgrees(p, sure, theta)
<1>0. fair \in Int
    <2>1. m.fair \in Int
        BY DEF Entry!TypeOK, Entry!Snapshot
    <2> DEFINE least == Entry!Min({98, m.fair})
    <2>2. least \in Int
        BY <2>1, FewerOfTwo
    <2>3. fair = Entry!Max({2, least})
        BY DEF Entry!Clamp
    <2> HIDE DEF least, fair
    <2>4. Entry!Max({2, least}) \in {2, least}
        BY <2>2, MostOfTwo
    <2> QED BY <2>2, <2>3, <2>4
<1>1. Slate(cands)
    <2> HIDE DEF fair
    <2>0. 100 - fair \in Int
        BY <1>0
    <2>1. Slate(band)
        BY <1>0, <2>0, Offers, BandSlate
    <2>2. cands \in SUBSET band
        OBVIOUS
    <2> HIDE DEF cands, band
    <2> QED BY <2>1, <2>2, SmallerSlate
<1>2. order = Entry!Sit \/ (cands # {} /\ order = Entry!Size(any, p, FALSE))
    BY DEF Entry!ModelAgrees
<1> HIDE DEF cands, order
<1>3. CASE order = Entry!Sit
    BY <1>3 DEF Within, order
<1>4. CASE cands # {} /\ order = Entry!Size(any, p, FALSE)
    <2>1. any \in Candidate
        BY <1>1, <1>4, AnyOf
    <2> HIDE DEF any
    <2> QED BY <1>4, <2>1, SizeWithin DEF order
<1> QED BY <1>2, <1>3, <1>4

LEMMA ImpulseWithin ==
    ASSUME Entry!TypeOK, NEW p \in Params, NEW with \in BOOLEAN
    PROVE  Within(Entry!OpenImpulse(p, with), p)
<1> DEFINE up == IF with THEN m.impulse = "up" ELSE m.impulse = "down"
           band == Entry!InBand(IF up THEN Entry!Yes(55) ELSE Entry!No(55), p)
           cands == {c \in band : Entry!Edge(c) >= 0}
           any == CHOOSE c \in cands : TRUE
           order == Entry!OpenImpulse(p, with)
<1>1. Slate(cands)
    <2>1. Slate(Entry!Yes(55)) /\ Slate(Entry!No(55))
        <3>1. Slate(Entry!Yes(55) \cup Entry!No(55)) /\ Slate(Entry!Yes(55)) /\ Slate(Entry!No(55))
            BY Offers
        <3> QED BY <3>1
    <2>2. Slate(band)
        BY <2>1, BandSlate
    <2>3. cands \in SUBSET band
        OBVIOUS
    <2> HIDE DEF cands, band
    <2> QED BY <2>2, <2>3, SmallerSlate
<1>2. order = Entry!Sit \/ (cands # {} /\ order = Entry!Size(any, p, FALSE))
    BY DEF Entry!OpenImpulse
<1> HIDE DEF cands, order
<1>3. CASE order = Entry!Sit
    BY <1>3 DEF Within, order
<1>4. CASE cands # {} /\ order = Entry!Size(any, p, FALSE)
    <2>1. any \in Candidate
        BY <1>1, <1>4, AnyOf
    <2> HIDE DEF any
    <2> QED BY <1>4, <2>1, SizeWithin DEF order
<1> QED BY <1>2, <1>3, <1>4

LEMMA ControlWithin ==
    ASSUME Entry!TypeOK, NEW p \in Params, NEW cands, Slate(cands), NEW band, NEW minute_
    PROVE  Within(Entry!Control(p, cands, band, minute_), p)
<1> DEFINE taken == {c \in cands : c.cost \in band}
           any == CHOOSE c \in taken : TRUE
           order == Entry!Control(p, cands, band, minute_)
<1>1. Slate(taken)
    <2>1. taken \in SUBSET cands
        OBVIOUS
    <2> HIDE DEF taken
    <2> QED BY <2>1, SmallerSlate
<1>2. order = Entry!Sit \/ (taken # {} /\ order = Entry!Size(any, p, FALSE))
    BY DEF Entry!Control
<1> HIDE DEF taken, order
<1>3. CASE order = Entry!Sit
    BY <1>3 DEF Within, order
<1>4. CASE taken # {} /\ order = Entry!Size(any, p, FALSE)
    <2>1. any \in Candidate
        BY <1>1, <1>4, AnyOf
    <2> HIDE DEF any
    <2> QED BY <1>4, <2>1, SizeWithin DEF order
<1> QED BY <1>2, <1>3, <1>4

LEMMA LongshotWithin ==
    ASSUME Entry!TypeOK, NEW p \in Params
    PROVE  Within(Entry!Longshot(p), p) /\ Within(Entry!LongshotNo(p), p)
<1>1. Within(Entry!Longshot(p), p)
    <2> DEFINE band == Entry!InBand(Entry!Yes(0) \cup Entry!No(0), p)
               Sized(c) == [c EXCEPT !.q = Entry!Min({40, c.cost + 8})]
               cands == {Sized(c) : c \in band}
               key == [c \in cands |-> -c.cost]
               best == Entry!Best(cands, key)
               order == Entry!Longshot(p)
    <2>1. Slate(cands)
        <3>1. Slate(band)
            BY Offers, BandSlate
        <3> HIDE DEF band
        <3>2. ASSUME NEW c \in band PROVE Sized(c) \in Candidate /\ Sized(c).side = c.side
            <4>1. c \in Candidate /\ c.cost + 8 \in Int
                BY <3>1 DEF Slate, Candidate
            <4>2. Entry!Min({40, c.cost + 8}) \in Int
                BY <4>1, FewerOfTwo
            <4> QED BY <4>1, <4>2 DEF Candidate
        <3> HIDE DEF Sized
        <3>3. cands \subseteq Candidate
            BY <3>2
        <3>4. ASSUME NEW c \in cands, NEW d \in cands, c.side = d.side PROVE c = d
            <4>1. PICK x \in band, y \in band : c = Sized(x) /\ d = Sized(y)
                OBVIOUS
            <4>2. x.side = y.side
                BY <3>2, <3>4, <4>1
            <4> QED BY <3>1, <4>1, <4>2 DEF Slate
        <3> QED BY <3>3, <3>4 DEF Slate
    <2>2. order = Entry!Sit \/ (cands # {} /\ order = Entry!Size(best, p, FALSE))
        BY DEF Entry!Longshot
    <2>3. \A c \in cands : key[c] \in Int
        <3> HIDE DEF cands
        <3> QED BY <2>1 DEF Slate, Candidate
    <2> HIDE DEF cands, order, key
    <2>4. CASE order = Entry!Sit
        BY <2>4 DEF Within, order
    <2>5. CASE cands # {} /\ order = Entry!Size(best, p, FALSE)
        <3>1. best \in Candidate
            BY <2>1, <2>3, <2>5, BestIs DEF Slate
        <3> HIDE DEF best
        <3> QED BY <2>5, <3>1, SizeWithin DEF order
    <2> QED BY <2>2, <2>4, <2>5
<1>2. Within(Entry!LongshotNo(p), p)
    <2> DEFINE all == Entry!Bias(Entry!No(0))
               cands == {c \in all : c.cost >= 81 /\ ~Entry!FeeEatsPayout(c.cost)}
               any == CHOOSE c \in cands : TRUE
               order == Entry!LongshotNo(p)
    <2>1. Slate(cands)
        <3>1. Slate(Entry!Yes(0) \cup Entry!No(0)) /\ Slate(all)
            BY Offers
        <3>2. cands \in SUBSET all
            OBVIOUS
        <3> HIDE DEF cands, all
        <3> QED BY <3>1, <3>2, SmallerSlate
    <2>2. order = Entry!Sit \/ (cands # {} /\ order = Entry!Size(any, p, TRUE))
        BY DEF Entry!LongshotNo
    <2> HIDE DEF cands, order
    <2>3. CASE order = Entry!Sit
        BY <2>3 DEF Within, order
    <2>4. CASE cands # {} /\ order = Entry!Size(any, p, TRUE)
        <3>1. any \in Candidate
            BY <2>1, <2>4, AnyOf
        <3> HIDE DEF any
        <3> QED BY <2>4, <3>1, SizeWithin DEF order
    <2> QED BY <2>2, <2>3, <2>4
<1> QED
    BY <1>1, <1>2

LEMMA YoloWithin ==
    ASSUME Entry!TypeOK, NEW p \in Params
    PROVE  Within(Entry!YoloBook(p), p)
<1> DEFINE Part(first, last, low, high, spread) ==
               [p EXCEPT !.first = first, !.last = last, !.low = low, !.high = high, !.spread = spread]
           a == Part(8, 90, 88, 97, 6)
           b == Part(180, 660, 88, 94, 6)
           c == Part(120, 660, 20, 85, 8)
<1>1. ASSUME NEW first \in Int, NEW last \in Int, NEW low \in Int, NEW high \in Int, NEW spread \in Int
      PROVE  Like(Part(first, last, low, high, spread), p)
    <2> DEFINE p1 == [p EXCEPT !.first = first]
               p2 == [p1 EXCEPT !.last = last]
               p3 == [p2 EXCEPT !.low = low]
               p4 == [p3 EXCEPT !.high = high]
               p5 == [p4 EXCEPT !.spread = spread]
    <2>0. Part(first, last, low, high, spread) = p5
        OBVIOUS
    <2>1. Like(p1, p)
        BY DEF Like, Params
    <2> HIDE DEF p1
    <2>2. Like(p2, p1)
        BY <2>1 DEF Like, Params
    <2> HIDE DEF p2
    <2>3. Like(p3, p2)
        BY <2>2 DEF Like, Params
    <2> HIDE DEF p3
    <2>4. Like(p4, p3)
        BY <2>3 DEF Like, Params
    <2> HIDE DEF p4
    <2>5. Like(p5, p4)
        BY <2>4 DEF Like, Params
    <2> HIDE DEF p5, Part
    <2> QED BY <2>0, <2>1, <2>2, <2>3, <2>4, <2>5 DEF Like
<1>2. /\ Entry!YoloBook(p) \in {Entry!OnePct(a, 4), Entry!FavoriteBlind(b, FALSE), Entry!OpenImpulse(c, TRUE)}
    BY DEF Entry!YoloBook
<1> HIDE DEF Part
<1>3. Like(a, p) /\ Like(b, p) /\ Like(c, p)
    BY <1>1
<1> HIDE DEF a, b, c
<1>4. ASSUME NEW q, Like(q, p), NEW order, Within(order, q) PROVE Within(order, p)
    BY <1>4 DEF Like, Within
<1>5. Within(Entry!OnePct(a, 4), a) /\ Within(Entry!FavoriteBlind(b, FALSE), b) /\ Within(Entry!OpenImpulse(c, TRUE), c)
    BY <1>3, LockWithin, FavoriteWithin, ImpulseWithin DEF Like
<1> QED
    BY <1>2, <1>3, <1>4, <1>5

-----------------------------------------------------------------------------
(* The registry *)

Cutting ==
    {"desk_book", "wait7_book", "persist_book", "tight_book", "late_sit_book", "richer_wait", "no_eth_book", "dir_zone",
     "settle_ride", "same_side_book", "spot_desk", "poly_confirm", "poly_book"}
Listed(p) == p \in Params /\ (p.fn \in Cutting => Cuts(p))

Number == Int
Positive == Nat \ {0}

\* A row of the registry, and one with one of its numbers changed.
Row(p, fn, stake, count, low) ==
    p \in Params /\ p.fn = fn /\ p.stake = stake /\ p.count = count /\ p.low = low

WithOpen(p, v) == [p EXCEPT !.open = v]
WithSpread(p, v) == [p EXCEPT !.spread = v]
WithVolume(p, v) == [p EXCEPT !.volume = v]
WithHigh(p, v) == [p EXCEPT !.high = v]
WithFirst(p, v) == [p EXCEPT !.first = v]
WithLast(p, v) == [p EXCEPT !.last = v]
WithKelly(p, v) == [p EXCEPT !.kelly = v]
WithStake(p, v) == [p EXCEPT !.stake = v]
WithCount(p, v) == [p EXCEPT !.count = v]
WithFlow(p) == [p EXCEPT !.flowOnly = TRUE]

LEMMA NumbersChange ==
    \A p, fn, stake, count, low, v : Row(p, fn, stake, count, low) =>
        /\ v \in Number => Row(WithOpen(p, v), fn, stake, count, low)
        /\ v \in Number => Row(WithSpread(p, v), fn, stake, count, low)
        /\ v \in Number => Row(WithVolume(p, v), fn, stake, count, low)
        /\ v \in Number => Row(WithHigh(p, v), fn, stake, count, low)
        /\ v \in Number => Row(WithFirst(p, v), fn, stake, count, low)
        /\ v \in Number => Row(WithLast(p, v), fn, stake, count, low)
        /\ v \in Positive => Row(WithKelly(p, v), fn, stake, count, low)
        /\ Row(WithFlow(p), fn, stake, count, low)
<1> SUFFICES ASSUME NEW p, NEW fn, NEW stake, NEW count, NEW low, NEW v, Row(p, fn, stake, count, low)
             PROVE
        /\ v \in Number => Row(WithOpen(p, v), fn, stake, count, low)
        /\ v \in Number => Row(WithSpread(p, v), fn, stake, count, low)
        /\ v \in Number => Row(WithVolume(p, v), fn, stake, count, low)
        /\ v \in Number => Row(WithHigh(p, v), fn, stake, count, low)
        /\ v \in Number => Row(WithFirst(p, v), fn, stake, count, low)
        /\ v \in Number => Row(WithLast(p, v), fn, stake, count, low)
        /\ v \in Positive => Row(WithKelly(p, v), fn, stake, count, low)
        /\ Row(WithFlow(p), fn, stake, count, low)
    OBVIOUS
<1>1. v \in Number => Row(WithOpen(p, v), fn, stake, count, low)
    BY DEF WithOpen, Row, Params, Number, Positive
<1>2. v \in Number => Row(WithSpread(p, v), fn, stake, count, low)
    BY DEF WithSpread, Row, Params, Number, Positive
<1>3. v \in Number => Row(WithVolume(p, v), fn, stake, count, low)
    BY DEF WithVolume, Row, Params, Number, Positive
<1>4. v \in Number => Row(WithHigh(p, v), fn, stake, count, low)
    BY DEF WithHigh, Row, Params, Number, Positive
<1>5. v \in Number => Row(WithFirst(p, v), fn, stake, count, low)
    BY DEF WithFirst, Row, Params, Number, Positive
<1>6. v \in Number => Row(WithLast(p, v), fn, stake, count, low)
    BY DEF WithLast, Row, Params, Number, Positive
<1>7. v \in Positive => Row(WithKelly(p, v), fn, stake, count, low)
    BY DEF WithKelly, Row, Params, Number, Positive
<1>8. Row(WithFlow(p), fn, stake, count, low)
    BY DEF WithFlow, Row, Params, Number, Positive
<1> QED
    BY <1>1, <1>2, <1>3, <1>4, <1>5, <1>6, <1>7, <1>8

LEMMA StakeChanges ==
    \A p, fn, stake, count, low, v :
        Row(p, fn, stake, count, low) /\ v \in Positive => Row(WithStake(p, v), fn, v, count, low)
BY DEF WithStake, Row, Params, Positive

LEMMA CountChanges ==
    \A p, fn, stake, count, low, v :
        Row(p, fn, stake, count, low) /\ v \in Positive => Row(WithCount(p, v), fn, stake, v, low)
BY DEF WithCount, Row, Params, Positive

LEMMA LockRow ==
    \A fn \in Functions, first, last \in Number : Row(Entry!Lock(fn, first, last), fn, 4, 4, 88)
<1> SUFFICES ASSUME NEW fn \in Functions, NEW first \in Number, NEW last \in Number
             PROVE  Row(Entry!Lock(fn, first, last), fn, 4, 4, 88)
    OBVIOUS
<1> DEFINE row == Entry!P(fn, first, last, 88, 94, 0)
<1>1. Entry!Lock(fn, first, last) = WithVolume(WithSpread(WithCount(WithStake(WithOpen(row, 6), 4), 4), 4), 40)
    BY DEF Entry!Lock, WithVolume, WithSpread, WithCount, WithStake, WithOpen
<1>2. 6 \in Number /\ 4 \in Positive /\ 4 \in Number /\ 40 \in Number
    BY DEF Number, Positive
<1>3. Row(row, fn, 8, 5, 88)
    BY DEF Entry!P, Params, Row, Number
<1> HIDE DEF row
<1>4. Row(WithOpen(row, 6), fn, 8, 5, 88)
    BY <1>2, <1>3, NumbersChange
<1>5. Row(WithStake(WithOpen(row, 6), 4), fn, 4, 5, 88)
    BY <1>2, <1>4, StakeChanges
<1>6. Row(WithCount(WithStake(WithOpen(row, 6), 4), 4), fn, 4, 4, 88)
    BY <1>2, <1>5, CountChanges
<1>7. Row(WithSpread(WithCount(WithStake(WithOpen(row, 6), 4), 4), 4), fn, 4, 4, 88)
    BY <1>2, <1>6, NumbersChange
<1> QED
    BY <1>1, <1>2, <1>7, NumbersChange

LEMMA OverlayRow ==
    \A fn \in Functions, low \in Number : Row(Entry!Overlay(fn, low), fn, 8, 4, low)
<1> SUFFICES ASSUME NEW fn \in Functions, NEW low \in Number
             PROVE  Row(Entry!Overlay(fn, low), fn, 8, 4, low)
    OBVIOUS
<1> DEFINE row == Entry!P(fn, 0, 900, low, 94, 0)
<1>1. Entry!Overlay(fn, low) = WithKelly(WithVolume(WithSpread(WithCount(WithOpen(row, 7), 4), 100), 0), 2)
    BY DEF Entry!Overlay, WithVolume, WithSpread, WithCount, WithKelly, WithOpen
<1>2. 7 \in Number /\ 4 \in Positive /\ 100 \in Number /\ 0 \in Number /\ 2 \in Positive
    BY DEF Number, Positive
<1>3. Row(row, fn, 8, 5, low)
    BY DEF Entry!P, Params, Row, Number
<1> HIDE DEF row
<1>4. Row(WithOpen(row, 7), fn, 8, 5, low)
    BY <1>2, <1>3, NumbersChange
<1>5. Row(WithCount(WithOpen(row, 7), 4), fn, 8, 4, low)
    BY <1>2, <1>4, CountChanges
<1>6. Row(WithSpread(WithCount(WithOpen(row, 7), 4), 100), fn, 8, 4, low)
    BY <1>2, <1>5, NumbersChange
<1>7. Row(WithVolume(WithSpread(WithCount(WithOpen(row, 7), 4), 100), 0), fn, 8, 4, low)
    BY <1>2, <1>6, NumbersChange
<1> QED
    BY <1>1, <1>2, <1>7, NumbersChange

LEMMA PriorsListed ==
    \A s \in DOMAIN Entry!Priors : Listed(Entry!Priors[s])
<1>1. Listed(Entry!Priors.ctrl_always_yes)
    <2> DEFINE fn == "always_yes"
               row == Entry!P(fn, 120, 780, 5, 99, 0)
    <2>1. Entry!Priors.ctrl_always_yes = row
        BY DEF Entry!Priors
    <2>2. fn \in Functions
        BY DEF Functions
    <2> HIDE DEF fn
    <2>3. Row(row, fn, 8, 5, 5)
        BY <2>2 DEF Entry!P, Params, Row
    <2> QED BY <2>1, <2>3 DEF fn, Row, Listed, Cutting, Cuts
<1>2. Listed(Entry!Priors.ctrl_always_no)
    <2> DEFINE fn == "always_no"
               row == Entry!P(fn, 120, 780, 5, 99, 0)
    <2>1. Entry!Priors.ctrl_always_no = row
        BY DEF Entry!Priors
    <2>2. fn \in Functions
        BY DEF Functions
    <2> HIDE DEF fn
    <2>3. Row(row, fn, 8, 5, 5)
        BY <2>2 DEF Entry!P, Params, Row
    <2> QED BY <2>1, <2>3 DEF fn, Row, Listed, Cutting, Cuts
<1>3. Listed(Entry!Priors.ctrl_coin_flip)
    <2> DEFINE fn == "coin_flip"
               row == Entry!P(fn, 120, 780, 40, 60, 0)
    <2>1. Entry!Priors.ctrl_coin_flip = WithSpread(row, 8)
        BY DEF Entry!Priors, WithSpread
    <2>2. fn \in Functions
        BY DEF Functions
    <2> HIDE DEF fn
    <2>3. 8 \in Number
        BY DEF Number, Positive
    <2>4. Row(row, fn, 8, 5, 40)
        BY <2>2 DEF Entry!P, Params, Row
    <2> HIDE DEF row
    <2>5. Row(WithSpread(row, 8), fn, 8, 5, 40)
        BY <2>3, <2>4, NumbersChange
    <2> QED BY <2>1, <2>5 DEF fn, Row, Listed, Cutting, Cuts
<1>4. Listed(Entry!Priors.oracle_lag)
    <2> DEFINE fn == "oracle"
               row == Entry!P(fn, 300, 600, 35, 92, 7)
    <2>1. Entry!Priors.oracle_lag = row
        BY DEF Entry!Priors
    <2>2. fn \in Functions
        BY DEF Functions
    <2> HIDE DEF fn
    <2>3. Row(row, fn, 8, 5, 35)
        BY <2>2 DEF Entry!P, Params, Row
    <2> QED BY <2>1, <2>3 DEF fn, Row, Listed, Cutting, Cuts
<1>5. Listed(Entry!Priors.oracle_flow)
    <2> DEFINE fn == "oracle"
               row == Entry!P(fn, 180, 720, 30, 92, 5)
    <2>1. Entry!Priors.oracle_flow = WithFlow(row)
        BY DEF Entry!Priors, WithFlow
    <2>2. fn \in Functions
        BY DEF Functions
    <2> HIDE DEF fn
    <2>3. Row(row, fn, 8, 5, 30)
        BY <2>2 DEF Entry!P, Params, Row
    <2> HIDE DEF row
    <2>4. Row(WithFlow(row), fn, 8, 5, 30)
        BY <2>3, NumbersChange
    <2> QED BY <2>1, <2>4 DEF fn, Row, Listed, Cutting, Cuts
<1>6. Listed(Entry!Priors.favorite_blind)
    <2> DEFINE fn == "favorite_blind"
               row == Entry!P(fn, 180, 720, 72, 94, 0)
    <2>1. Entry!Priors.favorite_blind = row
        BY DEF Entry!Priors
    <2>2. fn \in Functions
        BY DEF Functions
    <2> HIDE DEF fn
    <2>3. Row(row, fn, 8, 5, 72)
        BY <2>2 DEF Entry!P, Params, Row
    <2> QED BY <2>1, <2>3 DEF fn, Row, Listed, Cutting, Cuts
<1>7. Listed(Entry!Priors.favorite_div)
    <2> DEFINE fn == "favorite_blind"
               row == Entry!P(fn, 180, 720, 72, 94, 0)
    <2>1. Entry!Priors.favorite_div = WithCount(WithStake(WithOpen(row, 5), 4), 4)
        BY DEF Entry!Priors, WithOpen, WithStake, WithCount
    <2>2. fn \in Functions
        BY DEF Functions
    <2> HIDE DEF fn
    <2>3. 5 \in Number /\ 4 \in Positive
        BY DEF Number, Positive
    <2>4. Row(row, fn, 8, 5, 72)
        BY <2>2 DEF Entry!P, Params, Row
    <2> HIDE DEF row
    <2>5. Row(WithOpen(row, 5), fn, 8, 5, 72)
        BY <2>3, <2>4, NumbersChange
    <2>6. Row(WithStake(WithOpen(row, 5), 4), fn, 4, 5, 72)
        BY <2>3, <2>5, StakeChanges
    <2>7. Row(WithCount(WithStake(WithOpen(row, 5), 4), 4), fn, 4, 4, 72)
        BY <2>3, <2>6, CountChanges
    <2> QED BY <2>1, <2>7 DEF fn, Row, Listed, Cutting, Cuts
<1>8. Listed(Entry!Priors.one_pct)
    <2> DEFINE fn == "one_pct"
               row == Entry!P(fn, 8, 90, 90, 97, 0)
    <2>1. Entry!Priors.one_pct = WithVolume(WithSpread(WithCount(WithOpen(row, 6), 4), 4), 40)
        BY DEF Entry!Priors, WithOpen, WithCount, WithSpread, WithVolume
    <2>2. fn \in Functions
        BY DEF Functions
    <2> HIDE DEF fn
    <2>3. 4 \in Number /\ 6 \in Number /\ 40 \in Number /\ 4 \in Positive
        BY DEF Number, Positive
    <2>4. Row(row, fn, 8, 5, 90)
        BY <2>2 DEF Entry!P, Params, Row
    <2> HIDE DEF row
    <2>5. Row(WithOpen(row, 6), fn, 8, 5, 90)
        BY <2>3, <2>4, NumbersChange
    <2>6. Row(WithCount(WithOpen(row, 6), 4), fn, 8, 4, 90)
        BY <2>3, <2>5, CountChanges
    <2>7. Row(WithSpread(WithCount(WithOpen(row, 6), 4), 4), fn, 8, 4, 90)
        BY <2>3, <2>6, NumbersChange
    <2>8. Row(WithVolume(WithSpread(WithCount(WithOpen(row, 6), 4), 4), 40), fn, 8, 4, 90)
        BY <2>3, <2>7, NumbersChange
    <2> QED BY <2>1, <2>8 DEF fn, Row, Listed, Cutting, Cuts
<1>9. Listed(Entry!Priors.mid_lock)
    <2> DEFINE fn == "one_pct"
               row == Entry!Lock(fn, 180, 300)
    <2>1. Entry!Priors.mid_lock = row
        BY DEF Entry!Priors
    <2>2. fn \in Functions
        BY DEF Functions
    <2> HIDE DEF fn
    <2>3. 180 \in Number /\ 300 \in Number
        BY DEF Number, Positive
    <2>4. Row(row, fn, 4, 4, 88)
        BY <2>2, <2>3, LockRow
    <2> QED BY <2>1, <2>4 DEF fn, Row, Listed, Cutting, Cuts
<1>10. Listed(Entry!Priors.spot_lock)
    <2> DEFINE fn == "one_pct"
               row == Entry!Lock(fn, 180, 660)
    <2>1. Entry!Priors.spot_lock = row
        BY DEF Entry!Priors
    <2>2. fn \in Functions
        BY DEF Functions
    <2> HIDE DEF fn
    <2>3. 180 \in Number /\ 660 \in Number
        BY DEF Number, Positive
    <2>4. Row(row, fn, 4, 4, 88)
        BY <2>2, <2>3, LockRow
    <2> QED BY <2>1, <2>4 DEF fn, Row, Listed, Cutting, Cuts
<1>11. Listed(Entry!Priors.offhours_lock)
    <2> DEFINE fn == "offhours_lock"
               row == Entry!Lock(fn, 180, 660)
    <2>1. Entry!Priors.offhours_lock = row
        BY DEF Entry!Priors
    <2>2. fn \in Functions
        BY DEF Functions
    <2> HIDE DEF fn
    <2>3. 180 \in Number /\ 660 \in Number
        BY DEF Number, Positive
    <2>4. Row(row, fn, 4, 4, 88)
        BY <2>2, <2>3, LockRow
    <2> QED BY <2>1, <2>4 DEF fn, Row, Listed, Cutting, Cuts
<1>12. DOMAIN Entry!Priors =
          {"ctrl_always_yes", "ctrl_always_no", "ctrl_coin_flip", "oracle_lag", "oracle_flow", "favorite_blind",
           "favorite_div", "one_pct", "mid_lock", "spot_lock", "offhours_lock"}
    BY DEF Entry!Priors
<1> QED
    BY <1>1, <1>2, <1>3, <1>4, <1>5, <1>6, <1>7, <1>8, <1>9, <1>10, <1>11, <1>12

LEMMA OverlaysListed ==
    \A s \in DOMAIN Entry!Overlays : Listed(Entry!Overlays[s])
<1>1. Listed(Entry!Overlays.rich_fav)
    <2> DEFINE fn == "favorite_blind"
               row == Entry!Overlay(fn, 60)
    <2>1. Entry!Overlays.rich_fav = WithOpen(row, 6)
        BY DEF Entry!Overlays, WithOpen
    <2>2. fn \in Functions
        BY DEF Functions
    <2> HIDE DEF fn
    <2>3. 6 \in Number /\ 60 \in Number
        BY DEF Number, Positive
    <2>4. Row(row, fn, 8, 4, 60)
        BY <2>2, <2>3, OverlayRow
    <2> HIDE DEF row
    <2>5. Row(WithOpen(row, 6), fn, 8, 4, 60)
        BY <2>3, <2>4, NumbersChange
    <2> QED BY <2>1, <2>5 DEF fn, Row, Listed, Cutting, Cuts
<1>2. Listed(Entry!Overlays.crypto_fav)
    <2> DEFINE fn == "crypto_fav"
               row == Entry!Overlay(fn, 75)
    <2>1. Entry!Overlays.crypto_fav = WithKelly(WithStake(WithOpen(WithHigh(row, 92), 6), 4), 1)
        BY DEF Entry!Overlays, WithHigh, WithOpen, WithStake, WithKelly
    <2>2. fn \in Functions
        BY DEF Functions
    <2> HIDE DEF fn
    <2>3. 6 \in Number /\ 75 \in Number /\ 92 \in Number /\ 1 \in Positive /\ 4 \in Positive
        BY DEF Number, Positive
    <2>4. Row(row, fn, 8, 4, 75)
        BY <2>2, <2>3, OverlayRow
    <2> HIDE DEF row
    <2>5. Row(WithHigh(row, 92), fn, 8, 4, 75)
        BY <2>3, <2>4, NumbersChange
    <2>6. Row(WithOpen(WithHigh(row, 92), 6), fn, 8, 4, 75)
        BY <2>3, <2>5, NumbersChange
    <2>7. Row(WithStake(WithOpen(WithHigh(row, 92), 6), 4), fn, 4, 4, 75)
        BY <2>3, <2>6, StakeChanges
    <2>8. Row(WithKelly(WithStake(WithOpen(WithHigh(row, 92), 6), 4), 1), fn, 4, 4, 75)
        BY <2>3, <2>7, NumbersChange
    <2> QED BY <2>1, <2>8 DEF fn, Row, Listed, Cutting, Cuts
<1>3. Listed(Entry!Overlays.desk_book)
    <2> DEFINE fn == "desk_book"
               row == Entry!Overlay(fn, 75)
    <2>1. Entry!Overlays.desk_book = row
        BY DEF Entry!Overlays
    <2>2. fn \in Functions
        BY DEF Functions
    <2> HIDE DEF fn
    <2>3. 75 \in Number
        BY DEF Number, Positive
    <2>4. Row(row, fn, 8, 4, 75)
        BY <2>2, <2>3, OverlayRow
    <2> QED BY <2>1, <2>4 DEF fn, Row, Listed, Cutting, Cuts
<1>4. Listed(Entry!Overlays.wait7_book)
    <2> DEFINE fn == "wait7_book"
               row == Entry!Overlay(fn, 60)
    <2>1. Entry!Overlays.wait7_book = row
        BY DEF Entry!Overlays
    <2>2. fn \in Functions
        BY DEF Functions
    <2> HIDE DEF fn
    <2>3. 60 \in Number
        BY DEF Number, Positive
    <2>4. Row(row, fn, 8, 4, 60)
        BY <2>2, <2>3, OverlayRow
    <2> QED BY <2>1, <2>4 DEF fn, Row, Listed, Cutting, Cuts
<1>5. Listed(Entry!Overlays.persist_book)
    <2> DEFINE fn == "persist_book"
               row == Entry!Overlay(fn, 60)
    <2>1. Entry!Overlays.persist_book = row
        BY DEF Entry!Overlays
    <2>2. fn \in Functions
        BY DEF Functions
    <2> HIDE DEF fn
    <2>3. 60 \in Number
        BY DEF Number, Positive
    <2>4. Row(row, fn, 8, 4, 60)
        BY <2>2, <2>3, OverlayRow
    <2> QED BY <2>1, <2>4 DEF fn, Row, Listed, Cutting, Cuts
<1>6. Listed(Entry!Overlays.tight_book)
    <2> DEFINE fn == "tight_book"
               row == Entry!Overlay(fn, 60)
    <2>1. Entry!Overlays.tight_book = row
        BY DEF Entry!Overlays
    <2>2. fn \in Functions
        BY DEF Functions
    <2> HIDE DEF fn
    <2>3. 60 \in Number
        BY DEF Number, Positive
    <2>4. Row(row, fn, 8, 4, 60)
        BY <2>2, <2>3, OverlayRow
    <2> QED BY <2>1, <2>4 DEF fn, Row, Listed, Cutting, Cuts
<1>7. Listed(Entry!Overlays.late_sit_book)
    <2> DEFINE fn == "late_sit_book"
               row == Entry!Overlay(fn, 60)
    <2>1. Entry!Overlays.late_sit_book = row
        BY DEF Entry!Overlays
    <2>2. fn \in Functions
        BY DEF Functions
    <2> HIDE DEF fn
    <2>3. 60 \in Number
        BY DEF Number, Positive
    <2>4. Row(row, fn, 8, 4, 60)
        BY <2>2, <2>3, OverlayRow
    <2> QED BY <2>1, <2>4 DEF fn, Row, Listed, Cutting, Cuts
<1>8. Listed(Entry!Overlays.richer_wait)
    <2> DEFINE fn == "richer_wait"
               row == Entry!Overlay(fn, 68)
    <2>1. Entry!Overlays.richer_wait = row
        BY DEF Entry!Overlays
    <2>2. fn \in Functions
        BY DEF Functions
    <2> HIDE DEF fn
    <2>3. 68 \in Number
        BY DEF Number, Positive
    <2>4. Row(row, fn, 8, 4, 68)
        BY <2>2, <2>3, OverlayRow
    <2> QED BY <2>1, <2>4 DEF fn, Row, Listed, Cutting, Cuts
<1>9. Listed(Entry!Overlays.no_eth_book)
    <2> DEFINE fn == "no_eth_book"
               row == Entry!Overlay(fn, 60)
    <2>1. Entry!Overlays.no_eth_book = row
        BY DEF Entry!Overlays
    <2>2. fn \in Functions
        BY DEF Functions
    <2> HIDE DEF fn
    <2>3. 60 \in Number
        BY DEF Number, Positive
    <2>4. Row(row, fn, 8, 4, 60)
        BY <2>2, <2>3, OverlayRow
    <2> QED BY <2>1, <2>4 DEF fn, Row, Listed, Cutting, Cuts
<1>10. Listed(Entry!Overlays.settle_ride)
    <2> DEFINE fn == "settle_ride"
               row == Entry!Overlay(fn, 70)
    <2>1. Entry!Overlays.settle_ride = WithLast(WithFirst(row, 60), 300)
        BY DEF Entry!Overlays, WithFirst, WithLast
    <2>2. fn \in Functions
        BY DEF Functions
    <2> HIDE DEF fn
    <2>3. 60 \in Number /\ 70 \in Number /\ 300 \in Number
        BY DEF Number, Positive
    <2>4. Row(row, fn, 8, 4, 70)
        BY <2>2, <2>3, OverlayRow
    <2> HIDE DEF row
    <2>5. Row(WithFirst(row, 60), fn, 8, 4, 70)
        BY <2>3, <2>4, NumbersChange
    <2>6. Row(WithLast(WithFirst(row, 60), 300), fn, 8, 4, 70)
        BY <2>3, <2>5, NumbersChange
    <2> QED BY <2>1, <2>6 DEF fn, Row, Listed, Cutting, Cuts
<1>11. Listed(Entry!Overlays.longshot_no)
    <2> DEFINE fn == "longshot_no"
               row == Entry!Overlay(fn, 81)
    <2>1. Entry!Overlays.longshot_no = WithKelly(WithStake(WithHigh(WithLast(WithFirst(row, 180), 720), 98), 4), 1)
        BY DEF Entry!Overlays, WithFirst, WithLast, WithHigh, WithStake, WithKelly
    <2>2. fn \in Functions
        BY DEF Functions
    <2> HIDE DEF fn
    <2>3. 81 \in Number /\ 98 \in Number /\ 180 \in Number /\ 720 \in Number /\ 1 \in Positive /\ 4 \in Positive
        BY DEF Number, Positive
    <2>4. Row(row, fn, 8, 4, 81)
        BY <2>2, <2>3, OverlayRow
    <2> HIDE DEF row
    <2>5. Row(WithFirst(row, 180), fn, 8, 4, 81)
        BY <2>3, <2>4, NumbersChange
    <2>6. Row(WithLast(WithFirst(row, 180), 720), fn, 8, 4, 81)
        BY <2>3, <2>5, NumbersChange
    <2>7. Row(WithHigh(WithLast(WithFirst(row, 180), 720), 98), fn, 8, 4, 81)
        BY <2>3, <2>6, NumbersChange
    <2>8. Row(WithStake(WithHigh(WithLast(WithFirst(row, 180), 720), 98), 4), fn, 4, 4, 81)
        BY <2>3, <2>7, StakeChanges
    <2>9. Row(WithKelly(WithStake(WithHigh(WithLast(WithFirst(row, 180), 720), 98), 4), 1), fn, 4, 4, 81)
        BY <2>3, <2>8, NumbersChange
    <2> QED BY <2>1, <2>9 DEF fn, Row, Listed, Cutting, Cuts
<1>12. Listed(Entry!Overlays.dir_zone)
    <2> DEFINE fn == "dir_zone"
               row == Entry!Overlay(fn, 25)
    <2>1. Entry!Overlays.dir_zone = WithKelly(WithStake(WithHigh(row, 58), 4), 1)
        BY DEF Entry!Overlays, WithHigh, WithStake, WithKelly
    <2>2. fn \in Functions
        BY DEF Functions
    <2> HIDE DEF fn
    <2>3. 25 \in Number /\ 58 \in Number /\ 1 \in Positive /\ 4 \in Positive
        BY DEF Number, Positive
    <2>4. Row(row, fn, 8, 4, 25)
        BY <2>2, <2>3, OverlayRow
    <2> HIDE DEF row
    <2>5. Row(WithHigh(row, 58), fn, 8, 4, 25)
        BY <2>3, <2>4, NumbersChange
    <2>6. Row(WithStake(WithHigh(row, 58), 4), fn, 4, 4, 25)
        BY <2>3, <2>5, StakeChanges
    <2>7. Row(WithKelly(WithStake(WithHigh(row, 58), 4), 1), fn, 4, 4, 25)
        BY <2>3, <2>6, NumbersChange
    <2> QED BY <2>1, <2>7 DEF fn, Row, Listed, Cutting, Cuts
<1>13. Listed(Entry!Overlays.same_side_book)
    <2> DEFINE fn == "same_side_book"
               row == Entry!Overlay(fn, 60)
    <2>1. Entry!Overlays.same_side_book = row
        BY DEF Entry!Overlays
    <2>2. fn \in Functions
        BY DEF Functions
    <2> HIDE DEF fn
    <2>3. 60 \in Number
        BY DEF Number, Positive
    <2>4. Row(row, fn, 8, 4, 60)
        BY <2>2, <2>3, OverlayRow
    <2> QED BY <2>1, <2>4 DEF fn, Row, Listed, Cutting, Cuts
<1>14. Listed(Entry!Overlays.spot_desk)
    <2> DEFINE fn == "spot_desk"
               row == Entry!Overlay(fn, 60)
    <2>1. Entry!Overlays.spot_desk = row
        BY DEF Entry!Overlays
    <2>2. fn \in Functions
        BY DEF Functions
    <2> HIDE DEF fn
    <2>3. 60 \in Number
        BY DEF Number, Positive
    <2>4. Row(row, fn, 8, 4, 60)
        BY <2>2, <2>3, OverlayRow
    <2> QED BY <2>1, <2>4 DEF fn, Row, Listed, Cutting, Cuts
<1>15. Listed(Entry!Overlays.poly_confirm)
    <2> DEFINE fn == "poly_confirm"
               row == Entry!Overlay(fn, 60)
    <2>1. Entry!Overlays.poly_confirm = row
        BY DEF Entry!Overlays
    <2>2. fn \in Functions
        BY DEF Functions
    <2> HIDE DEF fn
    <2>3. 60 \in Number
        BY DEF Number, Positive
    <2>4. Row(row, fn, 8, 4, 60)
        BY <2>2, <2>3, OverlayRow
    <2> QED BY <2>1, <2>4 DEF fn, Row, Listed, Cutting, Cuts
<1>16. Listed(Entry!Overlays.poly_book)
    <2> DEFINE fn == "poly_book"
               row == Entry!Overlay(fn, 60)
    <2>1. Entry!Overlays.poly_book = WithKelly(WithStake(WithOpen(WithHigh(row, 92), 2), 4), 1)
        BY DEF Entry!Overlays, WithHigh, WithOpen, WithStake, WithKelly
    <2>2. fn \in Functions
        BY DEF Functions
    <2> HIDE DEF fn
    <2>3. 2 \in Number /\ 60 \in Number /\ 92 \in Number /\ 1 \in Positive /\ 4 \in Positive
        BY DEF Number, Positive
    <2>4. Row(row, fn, 8, 4, 60)
        BY <2>2, <2>3, OverlayRow
    <2> HIDE DEF row
    <2>5. Row(WithHigh(row, 92), fn, 8, 4, 60)
        BY <2>3, <2>4, NumbersChange
    <2>6. Row(WithOpen(WithHigh(row, 92), 2), fn, 8, 4, 60)
        BY <2>3, <2>5, NumbersChange
    <2>7. Row(WithStake(WithOpen(WithHigh(row, 92), 2), 4), fn, 4, 4, 60)
        BY <2>3, <2>6, StakeChanges
    <2>8. Row(WithKelly(WithStake(WithOpen(WithHigh(row, 92), 2), 4), 1), fn, 4, 4, 60)
        BY <2>3, <2>7, NumbersChange
    <2> QED BY <2>1, <2>8 DEF fn, Row, Listed, Cutting, Cuts
<1>17. DOMAIN Entry!Overlays =
          {"rich_fav", "crypto_fav", "desk_book", "wait7_book", "persist_book", "tight_book",
           "late_sit_book", "richer_wait", "no_eth_book", "settle_ride", "longshot_no", "dir_zone",
           "same_side_book", "spot_desk", "poly_confirm", "poly_book"}
    BY DEF Entry!Overlays
<1> QED
    BY <1>1, <1>2, <1>3, <1>4, <1>5, <1>6, <1>7, <1>8, <1>9, <1>10, <1>11, <1>12, <1>13, <1>14, <1>15, <1>16, <1>17

LEMMA ModelsListed ==
    \A s \in DOMAIN Entry!Models : Listed(Entry!Models[s])
<1>1. Listed(Entry!Models.model_fav)
    <2> DEFINE fn == "model_fav"
               row == Entry!P(fn, 120, 360, 80, 94, 3)
    <2>1. Entry!Models.model_fav = WithVolume(WithCount(WithStake(WithOpen(row, 6), 4), 4), 40)
        BY DEF Entry!Models, WithOpen, WithStake, WithCount, WithVolume
    <2>2. fn \in Functions
        BY DEF Functions
    <2> HIDE DEF fn
    <2>3. 6 \in Number /\ 40 \in Number /\ 4 \in Positive
        BY DEF Number, Positive
    <2>4. Row(row, fn, 8, 5, 80)
        BY <2>2 DEF Entry!P, Params, Row
    <2> HIDE DEF row
    <2>5. Row(WithOpen(row, 6), fn, 8, 5, 80)
        BY <2>3, <2>4, NumbersChange
    <2>6. Row(WithStake(WithOpen(row, 6), 4), fn, 4, 5, 80)
        BY <2>3, <2>5, StakeChanges
    <2>7. Row(WithCount(WithStake(WithOpen(row, 6), 4), 4), fn, 4, 4, 80)
        BY <2>3, <2>6, CountChanges
    <2>8. Row(WithVolume(WithCount(WithStake(WithOpen(row, 6), 4), 4), 40), fn, 4, 4, 80)
        BY <2>3, <2>7, NumbersChange
    <2> QED BY <2>1, <2>8 DEF fn, Row, Listed, Cutting, Cuts
<1>2. Listed(Entry!Models.favorite_confirmed)
    <2> DEFINE fn == "favorite_confirmed"
               row == Entry!P(fn, 180, 720, 68, 94, 0)
    <2>1. Entry!Models.favorite_confirmed = row
        BY DEF Entry!Models
    <2>2. fn \in Functions
        BY DEF Functions
    <2> HIDE DEF fn
    <2>3. Row(row, fn, 8, 5, 68)
        BY <2>2 DEF Entry!P, Params, Row
    <2> QED BY <2>1, <2>3 DEF fn, Row, Listed, Cutting, Cuts
<1>3. Listed(Entry!Models.late_lock)
    <2> DEFINE fn == "late_lock"
               row == Entry!P(fn, 90, 360, 50, 96, 3)
    <2>1. Entry!Models.late_lock = WithSpread(row, 8)
        BY DEF Entry!Models, WithSpread
    <2>2. fn \in Functions
        BY DEF Functions
    <2> HIDE DEF fn
    <2>3. 8 \in Number
        BY DEF Number, Positive
    <2>4. Row(row, fn, 8, 5, 50)
        BY <2>2 DEF Entry!P, Params, Row
    <2> HIDE DEF row
    <2>5. Row(WithSpread(row, 8), fn, 8, 5, 50)
        BY <2>3, <2>4, NumbersChange
    <2> QED BY <2>1, <2>5 DEF fn, Row, Listed, Cutting, Cuts
<1>4. Listed(Entry!Models.open_fade)
    <2> DEFINE fn == "open_fade"
               row == Entry!P(fn, 120, 660, 20, 85, 0)
    <2>1. Entry!Models.open_fade = row
        BY DEF Entry!Models
    <2>2. fn \in Functions
        BY DEF Functions
    <2> HIDE DEF fn
    <2>3. Row(row, fn, 8, 5, 20)
        BY <2>2 DEF Entry!P, Params, Row
    <2> QED BY <2>1, <2>3 DEF fn, Row, Listed, Cutting, Cuts
<1>5. Listed(Entry!Models.open_follow)
    <2> DEFINE fn == "open_follow"
               row == Entry!P(fn, 120, 660, 20, 85, 0)
    <2>1. Entry!Models.open_follow = row
        BY DEF Entry!Models
    <2>2. fn \in Functions
        BY DEF Functions
    <2> HIDE DEF fn
    <2>3. Row(row, fn, 8, 5, 20)
        BY <2>2 DEF Entry!P, Params, Row
    <2> QED BY <2>1, <2>3 DEF fn, Row, Listed, Cutting, Cuts
<1>6. Listed(Entry!Models.session_favorite)
    <2> DEFINE fn == "session_favorite"
               row == Entry!P(fn, 180, 720, 68, 94, 0)
    <2>1. Entry!Models.session_favorite = row
        BY DEF Entry!Models
    <2>2. fn \in Functions
        BY DEF Functions
    <2> HIDE DEF fn
    <2>3. Row(row, fn, 8, 5, 68)
        BY <2>2 DEF Entry!P, Params, Row
    <2> QED BY <2>1, <2>3 DEF fn, Row, Listed, Cutting, Cuts
<1>7. Listed(Entry!Models.iv_rich_favorite)
    <2> DEFINE fn == "iv_rich_favorite"
               row == Entry!P(fn, 180, 600, 60, 94, 0)
    <2>1. Entry!Models.iv_rich_favorite = row
        BY DEF Entry!Models
    <2>2. fn \in Functions
        BY DEF Functions
    <2> HIDE DEF fn
    <2>3. Row(row, fn, 8, 5, 60)
        BY <2>2 DEF Entry!P, Params, Row
    <2> QED BY <2>1, <2>3 DEF fn, Row, Listed, Cutting, Cuts
<1>8. Listed(Entry!Models.sprint)
    <2> DEFINE fn == "one_pct"
               row == Entry!P(fn, 8, 90, 88, 97, 0)
    <2>1. Entry!Models.sprint = WithKelly(WithVolume(WithCount(WithStake(WithOpen(row, 7), 15), 4), 20), 1)
        BY DEF Entry!Models, Entry!Risky, WithOpen, WithStake, WithCount, WithVolume, WithKelly
    <2>2. fn \in Functions
        BY DEF Functions
    <2> HIDE DEF fn
    <2>3. 7 \in Number /\ 20 \in Number /\ 1 \in Positive /\ 4 \in Positive /\ 15 \in Positive
        BY DEF Number, Positive
    <2>4. Row(row, fn, 8, 5, 88)
        BY <2>2 DEF Entry!P, Params, Row
    <2> HIDE DEF row
    <2>5. Row(WithOpen(row, 7), fn, 8, 5, 88)
        BY <2>3, <2>4, NumbersChange
    <2>6. Row(WithStake(WithOpen(row, 7), 15), fn, 15, 5, 88)
        BY <2>3, <2>5, StakeChanges
    <2>7. Row(WithCount(WithStake(WithOpen(row, 7), 15), 4), fn, 15, 4, 88)
        BY <2>3, <2>6, CountChanges
    <2>8. Row(WithVolume(WithCount(WithStake(WithOpen(row, 7), 15), 4), 20), fn, 15, 4, 88)
        BY <2>3, <2>7, NumbersChange
    <2>9. Row(WithKelly(WithVolume(WithCount(WithStake(WithOpen(row, 7), 15), 4), 20), 1), fn, 15, 4, 88)
        BY <2>3, <2>8, NumbersChange
    <2> QED BY <2>1, <2>9 DEF fn, Row, Listed, Cutting, Cuts
<1>9. Listed(Entry!Models.yolo_lock)
    <2> DEFINE fn == "favorite_blind"
               row == Entry!P(fn, 180, 660, 88, 94, 0)
    <2>1. Entry!Models.yolo_lock = WithKelly(WithVolume(WithCount(WithStake(WithOpen(row, 7), 18), 4), 20), 4)
        BY DEF Entry!Models, Entry!Risky, WithOpen, WithStake, WithCount, WithVolume, WithKelly
    <2>2. fn \in Functions
        BY DEF Functions
    <2> HIDE DEF fn
    <2>3. 7 \in Number /\ 20 \in Number /\ 4 \in Positive /\ 18 \in Positive
        BY DEF Number, Positive
    <2>4. Row(row, fn, 8, 5, 88)
        BY <2>2 DEF Entry!P, Params, Row
    <2> HIDE DEF row
    <2>5. Row(WithOpen(row, 7), fn, 8, 5, 88)
        BY <2>3, <2>4, NumbersChange
    <2>6. Row(WithStake(WithOpen(row, 7), 18), fn, 18, 5, 88)
        BY <2>3, <2>5, StakeChanges
    <2>7. Row(WithCount(WithStake(WithOpen(row, 7), 18), 4), fn, 18, 4, 88)
        BY <2>3, <2>6, CountChanges
    <2>8. Row(WithVolume(WithCount(WithStake(WithOpen(row, 7), 18), 4), 20), fn, 18, 4, 88)
        BY <2>3, <2>7, NumbersChange
    <2>9. Row(WithKelly(WithVolume(WithCount(WithStake(WithOpen(row, 7), 18), 4), 20), 4), fn, 18, 4, 88)
        BY <2>3, <2>8, NumbersChange
    <2> QED BY <2>1, <2>9 DEF fn, Row, Listed, Cutting, Cuts
<1>10. Listed(Entry!Models.nuke_lock)
    <2> DEFINE fn == "favorite_blind"
               row == Entry!P(fn, 180, 660, 88, 94, 0)
    <2>1. Entry!Models.nuke_lock = WithKelly(WithVolume(WithCount(WithStake(WithOpen(row, 7), 35), 4), 20), 12)
        BY DEF Entry!Models, Entry!Risky, WithOpen, WithStake, WithCount, WithVolume, WithKelly
    <2>2. fn \in Functions
        BY DEF Functions
    <2> HIDE DEF fn
    <2>3. 7 \in Number /\ 20 \in Number /\ 4 \in Positive /\ 12 \in Positive /\ 35 \in Positive
        BY DEF Number, Positive
    <2>4. Row(row, fn, 8, 5, 88)
        BY <2>2 DEF Entry!P, Params, Row
    <2> HIDE DEF row
    <2>5. Row(WithOpen(row, 7), fn, 8, 5, 88)
        BY <2>3, <2>4, NumbersChange
    <2>6. Row(WithStake(WithOpen(row, 7), 35), fn, 35, 5, 88)
        BY <2>3, <2>5, StakeChanges
    <2>7. Row(WithCount(WithStake(WithOpen(row, 7), 35), 4), fn, 35, 4, 88)
        BY <2>3, <2>6, CountChanges
    <2>8. Row(WithVolume(WithCount(WithStake(WithOpen(row, 7), 35), 4), 20), fn, 35, 4, 88)
        BY <2>3, <2>7, NumbersChange
    <2>9. Row(WithKelly(WithVolume(WithCount(WithStake(WithOpen(row, 7), 35), 4), 20), 12), fn, 35, 4, 88)
        BY <2>3, <2>8, NumbersChange
    <2> QED BY <2>1, <2>9 DEF fn, Row, Listed, Cutting, Cuts
<1>11. Listed(Entry!Models.longshot)
    <2> DEFINE fn == "longshot"
               row == Entry!P(fn, 120, 720, 8, 22, 0)
    <2>1. Entry!Models.longshot = WithSpread(WithKelly(WithVolume(WithCount(WithStake(WithOpen(row, 7), 10), 4), 20), 1), 8)
        BY DEF Entry!Models, Entry!Risky, WithOpen, WithStake, WithCount, WithVolume, WithKelly, WithSpread
    <2>2. fn \in Functions
        BY DEF Functions
    <2> HIDE DEF fn
    <2>3. 7 \in Number /\ 8 \in Number /\ 20 \in Number /\ 1 \in Positive /\ 4 \in Positive /\ 10 \in Positive
        BY DEF Number, Positive
    <2>4. Row(row, fn, 8, 5, 8)
        BY <2>2 DEF Entry!P, Params, Row
    <2> HIDE DEF row
    <2>5. Row(WithOpen(row, 7), fn, 8, 5, 8)
        BY <2>3, <2>4, NumbersChange
    <2>6. Row(WithStake(WithOpen(row, 7), 10), fn, 10, 5, 8)
        BY <2>3, <2>5, StakeChanges
    <2>7. Row(WithCount(WithStake(WithOpen(row, 7), 10), 4), fn, 10, 4, 8)
        BY <2>3, <2>6, CountChanges
    <2>8. Row(WithVolume(WithCount(WithStake(WithOpen(row, 7), 10), 4), 20), fn, 10, 4, 8)
        BY <2>3, <2>7, NumbersChange
    <2>9. Row(WithKelly(WithVolume(WithCount(WithStake(WithOpen(row, 7), 10), 4), 20), 1), fn, 10, 4, 8)
        BY <2>3, <2>8, NumbersChange
    <2>10. Row(WithSpread(WithKelly(WithVolume(WithCount(WithStake(WithOpen(row, 7), 10), 4), 20), 1), 8), fn, 10, 4, 8)
        BY <2>3, <2>9, NumbersChange
    <2> QED BY <2>1, <2>10 DEF fn, Row, Listed, Cutting, Cuts
<1>12. Listed(Entry!Models.yolo_follow)
    <2> DEFINE fn == "open_follow"
               row == Entry!P(fn, 120, 660, 20, 85, 0)
    <2>1. Entry!Models.yolo_follow = WithSpread(WithKelly(WithVolume(WithCount(WithStake(WithOpen(row, 7), 15), 4), 20), 1), 8)
        BY DEF Entry!Models, Entry!Risky, WithOpen, WithStake, WithCount, WithVolume, WithKelly, WithSpread
    <2>2. fn \in Functions
        BY DEF Functions
    <2> HIDE DEF fn
    <2>3. 7 \in Number /\ 8 \in Number /\ 20 \in Number /\ 1 \in Positive /\ 4 \in Positive /\ 15 \in Positive
        BY DEF Number, Positive
    <2>4. Row(row, fn, 8, 5, 20)
        BY <2>2 DEF Entry!P, Params, Row
    <2> HIDE DEF row
    <2>5. Row(WithOpen(row, 7), fn, 8, 5, 20)
        BY <2>3, <2>4, NumbersChange
    <2>6. Row(WithStake(WithOpen(row, 7), 15), fn, 15, 5, 20)
        BY <2>3, <2>5, StakeChanges
    <2>7. Row(WithCount(WithStake(WithOpen(row, 7), 15), 4), fn, 15, 4, 20)
        BY <2>3, <2>6, CountChanges
    <2>8. Row(WithVolume(WithCount(WithStake(WithOpen(row, 7), 15), 4), 20), fn, 15, 4, 20)
        BY <2>3, <2>7, NumbersChange
    <2>9. Row(WithKelly(WithVolume(WithCount(WithStake(WithOpen(row, 7), 15), 4), 20), 1), fn, 15, 4, 20)
        BY <2>3, <2>8, NumbersChange
    <2>10. Row(WithSpread(WithKelly(WithVolume(WithCount(WithStake(WithOpen(row, 7), 15), 4), 20), 1), 8), fn, 15, 4, 20)
        BY <2>3, <2>9, NumbersChange
    <2> QED BY <2>1, <2>10 DEF fn, Row, Listed, Cutting, Cuts
<1>13. Listed(Entry!Models.yolo_book)
    <2> DEFINE fn == "yolo_book"
               row == Entry!P(fn, 8, 780, 5, 97, 0)
    <2>1. Entry!Models.yolo_book = WithSpread(WithKelly(WithVolume(WithCount(WithStake(WithOpen(row, 7), 15), 4), 20), 4), 8)
        BY DEF Entry!Models, Entry!Risky, WithOpen, WithStake, WithCount, WithVolume, WithKelly, WithSpread
    <2>2. fn \in Functions
        BY DEF Functions
    <2> HIDE DEF fn
    <2>3. 7 \in Number /\ 8 \in Number /\ 20 \in Number /\ 4 \in Positive /\ 15 \in Positive
        BY DEF Number, Positive
    <2>4. Row(row, fn, 8, 5, 5)
        BY <2>2 DEF Entry!P, Params, Row
    <2> HIDE DEF row
    <2>5. Row(WithOpen(row, 7), fn, 8, 5, 5)
        BY <2>3, <2>4, NumbersChange
    <2>6. Row(WithStake(WithOpen(row, 7), 15), fn, 15, 5, 5)
        BY <2>3, <2>5, StakeChanges
    <2>7. Row(WithCount(WithStake(WithOpen(row, 7), 15), 4), fn, 15, 4, 5)
        BY <2>3, <2>6, CountChanges
    <2>8. Row(WithVolume(WithCount(WithStake(WithOpen(row, 7), 15), 4), 20), fn, 15, 4, 5)
        BY <2>3, <2>7, NumbersChange
    <2>9. Row(WithKelly(WithVolume(WithCount(WithStake(WithOpen(row, 7), 15), 4), 20), 4), fn, 15, 4, 5)
        BY <2>3, <2>8, NumbersChange
    <2>10. Row(WithSpread(WithKelly(WithVolume(WithCount(WithStake(WithOpen(row, 7), 15), 4), 20), 4), 8), fn, 15, 4, 5)
        BY <2>3, <2>9, NumbersChange
    <2> QED BY <2>1, <2>10 DEF fn, Row, Listed, Cutting, Cuts
<1>14. DOMAIN Entry!Models =
          {"model_fav", "favorite_confirmed", "late_lock", "open_fade", "open_follow", "session_favorite",
           "iv_rich_favorite", "sprint", "yolo_lock", "nuke_lock", "longshot", "yolo_follow",
           "yolo_book"}
    BY DEF Entry!Models
<1> QED
    BY <1>1, <1>2, <1>3, <1>4, <1>5, <1>6, <1>7, <1>8, <1>9, <1>10, <1>11, <1>12, <1>13, <1>14

LEMMA RegistryListed ==
    \A s \in DOMAIN Entry!Registry : Listed(Entry!Registry[s])
<1> SUFFICES ASSUME NEW s \in DOMAIN Entry!Registry PROVE Listed(Entry!Registry[s])
    OBVIOUS
<1> DEFINE a == DOMAIN Entry!Priors
           b == DOMAIN Entry!Overlays
           c == DOMAIN Entry!Models
<1>1. s \in a \cup b \cup c
    BY DEF Entry!Registry
<1>2. Entry!Registry[s] = CASE s \in a -> Entry!Priors[s] [] s \in b -> Entry!Overlays[s] [] s \in c -> Entry!Models[s]
    BY <1>1 DEF Entry!Registry
<1> HIDE DEF a, b, c
<1>3. \/ s \in a /\ Entry!Registry[s] = Entry!Priors[s]
      \/ s \in b /\ Entry!Registry[s] = Entry!Overlays[s]
      \/ s \in c /\ Entry!Registry[s] = Entry!Models[s]
    BY <1>1, <1>2
<1> QED
    BY <1>3, PriorsListed, OverlaysListed, ModelsListed DEF a, b, c

\* The overrides of the desk's books.
LEMMA OverridesAre ==
    /\ Entry!Plain \in Overrides
    /\ [Entry!Plain EXCEPT !.wait = 420] \in Overrides /\ [Entry!Plain EXCEPT !.move = 8] \in Overrides
    /\ [Entry!Plain EXCEPT !.spread = 3] \in Overrides /\ [Entry!Plain EXCEPT !.first = 120] \in Overrides
    /\ [Entry!Plain EXCEPT !.low = 68] \in Overrides /\ [Entry!Plain EXCEPT !.noEth = TRUE] \in Overrides
    /\ [Entry!Plain EXCEPT !.wait = 420, !.low = 25, !.high = 58] \in Overrides
<1>1. Entry!Plain \in Overrides
    BY DEF Entry!Plain, Overrides, Entry!Absent
<1>2. [Entry!Plain EXCEPT !.wait = 420] \in Overrides /\ [Entry!Plain EXCEPT !.move = 8] \in Overrides
    BY <1>1 DEF Overrides
<1>3. [Entry!Plain EXCEPT !.spread = 3] \in Overrides /\ [Entry!Plain EXCEPT !.first = 120] \in Overrides
    BY <1>1 DEF Overrides
<1>4. [Entry!Plain EXCEPT !.low = 68] \in Overrides
    BY <1>1 DEF Overrides
<1>6. [Entry!Plain EXCEPT !.noEth = TRUE] \in Overrides
    BY <1>1 DEF Overrides
<1>5. [Entry!Plain EXCEPT !.wait = 420, !.low = 25, !.high = 58] \in Overrides
    <2> DEFINE late == [Entry!Plain EXCEPT !.wait = 420]
               cheap == [late EXCEPT !.low = 25]
               zone == [cheap EXCEPT !.high = 58]
    <2>1. [Entry!Plain EXCEPT !.wait = 420, !.low = 25, !.high = 58] = zone
        OBVIOUS
    <2>2. late \in Overrides
        BY <1>2
    <2> HIDE DEF late
    <2>3. cheap \in Overrides
        BY <2>2 DEF Overrides
    <2> HIDE DEF cheap
    <2>4. zone \in Overrides
        BY <2>3 DEF Overrides
    <2> HIDE DEF zone
    <2> QED BY <2>1, <2>4
<1> QED
    BY <1>1, <1>2, <1>3, <1>4, <1>5, <1>6

\* Every strategy but strategy.decide orders within its stake.
LEMMA DecideWithin ==
    ASSUME Entry!TypeOK, NEW s \in DOMAIN Entry!Registry, Entry!Registry[s].fn # "oracle"
    PROVE  Within(Entry!Decide(s), Entry!Registry[s])
<1> DEFINE p == Entry!Registry[s]
           order == Entry!Decide(s)
<1>1. p \in Params /\ p.fn \in Functions /\ (p.fn \in Cutting => Cuts(p))
    <2>1. Listed(p)
        BY RegistryListed
    <2> HIDE DEF p
    <2> QED BY <2>1 DEF Listed, Params
<1>2. Slate(Entry!Yes(50)) /\ Slate(Entry!No(50))
    <2> DEFINE even == 50
    <2>1. even \in Int
        OBVIOUS
    <2> HIDE DEF even
    <2>2. Slate(Entry!Yes(even)) /\ Slate(Entry!No(even))
        BY <2>1, Offers
    <2> QED BY <2>2 DEF even

<1>3. CASE p.fn = "always_yes"
    <2>1. order = Entry!Control(p, Entry!Yes(50), 1 .. 98, 600)
        BY <1>3 DEF Entry!Decide, Entry!Chosen
    <2> HIDE DEF p, order
    <2>2. Within(Entry!Control(p, Entry!Yes(50), 1 .. 98, 600), p)
        BY <1>1, <1>2, ControlWithin
    <2>3. Within(order, p)
        BY <2>1, <2>2
    <2> QED BY <2>3 DEF p, order
<1>4. CASE p.fn = "always_no"
    <2>1. order = Entry!Control(p, Entry!No(50), 1 .. 98, 600)
        BY <1>4 DEF Entry!Decide, Entry!Chosen
    <2> HIDE DEF p, order
    <2>2. Within(Entry!Control(p, Entry!No(50), 1 .. 98, 600), p)
        BY <1>1, <1>2, ControlWithin
    <2>3. Within(order, p)
        BY <2>1, <2>2
    <2> QED BY <2>3 DEF p, order
<1>5. CASE p.fn = "coin_flip"
    <2>1. order = Entry!Control(p, Entry!Yes(50), 45 .. 55, 540)
        BY <1>5 DEF Entry!Decide, Entry!Chosen
    <2> HIDE DEF p, order
    <2>2. Within(Entry!Control(p, Entry!Yes(50), 45 .. 55, 540), p)
        BY <1>1, <1>2, ControlWithin
    <2>3. Within(order, p)
        BY <2>1, <2>2
    <2> QED BY <2>3 DEF p, order
<1>6. CASE p.fn = "favorite_blind"
    <2>1. order = Entry!FavoriteBlind(p, FALSE)
        BY <1>6 DEF Entry!Decide, Entry!Chosen
    <2> HIDE DEF p, order
    <2>2. Within(Entry!FavoriteBlind(p, FALSE), p)
        BY <1>1, FavoriteWithin
    <2>3. Within(order, p)
        BY <2>1, <2>2
    <2> QED BY <2>3 DEF p, order
<1>7. CASE p.fn = "crypto_fav"
    <2>1. order = Entry!FavoriteBlind(p, TRUE)
        BY <1>7 DEF Entry!Decide, Entry!Chosen
    <2> HIDE DEF p, order
    <2>2. Within(Entry!FavoriteBlind(p, TRUE), p)
        BY <1>1, FavoriteWithin
    <2>3. Within(order, p)
        BY <2>1, <2>2
    <2> QED BY <2>3 DEF p, order
<1>8. CASE p.fn = "one_pct"
    <2>1. order = Entry!OnePct(p, 1)
        BY <1>8 DEF Entry!Decide, Entry!Chosen
    <2> HIDE DEF p, order
    <2>2. Within(Entry!OnePct(p, 1), p)
        BY <1>1, LockWithin
    <2>3. Within(order, p)
        BY <2>1, <2>2
    <2> QED BY <2>3 DEF p, order
<1>9. CASE p.fn = "offhours_lock"
    <2>1. order = Entry!Unless(m.hour \in 12 .. 20, Entry!OnePct(p, 1))
        BY <1>9 DEF Entry!Decide, Entry!Chosen
    <2> HIDE DEF p, order
    <2>2. Within(Entry!OnePct(p, 1), p)
        BY <1>1, LockWithin
    <2>3. Within(order, p)
        BY <2>1, <2>2, UnlessWithin
    <2> QED BY <2>3 DEF p, order
<1>10. CASE p.fn = "desk_book"
    <2>1. order = Entry!DeskBook(p, Entry!Plain)
        BY <1>10 DEF Entry!Decide, Entry!Chosen
    <2>2. Cuts(p)
        BY <1>1, <1>10 DEF Cutting
    <2> HIDE DEF p, order
    <2>3. Within(Entry!DeskBook(p, Entry!Plain), p)
        BY <1>1, <2>2, OverridesAre, DeskWithin
    <2>4. Within(order, p)
        BY <2>1, <2>3
    <2> QED BY <2>4 DEF p, order
<1>11. CASE p.fn = "wait7_book"
    <2>1. order = Entry!DeskBook(p, [Entry!Plain EXCEPT !.wait = 420])
        BY <1>11 DEF Entry!Decide, Entry!Chosen
    <2>2. Cuts(p)
        BY <1>1, <1>11 DEF Cutting
    <2> HIDE DEF p, order
    <2>3. Within(Entry!DeskBook(p, [Entry!Plain EXCEPT !.wait = 420]), p)
        BY <1>1, <2>2, OverridesAre, DeskWithin
    <2>4. Within(order, p)
        BY <2>1, <2>3
    <2> QED BY <2>4 DEF p, order
<1>12. CASE p.fn = "persist_book"
    <2>1. order = Entry!DeskBook(p, [Entry!Plain EXCEPT !.move = 8])
        BY <1>12 DEF Entry!Decide, Entry!Chosen
    <2>2. Cuts(p)
        BY <1>1, <1>12 DEF Cutting
    <2> HIDE DEF p, order
    <2>3. Within(Entry!DeskBook(p, [Entry!Plain EXCEPT !.move = 8]), p)
        BY <1>1, <2>2, OverridesAre, DeskWithin
    <2>4. Within(order, p)
        BY <2>1, <2>3
    <2> QED BY <2>4 DEF p, order
<1>13. CASE p.fn = "tight_book"
    <2>1. order = Entry!DeskBook(p, [Entry!Plain EXCEPT !.spread = 3])
        BY <1>13 DEF Entry!Decide, Entry!Chosen
    <2>2. Cuts(p)
        BY <1>1, <1>13 DEF Cutting
    <2> HIDE DEF p, order
    <2>3. Within(Entry!DeskBook(p, [Entry!Plain EXCEPT !.spread = 3]), p)
        BY <1>1, <2>2, OverridesAre, DeskWithin
    <2>4. Within(order, p)
        BY <2>1, <2>3
    <2> QED BY <2>4 DEF p, order
<1>14. CASE p.fn = "late_sit_book"
    <2>1. order = Entry!DeskBook(p, [Entry!Plain EXCEPT !.first = 120])
        BY <1>14 DEF Entry!Decide, Entry!Chosen
    <2>2. Cuts(p)
        BY <1>1, <1>14 DEF Cutting
    <2> HIDE DEF p, order
    <2>3. Within(Entry!DeskBook(p, [Entry!Plain EXCEPT !.first = 120]), p)
        BY <1>1, <2>2, OverridesAre, DeskWithin
    <2>4. Within(order, p)
        BY <2>1, <2>3
    <2> QED BY <2>4 DEF p, order
<1>15. CASE p.fn = "richer_wait"
    <2>1. order = Entry!DeskBook(p, [Entry!Plain EXCEPT !.low = 68])
        BY <1>15 DEF Entry!Decide, Entry!Chosen
    <2>2. Cuts(p)
        BY <1>1, <1>15 DEF Cutting
    <2> HIDE DEF p, order
    <2>3. Within(Entry!DeskBook(p, [Entry!Plain EXCEPT !.low = 68]), p)
        BY <1>1, <2>2, OverridesAre, DeskWithin
    <2>4. Within(order, p)
        BY <2>1, <2>3
    <2> QED BY <2>4 DEF p, order
<1>16. CASE p.fn = "no_eth_book"
    <2>1. order = Entry!DeskBook(p, [Entry!Plain EXCEPT !.noEth = TRUE])
        BY <1>16 DEF Entry!Decide, Entry!Chosen
    <2>2. Cuts(p)
        BY <1>1, <1>16 DEF Cutting
    <2> HIDE DEF p, order
    <2>3. Within(Entry!DeskBook(p, [Entry!Plain EXCEPT !.noEth = TRUE]), p)
        BY <1>1, <2>2, OverridesAre, DeskWithin
    <2>4. Within(order, p)
        BY <2>1, <2>3
    <2> QED BY <2>4 DEF p, order
<1>17. CASE p.fn = "dir_zone"
    <2>1. order = Entry!DeskBook(p, [Entry!Plain EXCEPT !.wait = 420, !.low = 25, !.high = 58])
        BY <1>17 DEF Entry!Decide, Entry!Chosen
    <2>2. Cuts(p)
        BY <1>1, <1>17 DEF Cutting
    <2> HIDE DEF p, order
    <2>3. Within(Entry!DeskBook(p, [Entry!Plain EXCEPT !.wait = 420, !.low = 25, !.high = 58]), p)
        BY <1>1, <2>2, OverridesAre, DeskWithin
    <2>4. Within(order, p)
        BY <2>1, <2>3
    <2> QED BY <2>4 DEF p, order
<1>18. CASE p.fn = "settle_ride"
    <2>1. order = Entry!SettleRide(p)
        BY <1>18 DEF Entry!Decide, Entry!Chosen
    <2>2. Cuts(p)
        BY <1>1, <1>18 DEF Cutting
    <2> HIDE DEF p, order
    <2>3. Within(Entry!SettleRide(p), p)
        BY <1>1, <2>2, BooksWithin
    <2>4. Within(order, p)
        BY <2>1, <2>3
    <2> QED BY <2>4 DEF p, order
<1>19. CASE p.fn = "longshot_no"
    <2>1. order = Entry!LongshotNo(p)
        BY <1>19 DEF Entry!Decide, Entry!Chosen
    <2> HIDE DEF p, order
    <2>2. Within(Entry!LongshotNo(p), p)
        BY <1>1, LongshotWithin
    <2>3. Within(order, p)
        BY <2>1, <2>2
    <2> QED BY <2>3 DEF p, order
<1>20. CASE p.fn = "same_side_book"
    <2>1. order = Entry!SameSideBook(p)
        BY <1>20 DEF Entry!Decide, Entry!Chosen
    <2>2. Cuts(p)
        BY <1>1, <1>20 DEF Cutting
    <2> HIDE DEF p, order
    <2>3. Within(Entry!SameSideBook(p), p)
        BY <1>1, <2>2, BooksWithin
    <2>4. Within(order, p)
        BY <2>1, <2>3
    <2> QED BY <2>4 DEF p, order
<1>21. CASE p.fn = "spot_desk"
    <2>1. order = Entry!SpotDesk(p)
        BY <1>21 DEF Entry!Decide, Entry!Chosen
    <2>2. Cuts(p)
        BY <1>1, <1>21 DEF Cutting
    <2> HIDE DEF p, order
    <2>3. Within(Entry!SpotDesk(p), p)
        BY <1>1, <2>2, BooksWithin
    <2>4. Within(order, p)
        BY <2>1, <2>3
    <2> QED BY <2>4 DEF p, order
<1>22. CASE p.fn = "poly_confirm"
    <2>1. order = Entry!PolyConfirm(p)
        BY <1>22 DEF Entry!Decide, Entry!Chosen
    <2>2. Cuts(p)
        BY <1>1, <1>22 DEF Cutting
    <2> HIDE DEF p, order
    <2>3. Within(Entry!PolyConfirm(p), p)
        BY <1>1, <2>2, BooksWithin
    <2>4. Within(order, p)
        BY <2>1, <2>3
    <2> QED BY <2>4 DEF p, order
<1>23. CASE p.fn = "poly_book"
    <2>1. order = Entry!PolyBook(p)
        BY <1>23 DEF Entry!Decide, Entry!Chosen
    <2>2. Cuts(p)
        BY <1>1, <1>23 DEF Cutting
    <2> HIDE DEF p, order
    <2>3. Within(Entry!PolyBook(p), p)
        BY <1>1, <2>2, BooksWithin
    <2>4. Within(order, p)
        BY <2>1, <2>3
    <2> QED BY <2>4 DEF p, order
<1>24. CASE p.fn = "model_fav"
    <2>1. order = Entry!ModelAgrees(p, 88, p.theta)
        BY <1>24 DEF Entry!Decide, Entry!Chosen
    <2> HIDE DEF p, order
    <2>2. Within(Entry!ModelAgrees(p, 88, p.theta), p)
        BY <1>1, ModelWithin
    <2>3. Within(order, p)
        BY <2>1, <2>2
    <2> QED BY <2>3 DEF p, order
<1>25. CASE p.fn = "late_lock"
    <2>1. order = Entry!ModelAgrees([p EXCEPT !.low = 0], 88, p.theta)
        BY <1>25 DEF Entry!Decide, Entry!Chosen
    <2> HIDE DEF p, order
    <2> DEFINE cheap == [p EXCEPT !.low = 0]
    <2>2. Like(cheap, p)
        BY <1>1 DEF Like, Params
    <2> HIDE DEF cheap
    <2>3. Within(Entry!ModelAgrees(cheap, 88, p.theta), cheap)
        BY <2>2, ModelWithin DEF Like
    <2>4. order = Entry!ModelAgrees(cheap, 88, p.theta)
        BY <2>1 DEF cheap
    <2>5. Within(order, p)
        BY <2>2, <2>3, <2>4 DEF Like, Within
    <2> QED BY <2>5 DEF p, order
<1>26. CASE p.fn = "favorite_confirmed"
    <2>1. order = Entry!ModelAgrees(p, 62, 0)
        BY <1>26 DEF Entry!Decide, Entry!Chosen
    <2> HIDE DEF p, order
    <2>2. Within(Entry!ModelAgrees(p, 62, 0), p)
        BY <1>1, ModelWithin
    <2>3. Within(order, p)
        BY <2>1, <2>2
    <2> QED BY <2>3 DEF p, order
<1>27. CASE p.fn = "session_favorite"
    <2>1. order = Entry!Unless(m.hour \notin 12 .. 16, Entry!ModelAgrees(p, 62, 0))
        BY <1>27 DEF Entry!Decide, Entry!Chosen
    <2> HIDE DEF p, order
    <2>2. Within(Entry!ModelAgrees(p, 62, 0), p)
        BY <1>1, ModelWithin
    <2>3. Within(order, p)
        BY <2>1, <2>2, UnlessWithin
    <2> QED BY <2>3 DEF p, order
<1>28. CASE p.fn = "iv_rich_favorite"
    <2>1. order = Entry!Unless(~m.ivRich, Entry!ModelAgrees(p, 62, 0))
        BY <1>28 DEF Entry!Decide, Entry!Chosen
    <2> HIDE DEF p, order
    <2>2. Within(Entry!ModelAgrees(p, 62, 0), p)
        BY <1>1, ModelWithin
    <2>3. Within(order, p)
        BY <2>1, <2>2, UnlessWithin
    <2> QED BY <2>3 DEF p, order
<1>29. CASE p.fn = "open_fade"
    <2>1. order = Entry!OpenImpulse(p, FALSE)
        BY <1>29 DEF Entry!Decide, Entry!Chosen
    <2> HIDE DEF p, order
    <2>2. Within(Entry!OpenImpulse(p, FALSE), p)
        BY <1>1, ImpulseWithin
    <2>3. Within(order, p)
        BY <2>1, <2>2
    <2> QED BY <2>3 DEF p, order
<1>30. CASE p.fn = "open_follow"
    <2>1. order = Entry!OpenImpulse(p, TRUE)
        BY <1>30 DEF Entry!Decide, Entry!Chosen
    <2> HIDE DEF p, order
    <2>2. Within(Entry!OpenImpulse(p, TRUE), p)
        BY <1>1, ImpulseWithin
    <2>3. Within(order, p)
        BY <2>1, <2>2
    <2> QED BY <2>3 DEF p, order
<1>31. CASE p.fn = "longshot"
    <2>1. order = Entry!Longshot(p)
        BY <1>31 DEF Entry!Decide, Entry!Chosen
    <2> HIDE DEF p, order
    <2>2. Within(Entry!Longshot(p), p)
        BY <1>1, LongshotWithin
    <2>3. Within(order, p)
        BY <2>1, <2>2
    <2> QED BY <2>3 DEF p, order
<1>32. CASE p.fn = "yolo_book"
    <2>1. order = Entry!YoloBook(p)
        BY <1>32 DEF Entry!Decide, Entry!Chosen
    <2> HIDE DEF p, order
    <2>2. Within(Entry!YoloBook(p), p)
        BY <1>1, YoloWithin
    <2>3. Within(order, p)
        BY <2>1, <2>2
    <2> QED BY <2>3 DEF p, order
<1>33. p.fn \in Functions \ {"oracle"}
    BY <1>1
<1> QED
    BY <1>3, <1>4, <1>5, <1>6, <1>7, <1>8, <1>9, <1>10, <1>11, <1>12, <1>13, <1>14,
       <1>15, <1>16, <1>17, <1>18, <1>19, <1>20, <1>21, <1>22, <1>23, <1>24, <1>25, <1>26,
       <1>27, <1>28, <1>29, <1>30, <1>31, <1>32, <1>33 DEF Functions

LEMMA StakesHold ==
    ASSUME Entry!TypeOK
    PROVE  Entry!StakeCapped
<1> SUFFICES ASSUME NEW s \in DOMAIN Entry!Registry, Entry!Registry[s].fn # "oracle", Entry!Decide(s) # Entry!Sit
             PROVE  LET order == Entry!Decide(s) IN
                    /\ order.count >= Entry!Registry[s].count
                    /\ 100 * (order.count * order.price + Entry!TakerFee(order.count, order.price))
                           <= Entry!Registry[s].stake * m.bankroll
    BY DEF Entry!StakeCapped, Entry!Affordable
<1>1. Within(Entry!Decide(s), Entry!Registry[s])
    BY DecideWithin
<1> QED
    BY <1>1 DEF Within

LEMMA EntriesLive ==
    ASSUME Entry!TypeOK
    PROVE  Entry!EntryIsAlive
<1> DEFINE p == Entry!Registry["desk_book"]
           order == Entry!Decide("desk_book")
<1>1. Row(p, "desk_book", 8, 4, 75)
    <2> DEFINE fn == "desk_book"
    <2>1. p = Entry!Overlays.desk_book
        <3> DEFINE s == "desk_book"
                   a == DOMAIN Entry!Priors
                   b == DOMAIN Entry!Overlays
                   c == DOMAIN Entry!Models
        <3>1. s \notin a
            BY DEF Entry!Priors
        <3>0. s \notin c
            BY DEF Entry!Models
        <3>2. s \in b
            BY DEF Entry!Overlays
        <3>3. s \in a \cup b \cup c
            BY <3>2
        <3> HIDE DEF s
        <3>4. Entry!Registry[s] = CASE s \in a -> Entry!Priors[s] [] s \in b -> Entry!Overlays[s]
                                    [] s \in c -> Entry!Models[s]
            BY <3>3 DEF Entry!Registry
        <3> HIDE DEF a, b, c
        <3>5. Entry!Registry[s] = Entry!Overlays[s]
            BY <3>0, <3>1, <3>2, <3>4
        <3> QED BY <3>5 DEF s
    <2>2. Entry!Overlays.desk_book = Entry!Overlay(fn, 75)
        BY DEF Entry!Overlays
    <2>3. fn \in Functions /\ 75 \in Number
        BY DEF Functions, Number
    <2> HIDE DEF fn, p
    <2>4. Row(Entry!Overlay(fn, 75), fn, 8, 4, 75)
        BY <2>3, OverlayRow
    <2> QED BY <2>1, <2>2, <2>4 DEF fn, p
<1>2. p \in Params /\ p.fn = "desk_book" /\ Cuts(p) /\ p.low >= 60
    BY <1>1 DEF Row, Cuts
<1>3. order = Entry!DeskBook(p, Entry!Plain)
    BY <1>2 DEF Entry!Decide, Entry!Chosen
<1>4. Entry!Plain \in Overrides /\ Entry!Plain.low = Entry!Absent
    BY OverridesAre DEF Entry!Plain
<1> HIDE DEF p, order
<1>5. order # Entry!Sit =>
          /\ order.side \in {"yes", "no"}
          /\ Entry!HeldEntry(order.side) >= 60
          /\ (m.metal \in Entry!CryptoLive /\ Entry!HasPoly) => Entry!PolyFavorite(55) = order.side
    BY <1>2, <1>3, <1>4, DeskWithin
<1>6. ASSUME order # Entry!Sit PROVE ~Entry!CashOut(order.side)
    <2>1. Entry!HeldEntry(order.side) \in Int
        <3>1. m.ask \in Int /\ m.bid \in Int
            BY DEF Entry!TypeOK, Entry!Snapshot
        <3> QED BY <1>5, <1>6, <3>1 DEF Entry!HeldEntry, Entry!Absent
    <2>2. ~(Entry!HeldEntry(order.side) < 60)
        BY <1>5, <1>6, <2>1
    <2> QED BY <1>5, <1>6, <2>2 DEF Entry!CashOut
<1> QED
    BY <1>6 DEF Entry!EntryIsAlive, Entry!Alive, order

\* What an engine on the Kalshi markets orders can be afforded and is worth
\* holding: whatever the window looks like, for any snapshots and requotes, every
\* registered strategy but strategy.decide keeps an order's cost and fee within
\* its share of the bankroll (StakeCapped), and a position desk_book would open
\* now is not one the replayed cash-out rule would sell at once (EntryIsAlive).
THEOREM EntriesAreSound ==
    ASSUME Entry!StrategyAssumption
    PROVE  Entry!Spec => []Entry!EntriesSound
<1>1. Entry!Init => Entry!TypeOK
    BY DEF Entry!Init, Entry!TypeOK, Entry!StrategyAssumption
<1>2. Entry!TypeOK /\ [Entry!Next]_m => Entry!TypeOK'
    <2> SUFFICES ASSUME Entry!TypeOK, [Entry!Next]_m PROVE Entry!TypeOK'
        OBVIOUS
    <2>1. CASE Entry!Requote
        <3>1. PICK r \in Requotes : m' = [m EXCEPT !.bid = r[1], !.ask = r[2]]
            BY <2>1 DEF Entry!Requote
        <3>2. r[1] \in Int /\ r[2] \in Int
            BY <3>1 DEF Entry!StrategyAssumption
        <3> DEFINE bid == [m EXCEPT !.bid = r[1]]
                   ask == [bid EXCEPT !.ask = r[2]]
        <3>3. m' = ask
            BY <3>1
        <3>4. bid \in Entry!Snapshot
            BY <3>2 DEF Entry!TypeOK, Entry!Snapshot
        <3> HIDE DEF bid
        <3>5. ask \in Entry!Snapshot
            BY <3>2, <3>4 DEF Entry!Snapshot
        <3> HIDE DEF ask
        <3> QED BY <3>3, <3>5 DEF Entry!TypeOK
    <2>2. CASE Entry!Minute
        <3>1. m' = [m EXCEPT !.tau = m.tau - 60]
            BY <2>2 DEF Entry!Minute
        <3>2. m.tau - 60 \in Int
            BY DEF Entry!TypeOK, Entry!Snapshot
        <3>3. [m EXCEPT !.tau = m.tau - 60] \in Entry!Snapshot
            BY <3>2 DEF Entry!TypeOK, Entry!Snapshot
        <3> QED BY <3>1, <3>3 DEF Entry!TypeOK
    <2>3. CASE UNCHANGED m
        BY <2>3 DEF Entry!TypeOK
    <2> QED BY <2>1, <2>2, <2>3 DEF Entry!Next
<1>3. Entry!TypeOK => Entry!EntriesSound
    BY StakesHold, EntriesLive DEF Entry!EntriesSound
<1> QED
    BY <1>1, <1>2, <1>3, PTL DEF Entry!Spec
=============================================================================
