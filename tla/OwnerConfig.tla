----------------------------- MODULE OwnerConfig -----------------------------
(***************************************************************************)
(* A clone of the firm and what belongs to its owner: scripts/setup.py,    *)
(* scripts/profile.py and scripts/upgrade.py.  The owner runs one command  *)
(* at a time; a command can be cut off after any file it replaces.         *)
(*                                                                         *)
(* A release ships a block of settings for each profile.  A block's params *)
(* are a function whose domain depends on its strategy.  Of its risk       *)
(* values only the bankroll is kept: the others are applied with it, and   *)
(* the label of a migration does not compare them.  A local edit of a      *)
(* system file and the equity kill switch only refuse an upgrade.          *)
(***************************************************************************)
EXTENDS Integers, Sequences, FiniteSets, Functions

CONSTANTS
    MaxRelease,     \* releases the upstream reaches
    Profiles,
    Shipped,        \* release -> profile -> [strategy, params, bankroll]
    Migrating,      \* the releases that have a migration
    Tuned,          \* settings an owner of the first release may have made up
    Bankrolls,      \* what setup.py may be told
    MaxDies         \* bound: commands cut off

Releases == 1 .. MaxRelease
None == "none"
Custom == "custom"
ReleaseAssumption ==
    /\ MaxRelease \in Nat \ {0} /\ Migrating \subseteq Releases \ {1}
    /\ DOMAIN Shipped = Releases /\ \A r \in Releases : DOMAIN Shipped[r] = Profiles
    /\ {None, Custom} \cap Profiles = {}

VARIABLES
    upstream,    \* the newest release
    clone,       \* the release of each group of system files, and the VERSION file
    config,      \* config/equity_live.json
    book,        \* state/equity_state.json, of which none is [exists |-> FALSE, ...]
    command,     \* the command that is running; Idle if none
    dies

ownerVars == <<upstream, clone, config, book, command, dies>>

Idle == [name |-> "idle"]

\* missed (migrations a cut-off or outdated upgrade has jumped) is an observer.
NoBook == [exists |-> FALSE, positions |-> FALSE, basis |-> 0, pending |-> FALSE]

\* A clone of the first release: the previous owner's books, or none, and
\* settings of a profile of that release, not labelled yet, or made up.
Init ==
    /\ upstream = 1
    /\ clone = [script |-> 1, profiles |-> 1, version |-> 1, missed |-> {}]
    /\ \E s \in Tuned \cup Range(Shipped[1]), on \in BOOLEAN :
          config = [enabled |-> on, label |-> None, strategy |-> s.strategy, params |-> s.params,
                    bankroll |-> s.bankroll]
    /\ book \in {NoBook, [NoBook EXCEPT !.exists = TRUE, !.positions = TRUE]}
    /\ command = Idle /\ dies = 0

-----------------------------------------------------------------------------
(* profile.py apply                                                        *)

\* The config with a block laid over the old one.
Merged(c, name, block) ==
    [c EXCEPT !.label = name, !.strategy = block.strategy, !.bankroll = block.bankroll,
              !.params = [k \in DOMAIN block.params \cup DOMAIN @ |->
                             IF k \in DOMAIN block.params THEN block.params[k] ELSE @[k]]]

\* The config with the block in place of the old one, wholesale.
Replaced(c, name, block) ==
    [c EXCEPT !.label = name, !.strategy = block.strategy, !.params = block.params,
              !.bankroll = block.bankroll]

BookIsLive == config.enabled /\ book.positions

\* cmd_apply: on a live book only for an owner who has said so.
Apply ==
    /\ command = Idle
    /\ \E name \in Profiles, understood \in BOOLEAN :
          /\ BookIsLive => understood
          /\ config' = Replaced(config, name, Shipped[clone.profiles][name])
    /\ UNCHANGED <<upstream, clone, book, command, dies>>

-----------------------------------------------------------------------------
(* setup.py                                                                *)

\* main, to where it has asked: inherited books are cleared, kept or refused
\* (a book without positions is refused as well once it has been marked, and
\* is let through here).
SetupBegin ==
    /\ command = Idle
    /\ \E name \in Profiles, bankroll \in Bankrolls \cup {0}, books \in {"clear", "keep", "ask"} :
          /\ books = "ask" => ~book.positions
          /\ command' = [name |-> "setup", profile |-> name, bankroll |-> bankroll,
                         todo |-> IF books = "clear" THEN <<"remove", "disarm", "apply", "bankroll">>
                                  ELSE <<"apply", "bankroll">>]
    /\ UNCHANGED <<upstream, clone, config, book, dies>>

Then(step) == command # Idle /\ command.todo # <<>> /\ Head(command.todo) = step
Done(cmd) == IF Len(cmd.todo) = 1 THEN Idle ELSE [cmd EXCEPT !.todo = Tail(@)]

\* clear_books: the files first, the config after.
RemoveBooks ==
    /\ Then("remove") /\ book' = NoBook /\ command' = Done(command)
    /\ UNCHANGED <<upstream, clone, config, dies>>

Disarm ==
    /\ Then("disarm") /\ config' = [config EXCEPT !.enabled = FALSE] /\ command' = Done(command)
    /\ UNCHANGED <<upstream, clone, book, dies>>

\* The profile, by a call of profile.py apply that acknowledges nothing; with
\* positions this is not a first run.
SetupApply ==
    /\ Then("apply")
    /\ IF book.positions \/ BookIsLive
       THEN command' = Idle /\ UNCHANGED config
       ELSE /\ config' = Replaced(config, command.profile, Shipped[clone.profiles][command.profile])
            /\ command' = Done(command)
    /\ UNCHANGED <<upstream, clone, book, dies>>

\* set_bankroll
SetBankroll ==
    /\ Then("bankroll") /\ command' = Done(command)
    /\ config' = IF command.bankroll = 0 THEN config ELSE [config EXCEPT !.bankroll = command.bankroll]
    /\ UNCHANGED <<upstream, clone, book, dies>>

-----------------------------------------------------------------------------
(* upgrade.py                                                              *)

\* The documented bootstrap: git checkout upstream/main -- scripts/upgrade.py.
Bootstrap ==
    /\ command = Idle /\ clone.script # upstream
    /\ clone' = [clone EXCEPT !.script = upstream]
    /\ UNCHANGED <<upstream, config, book, command, dies>>

\* The migrations of the script that runs, which is the clone's.
Steps(target) == {m \in Migrating : clone.version < m /\ m <= target /\ m <= clone.script}

\* main, to the backup: no upgrade with a pending order.
UpgradeBegin ==
    /\ command = Idle /\ ~book.pending
    /\ \E target \in clone.version + 1 .. upstream :
          command' = [name |-> "upgrade", target |-> target, steps |-> Steps(target), from |-> clone.version,
                      todo |-> <<"script", "version", "profiles", "config", "book", "stamp">>]
    /\ UNCHANGED <<upstream, clone, config, book, dies>>

\* One path after the other comes from the newest release, whatever the
\* target; a checkout that fails is not noticed.
Pull(path) ==
    /\ Then(path)
    /\ clone' \in {clone, [clone EXCEPT ![path] = upstream]}
    /\ command' = Done(command)
    /\ UNCHANGED <<upstream, config, book, dies>>

\* The first of the shipped profiles that fits; any of them here.
Matching(c) ==
    {n \in Profiles : LET b == Shipped[clone.profiles][n] IN b.strategy = c.strategy /\ b.params = c.params}

\* The migration of the config: a label for what is there, which stays.
MigrateConfig ==
    /\ Then("config") /\ command' = Done(command)
    /\ IF command.steps # {} /\ config.label = None
       THEN \E label \in IF Matching(config) = {} THEN {Custom} ELSE Matching(config) :
                config' = [config EXCEPT !.label = label]
       ELSE UNCHANGED config
    /\ UNCHANGED <<upstream, clone, book, dies>>

\* And of the books: what the profit is measured against.
MigrateBook ==
    /\ Then("book") /\ command' = Done(command)
    /\ book' = IF command.steps # {} /\ book.exists /\ book.basis = 0
               THEN [book EXCEPT !.basis = config.bankroll] ELSE book
    /\ UNCHANGED <<upstream, clone, config, dies>>

\* What of the migrations between two releases a run has not come to.
Jumped(from, to, steps) == {m \in Migrating : from < m /\ m <= to} \ steps

Stamp ==
    /\ Then("stamp") /\ command' = Done(command)
    /\ clone' = [clone EXCEPT !.version = command.target,
                              !.missed = @ \cup Jumped(command.from, command.target, command.steps)]
    /\ UNCHANGED <<upstream, config, book, dies>>

-----------------------------------------------------------------------------
\* A command is cut off.  An upgrade that had pulled VERSION will not be taken
\* up again: the next one finds nothing to do.
Cut ==
    /\ command # Idle /\ dies < MaxDies
    /\ dies' = dies + 1 /\ command' = Idle
    /\ clone' = IF command.name = "upgrade"
                THEN [clone EXCEPT !.missed = @ \cup 
                                       Jumped(command.from, clone.version,
                                              IF Then("stamp") THEN command.steps ELSE {})]
                ELSE clone
    /\ UNCHANGED <<upstream, config, book>>

Publish ==
    /\ upstream < MaxRelease /\ upstream' = upstream + 1
    /\ UNCHANGED <<clone, config, book, command, dies>>

\* The desk, between commands: the books are seeded, trades are sent and recorded.
Desk ==
    /\ command = Idle
    /\ \/ ~book.exists /\ book' = [NoBook EXCEPT !.exists = TRUE]
       \/ config.enabled /\ book.exists /\ ~book.pending /\ book' = [book EXCEPT !.pending = TRUE]
       \/ book.pending /\ \E p \in BOOLEAN : book' = [book EXCEPT !.pending = FALSE, !.positions = p]
    /\ UNCHANGED <<upstream, clone, config, command, dies>>

\* Flip "enabled" in the config.
Enable ==
    /\ command = Idle /\ config' = [config EXCEPT !.enabled = ~@]
    /\ UNCHANGED <<upstream, clone, book, command, dies>>

Next ==
    \/ Apply \/ SetupBegin \/ RemoveBooks \/ Disarm \/ SetupApply \/ SetBankroll
    \/ Bootstrap \/ UpgradeBegin \/ MigrateConfig \/ MigrateBook \/ Stamp
    \/ \E path \in {"script", "version", "profiles"} : Pull(path)
    \/ Cut \/ Publish \/ Desk \/ Enable

Spec == Init /\ [][Next]_ownerVars

-----------------------------------------------------------------------------
\* Settings that carry a profile's name are the ones that some release measured
\* under it, whatever was applied before and however a command was cut off.
LabelIsMeasured ==
    config.label \in Profiles =>
        \E r \in Releases : LET b == Shipped[r][config.label] IN
            b.strategy = config.strategy /\ b.params = config.params

\* VERSION does not say that a migration was done that was not, but for those
\* that an outdated script does not know, or that a cut-off upgrade jumps.
VersionMigrated ==
    command = Idle /\ (\E m \in Migrating : m <= clone.version) /\ clone.missed = {} =>
        config.label # None

\* The owner's config through every order of setups, applies, upgrades and
\* releases, each of which may be cut off after any file.
OwnerKept == LabelIsMeasured /\ VersionMigrated

-----------------------------------------------------------------------------
\* What makes these hold, as an inductive invariant.
Settings == Tuned \cup UNION {Range(Shipped[r]) : r \in Releases}
Money == {0} \cup Bankrolls \cup {s.bankroll : s \in Settings}
Todo(steps) == Seq(steps) \ {<<>>}

TypeOK ==
    /\ upstream \in Releases
    /\ clone \in [script : Releases, profiles : Releases, version : Releases, missed : SUBSET Releases]
    /\ config \in [enabled : BOOLEAN, label : Profiles \cup {None, Custom},
                   strategy : {s.strategy : s \in Settings}, params : {s.params : s \in Settings},
                   bankroll : Money]
    /\ book \in [exists : BOOLEAN, positions : BOOLEAN, basis : Money, pending : BOOLEAN]
    /\ command \in {Idle}
           \cup [name : {"setup"}, profile : Profiles, bankroll : Money,
                 todo : Todo({"remove", "disarm", "apply", "bankroll"})]
           \cup [name : {"upgrade"}, target : Releases, steps : SUBSET Migrating, from : Releases,
                 todo : Todo({"script", "version", "profiles", "config", "book", "stamp"})]

\* A migration that the release `to` has had is missed or has left a label.
Labelled(to) ==
    (\E m \in Migrating : m <= to) /\ clone.missed = {} => config.label # None

\* While an upgrade runs VERSION may be ahead of what is done: its first release
\* counts until the stamp, which comes last, after the config was migrated.
MigrationInv ==
    IF command.name = "upgrade"
    THEN /\ Labelled(command.from)
         /\ \/ \E i \in 1 .. Len(command.todo) : command.todo[i] = "config"
            \/ command.steps = {} \/ config.label # None
         /\ \A i \in 1 .. Len(command.todo) : command.todo[i] = "stamp" <=> i = Len(command.todo)
    ELSE Labelled(clone.version)

OwnerInv == LabelIsMeasured /\ MigrationInv
==============================================================================
