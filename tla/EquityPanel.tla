---------------------------- MODULE EquityPanel ----------------------------
(***************************************************************************)
(* The daily bars the equity desk ranks: scripts/update_equities.py, which *)
(* appends symbol by symbol from Yahoo, scripts/import_bars.py, which      *)
(* merges a batch of the broker's bars for all symbols or none, and        *)
(* scripts/check_panel_fresh.py.                                           *)
(*                                                                         *)
(* A close is a fraction [num, den].  A vendor quotes the whole tape       *)
(* adjusted for the splits so far; a row of the panel keeps the adjustment *)
(* of the day it was written.  Open, high, low and volume follow the close.*)
(***************************************************************************)
EXTENDS Integers, Sequences, FiniteSets, FiniteSetsExt

CONSTANTS
    Symbols,
    Closes,         \* symbol -> the closes its tape takes
    Ratios,         \* what a share may be split into
    MaxMove,        \* percent a seam may jump
    MinShared,      \* overlapping dates a rescale needs
    Seeded,         \* sessions the panel starts with
    MaxSession      \* bound: sessions

VARIABLES
    tape,      \* symbol -> its closes, one per session; today's moves while it is open
    cuts,      \* symbol -> the shares one share of the first session has become
    trading,   \* today's session is open
    panel,     \* symbol -> date -> close: the files of data/equities
    job        \* an import that is writing its batch; Idle if none is

panelVars == <<tape, cuts, trading, panel, job>>

Today == Len(tape[CHOOSE s \in Symbols : TRUE])
Idle == [writing |-> FALSE, batch |-> <<>>, todo |-> {}, partial |-> FALSE]

Init ==
    /\ tape = [s \in Symbols |-> [d \in 1 .. Seeded |-> Min(Closes[s])]]
    /\ cuts = [s \in Symbols |-> 1] /\ trading = FALSE
    /\ panel = [s \in Symbols |-> [d \in 1 .. Seeded |-> [num |-> tape[s][d], den |-> 1]]]
    /\ job = Idle

-----------------------------------------------------------------------------
Reduced(n, d) ==
    LET k == Max({i \in 1 .. d : n % i = 0 /\ d % i = 0}) IN [num |-> n \div k, den |-> d \div k]
\* The ratio of two closes.
Over(a, b) == Reduced(a.num * b.den, a.den * b.num)
Quote(s, d) == Reduced(tape[s][d], cuts[s])
End(rows) == Max(DOMAIN rows)
After(rows, last) == {d \in DOMAIN rows : d > last}
Extended(rows, new, dates) ==
    [d \in DOMAIN rows \cup dates |-> IF d \in DOMAIN rows THEN rows[d] ELSE new[d]]

\* sane: what is appended may not jump, up or down, by more than MaxMove.
Sane(last, first) ==
    LET r == Over(first, last) IN
    /\ 100 * r.num <= (100 + MaxMove) * r.den
    /\ 100 * r.num >= (100 - MaxMove) * r.den

-----------------------------------------------------------------------------
(* update_equities.py                                                      *)

\* one: whatever is newer than the file's last row, today's bar included.
UpdateOne(s) ==
    LET new == [d \in End(panel[s]) + 1 .. Today |-> Quote(s, d)] IN
    /\ ~job.writing
    /\ DOMAIN new # {}
    /\ Sane(panel[s][End(panel[s])], new[End(panel[s]) + 1])
    /\ panel' = [panel EXCEPT ![s] = Extended(@, new, DOMAIN new)]
    /\ UNCHANGED <<tape, cuts, trading, job>>

-----------------------------------------------------------------------------
(* import_bars.py                                                          *)

Shared(s, rows) == DOMAIN panel[s] \cap DOMAIN rows
Agrees(local, rows, dates) == \A d \in dates : local[d] = rows[d]

\* A split the panel has not applied: one ratio on every shared date.
SplitRatios(s, rows) == {Over(panel[s][d], rows[d]) : d \in Shared(s, rows)}
IsSplit(s, rows) ==
    Cardinality(SplitRatios(s, rows)) = 1 /\ Cardinality(Shared(s, rows)) >= MinShared
Rescaled(s, rows) ==
    [d \in DOMAIN panel[s] |-> Over(panel[s][d], CHOOSE r \in SplitRatios(s, rows) : TRUE)]

\* The file that the batch's rows are appended to.
Local(s, rows) ==
    IF ~Agrees(panel[s], rows, Shared(s, rows)) /\ IsSplit(s, rows) THEN Rescaled(s, rows) ELSE panel[s]

\* one: the overlap gate, then what is new, then the jump.
Status(s, rows) ==
    LET local == Local(s, rows)
        add == After(rows, End(panel[s]))
    IN CASE Shared(s, rows) = {} \/ ~Agrees(local, rows, Shared(s, rows)) -> "skip"
         [] add = {} -> "current"
         [] ~Sane(local[End(local)], rows[Min(add)]) -> "reject"
         [] OTHER -> "ok"

\* The last date of a symbol after the import.
EndAfter(s, rows) == IF Status(s, rows) = "ok" THEN End(rows) ELSE End(panel[s])

\* Incomplete without the look at the last dates.
IncompleteByStatus(batch) ==
    \/ DOMAIN batch # Symbols
    \/ \E s \in DOMAIN batch : Status(s, batch[s]) \in {"skip", "reject"}

\* The dry run of main: a symbol is absent or failed, or the symbols would end
\* on different dates.
Incomplete(batch) ==
    \/ DOMAIN batch # Symbols
    \/ \E s \in DOMAIN batch : Status(s, batch[s]) \in {"skip", "reject"}
    \/ Cardinality({EndAfter(s, batch[s]) : s \in DOMAIN batch}) > 1

\* Files of the broker's bars: some symbols, from a date on; a symbol's last
\* bar may be late, and a bar the vendor made up is dropped.
Batches ==
    {[s \in DOMAIN upto |-> [d \in (from .. upto[s]) \ gap |-> Quote(s, d)]] :
        from \in 1 .. Today, gap \in {{}, {Today - 1}},
        upto \in UNION {[some -> {Today - 1, Today}] : some \in {Symbols} \cup {{s} : s \in Symbols}}}

\* main, until it writes: an incomplete batch is only taken with --allow-partial.
Import ==
    /\ ~job.writing
    /\ \E batch \in Batches :
          /\ \A s \in DOMAIN batch : DOMAIN batch[s] # {}
          /\ job' = [writing |-> TRUE, batch |-> batch, partial |-> Incomplete(batch),
                     todo |-> {s \in DOMAIN batch : Status(s, batch[s]) = "ok"}]
    /\ UNCHANGED <<tape, cuts, trading, panel>>

\* one with write: the file is replaced once if it is rescaled, and once more
\* with the new rows.
Rescale(s) ==
    /\ job.writing /\ s \in job.todo /\ Local(s, job.batch[s]) # panel[s]
    /\ panel' = [panel EXCEPT ![s] = Local(s, job.batch[s])]
    /\ UNCHANGED <<tape, cuts, trading, job>>

AppendNew(s) ==
    LET rows == job.batch[s] IN
    /\ job.writing /\ s \in job.todo /\ Local(s, rows) = panel[s]
    /\ panel' = [panel EXCEPT ![s] = Extended(@, rows, After(rows, End(@)))]
    /\ job' = [job EXCEPT !.todo = @ \ {s}]
    /\ UNCHANGED <<tape, cuts, trading>>

ImportDone ==
    /\ job.writing /\ job.todo = {} /\ job' = Idle
    /\ UNCHANGED <<tape, cuts, trading, panel>>

\* The session that runs it is cut off.
ImportDies ==
    /\ job.writing /\ job' = Idle
    /\ UNCHANGED <<tape, cuts, trading, panel>>

-----------------------------------------------------------------------------
Prices == {c \in [Symbols -> UNION {Closes[s] : s \in Symbols}] : \A s \in Symbols : c[s] \in Closes[s]}

\* A session opens, perhaps after a split; prices move; it closes.
OpenSession ==
    /\ ~trading /\ Today < MaxSession
    /\ trading' = TRUE
    /\ \E c \in Prices : tape' = [s \in Symbols |-> Append(tape[s], c[s])]
    /\ \/ UNCHANGED cuts
       \/ \E s \in Symbols, k \in Ratios : cuts[s] = 1 /\ cuts' = [cuts EXCEPT ![s] = k]
    /\ UNCHANGED <<panel, job>>

CloseSession ==
    /\ trading /\ trading' = FALSE
    /\ \E c \in Prices : tape' = [s \in Symbols |-> [tape[s] EXCEPT ![Today] = c[s]]]
    /\ UNCHANGED <<cuts, panel, job>>

Next ==
    \/ \E s \in Symbols : UpdateOne(s) \/ Rescale(s) \/ AppendNew(s)
    \/ Import \/ ImportDone \/ ImportDies
    \/ OpenSession \/ CloseSession

Spec == Init /\ [][Next]_panelVars

-----------------------------------------------------------------------------
(* What the desk makes of the files: load_panel joins them on all dates.   *)

\* missing_sessions: those that closed after a date and before today.
MissingSessions(end) == {d \in end + 1 .. Today : d < Today \/ ~trading}
Newest == Max({End(panel[s]) : s \in Symbols})
Ragged == {s \in Symbols : End(panel[s]) # Newest}
\* check_panel_fresh.py
PanelFresh == MissingSessions(Newest) = {} /\ Ragged = {}

\* A rescale changes every close of a file and no return: neither writer
\* restates a move the ranking has already seen.
ReturnsKept ==
    \A s \in Symbols : panel'[s] # panel[s] => \A d, e \in DOMAIN panel[s] :
        d < e => Over(panel'[s][d], panel'[s][e]) = Over(panel[s][d], panel[s][e])

\* Where an import continues a file, from whatever vendor and scale it is, the
\* return across the seam is the vendor's.
SeamTrue ==
    \A s \in job.todo \ job'.todo :
        LET rows == job.batch[s]
            last == End(panel[s])
            next == Min(After(rows, last))
        IN job'.writing /\ last \in DOMAIN rows =>
               Over(panel'[s][next], panel'[s][last]) = Over(rows[next], rows[last])

\* While a complete batch is written, a cut-off import can be run again with
\* it; when it is written, every file ends on one date, and the panel is fresh
\* if the batch is.
ImportWhole ==
    job.writing /\ ~job.partial =>
        /\ ~Incomplete(job.batch)
        /\ job.todo = {} =>
              /\ Ragged = {}
              /\ MissingSessions(Max({End(job.batch[s]) : s \in Symbols})) = {} => PanelFresh

\* Splits, a bar frozen before the close, a vendor that is late for a symbol,
\* and an import killed between two files: no return is restated or invented
\* by an import, and a complete one leaves no ragged panel.
PanelSound == ReturnsKept /\ SeamTrue /\ ImportWhole
=============================================================================
