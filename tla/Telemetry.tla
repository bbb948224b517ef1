----------------------------- MODULE Telemetry -----------------------------
(***************************************************************************)
(* Feedback and outcomes (telemetry.py): two files of the vault that are   *)
(* appended to under the vault lock, the import of what earlier releases   *)
(* left under .kb/, which runs whenever a store is opened, and the pairing *)
(* of outcomes.                                                            *)
(*                                                                         *)
(* A file is the number of times it has each row.  Machines have a copy of *)
(* the vault each and a runtime directory that is not synchronised.  An    *)
(* append is a single write of a line.                                     *)
(***************************************************************************)
EXTENDS Naturals, FiniteSets

CONSTANTS Machine, Client,
          Outcome,   \* outcomes, of the form below
          Feedback,  \* feedback records
          Unknown,
          Home,      \* the machine of each process
          Syncs,     \* whether vaults are synchronised
          MaxCopies  \* bounds how often a row is in a file

VARIABLES old,      \* per machine the legacy files: their rows, and whether one is malformed
          rows,     \* per machine and file the times each row is in it
          marker,   \* per machine whether its vault has the migration marker
          busy,   \* per machine who is in vault_lock
          store,    \* per process what it does
          recorded  \* ghost: how often record_outcome and feedback have returned for a row

telemetryVars == <<old, rows, marker, busy, store, recorded>>

Files == {"outcomes", "feedback"}
Row == Outcome \cup Feedback

\* What is imported of a legacy outcome: its old pairing and counters do not count.
Imported(row) ==
    IF row \in Outcome THEN [row EXCEPT !.pair = "", !.tokens = Unknown, !.legacy = TRUE] ELSE row

ASSUME TelemetryAssumption ==
    /\ \A row \in Outcome : {"mode", "pair", "task", "tokens", "legacy"} \subseteq DOMAIN row
    /\ \A row \in Outcome : row.mode \in {"kb", "no-kb"} /\ row.legacy \in BOOLEAN
    /\ \A row \in Outcome : Imported(row) \in Outcome
    /\ Outcome \cap Feedback = {}
    /\ Home \in [Client -> Machine] /\ Unknown \notin Client
    /\ MaxCopies \in Nat \ {0}

Of(file) == IF file = "outcomes" THEN Outcome ELSE Feedback
Empty == [row \in Row |-> 0]
Closed == [at |-> "idle"]

TelemetryTypeOK ==
    /\ old \in [Machine -> [Files -> SUBSET Row] \X BOOLEAN]
    /\ rows \in [Machine -> [Files -> [Row -> 0 .. MaxCopies]]]
    /\ \A m \in Machine, f \in Files, row \in Row : rows[m][f][row] > 0 => row \in Of(f)
    /\ marker \in [Machine -> BOOLEAN]
    /\ busy \in [Machine -> Client \cup {Unknown}]
    /\ \A m \in Machine : busy[m] # Unknown => Home[busy[m]] = m
    /\ \A p \in Client : store[p].at \in {"idle", "opening", "writing", "open"}

TelemetryInit ==
    /\ old \in [Machine -> {o \in [Files -> SUBSET Row] :
                               \A f \in Files : \A row \in o[f] :
                                   row \in Of(f) /\ (f = "outcomes" => ~row.legacy)} \X BOOLEAN]
    /\ rows = [m \in Machine |-> [f \in Files |-> Empty]]
    /\ marker = [m \in Machine |-> FALSE]
    /\ busy = [m \in Machine |-> Unknown]
    /\ store = [p \in Client |-> Closed]
    /\ recorded = [m \in Machine |-> Empty]

-----------------------------------------------------------------------------
Open(p) ==
    /\ store[p] = Closed /\ busy[Home[p]] = Unknown
    /\ busy' = [busy EXCEPT ![Home[p]] = p]
    /\ store' = [store EXCEPT ![p] = [at |-> "opening"]]
    /\ UNCHANGED <<old, rows, marker, recorded>>

Release(p, next) ==
    /\ busy' = [busy EXCEPT ![Home[p]] = Unknown]
    /\ store' = [store EXCEPT ![p] = next]

\* A mutant of Merged: rows are appended without looking for what is there.
MergedTwice(m, f) ==
    [row \in Row |-> IF \E o \in old[m][1][f] : Imported(o) = row THEN rows[m][f][row] + 1 ELSE rows[m][f][row]]

\* dict.fromkeys: of the rows there were and the imported ones each is kept once.
Merged(m, f) ==
    [row \in Row |-> IF rows[m][f][row] > 0 \/ \E o \in old[m][1][f] : Imported(o) = row THEN 1 ELSE 0]

\* Where there is no marker all legacy files are read before anything is written; one that
\* is malformed raises.
Prepare(p) ==
    /\ store[p].at = "opening"
    /\ LET m == Home[p] IN
       IF marker[m] THEN Release(p, [at |-> "open"])
       ELSE IF old[m][2] THEN Release(p, Closed)
            ELSE /\ store' = [store EXCEPT ![p] = [at |-> "writing", todo |-> {f \in Files : old[m][1][f] # {}},
                                                   pending |-> [f \in Files |-> Merged(m, f)]]]
                 /\ UNCHANGED busy
    /\ UNCHANGED <<old, rows, marker, recorded>>

First(todo) == IF "outcomes" \in todo THEN "outcomes" ELSE "feedback"

WriteFile(p) ==
    /\ store[p].at = "writing" /\ store[p].todo # {}
    /\ LET f == First(store[p].todo) IN
        /\ rows' = [rows EXCEPT ![Home[p]][f] = store[p].pending[f]]
        /\ store' = [store EXCEPT ![p].todo = @ \ {f}]
    /\ UNCHANGED <<old, marker, busy, recorded>>

WriteMarker(p) ==
    /\ store[p].at = "writing" /\ store[p].todo = {}
    /\ marker' = [marker EXCEPT ![Home[p]] = TRUE]
    /\ Release(p, [at |-> "open"])
    /\ UNCHANGED <<old, rows, recorded>>

\* record_outcome and feedback.
Append(p, f, row) ==
    /\ store[p].at = "open" /\ busy[Home[p]] = Unknown
    /\ row \in Of(f) /\ (f = "outcomes" => ~row.legacy)
    /\ rows[Home[p]][f][row] < MaxCopies
    /\ rows' = [rows EXCEPT ![Home[p]][f][row] = @ + 1]
    /\ recorded' = [recorded EXCEPT ![Home[p]][row] = @ + 1]
    /\ UNCHANGED <<old, marker, busy, store>>

\* A process dies or is done.
StoreDies(p) ==
    /\ store[p] # Closed
    /\ store' = [store EXCEPT ![p] = Closed]
    /\ busy' = [busy EXCEPT ![Home[p]] = IF @ = p THEN Unknown ELSE @]
    /\ UNCHANGED <<old, rows, marker, recorded>>

\* An owner repairs the malformed line.
Repair(m) ==
    /\ old[m][2]
    /\ old' = [old EXCEPT ![m] = <<@[1], FALSE>>]
    /\ UNCHANGED <<rows, marker, busy, store, recorded>>

\* The vault of one machine is copied to another whose own vault has no telemetry yet.
Sync(m, n) ==
    /\ Syncs /\ m # n
    /\ ~marker[n] /\ busy[n] = Unknown /\ rows[n] = [f \in Files |-> Empty]
    /\ rows' = [rows EXCEPT ![n] = rows[m]]
    /\ marker' = [marker EXCEPT ![n] = marker[m]]
    /\ recorded' = [recorded EXCEPT ![n] = recorded[m]]
    /\ marker[m]
    /\ UNCHANGED <<old, busy, store>>

TelemetryNext ==
    \/ \E p \in Client :
        \/ Open(p) \/ Prepare(p) \/ WriteFile(p) \/ WriteMarker(p) \/ StoreDies(p)
        \/ \E f \in Files, row \in Row : Append(p, f, row)
    \/ \E m \in Machine : Repair(m)
    \/ \E m, n \in Machine : Sync(m, n)

TelemetrySpec == TelemetryInit /\ [][TelemetryNext]_telemetryVars

-----------------------------------------------------------------------------
(* paired_summary, of the outcomes of a machine.                           *)

Total(row) == row.tokens
Key(row) == IF row.pair # "" THEN <<"pair", row.pair>> ELSE <<"task", row.task>>

Arm(m, key, mode) == {row \in Outcome : rows[m]["outcomes"][row] > 0 /\ Key(row) = key /\ row.mode = mode}

\* A mutant of Single: repeated rows count once.
SingleRow(m, arm) == Cardinality(arm) = 1
Single(m, arm) == \E row \in arm : arm = {row} /\ rows[m]["outcomes"][row] = 1

\* The pairs: one outcome of each mode under a pair identity, or for want of one a task.
Paired(m) ==
    {pair \in Outcome \X Outcome :
        LET key == Key(pair[1]) IN
        /\ Arm(m, key, "no-kb") = {pair[1]} /\ Single(m, {pair[1]})
        /\ Arm(m, key, "kb") = {pair[2]} /\ Single(m, {pair[2]})}

Complete(pair) == Total(pair[1]) # Unknown /\ Total(pair[2]) # Unknown

Matched(pair) ==
    /\ pair[1].pair # ""
    /\ pair[1].task = pair[2].task
    /\ pair[1].conditions # "" /\ pair[1].conditions = pair[2].conditions
    /\ pair[1].evaluated /\ pair[2].evaluated

-----------------------------------------------------------------------------
\* Once a vault has the marker, every legacy row is in its file, once, however often the
\* import was cut short and repeated and whatever was appended since.
ImportedOnce ==
    \A m \in Machine : marker[m] =>
        \A f \in Files : \A o \in old[m][1][f] :
            rows[m][f][Imported(o)] = 1 + (IF Imported(o) = o THEN recorded[m][o] ELSE 0)

\* Rows that were recorded stay, each as often as it was recorded, and there are no others.
RecordedStays ==
    \A m \in Machine, f \in Files : \A row \in Of(f) :
        IF \E o \in old[m][1][f] : Imported(o) = row
        THEN rows[m][f][row] >= recorded[m][row] /\ rows[m][f][row] =< recorded[m][row] + 1
        ELSE rows[m][f][row] = recorded[m][row]

\* Neither an import cut short and run again nor an append in between loses a row, makes
\* two of it, or leaves one out for good.
HistoryIsKept == ImportedOnce /\ RecordedStays

\* No measured saving rests on an imported outcome, nor on an outcome that was recorded
\* twice: neither a matched pair nor a complete one has such an arm.
NothingMeasuredFromDoubt ==
    \A m \in Machine : \A pair \in Paired(m) :
        Complete(pair) \/ Matched(pair) =>
            \A arm \in {pair[1], pair[2]} : ~arm.legacy /\ recorded[m][arm] = 1
=============================================================================
