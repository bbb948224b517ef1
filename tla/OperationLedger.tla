-------------------------- MODULE OperationLedger --------------------------
(***************************************************************************)
(* The append-only operations under .kb-memory-events/ (evidence.py        *)
(* 170-241) and the transactions that write them.  A record is a file of   *)
(* its own; the number of an operation is found by reading all records of  *)
(* its memory, under the vault lock.  Commands append inside a semantic    *)
(* transaction, after they wrote the note; agents may append directly and  *)
(* expect a previous digest.  The clock is a wall clock and may step back. *)
(*                                                                         *)
(* A transaction that fails is undone file by file, and so is one that the *)
(* owner reconciles by restoring its snapshot; each can die half-way and   *)
(* be reconciled again.  That the snapshot keeps the before-state whatever *)
(* editors do is SemanticTransaction's concern; here it is before.         *)
(***************************************************************************)
EXTENDS Naturals, FiniteSets

CONSTANTS Memory, Digest, Agent,
          Pathname,   \* names of operations on notes without an id: their paths
          OpId,       \* names of operations
          Time,       \* what the wall clock can say
          NoDigest,   \* the empty digest: of a memory without records, of a deleted note
          Anything,   \* require_previous was not given
          MaxNumber   \* bound: an operation has no higher number

ASSUME LedgerAssumption ==
    /\ OpId \subseteq Nat /\ Time \subseteq Nat
    /\ NoDigest \notin Digest /\ Anything \notin Digest /\ Anything # NoDigest
    /\ Memory \cap Pathname = {} /\ NoDigest \notin Memory \cup Pathname

VARIABLES records, \* the operation files
          written, \* per memory the digest of what the KB last wrote to its note
          mode,    \* where the transaction is; "crashed": its journal is pending
          doing,   \* the operation not yet on record of the note just written
          before,  \* the snapshot
          seen,    \* the digest an agent read and will require
          \* Ghosts: they observe the program, and no guard reads them.
          untold,  \* memories whose note has changed since their last operation
          gone,    \* memories whose new operations the pending undo has begun to remove
          torn     \* memories of which the owner kept what such an undo had left

ghosts == <<untold, gone, torn>>
vars == <<records, written, mode, doing, before, seen, ghosts>>

Name == Memory \cup Pathname
Content == Digest \cup {NoDigest}
Record == [id : OpId, memory : Name, sequence : Nat \ {0}, at : Time,
           new : Content, expected : Content \cup {Anything}, kb : BOOLEAN]
Nothing == [memory |-> NoDigest, new |-> NoDigest]
NoSnapshot == [records |-> {}, written |-> [m \in Memory |-> NoDigest], untold |-> {}]
Modes == {"free", "body", "failing", "crashed", "restoring", "deleting"}

TypeOK ==
    /\ records \subseteq Record
    /\ \A r, s \in records : r.id = s.id => r = s
    /\ written \in [Memory -> Content]
    /\ mode \in Modes
    /\ doing # Nothing => mode = "body" /\ doing \in [memory : Name, new : Content]
    /\ mode = "free" => before = NoSnapshot
    /\ mode # "free" => before.records \subseteq records
    /\ seen \in [Agent -> [memory : Memory, new : Content] \cup {Nothing}]
    /\ untold \subseteq Memory /\ gone \subseteq Name /\ torn \subseteq Name

Init ==
    /\ records = {}
    /\ written = [m \in Memory |-> NoDigest]
    /\ mode = "free" /\ doing = Nothing
    /\ before = NoSnapshot
    /\ seen = [a \in Agent |-> Nothing]
    /\ untold = {} /\ gone = {} /\ torn = {}

-----------------------------------------------------------------------------
Of(R, m) == {r \in R : r.memory = m}
RecordsOf(m) == Of(records, m)

\* A mutant of Earlier, which orders the records as their file names are.
EarlierByTime(r, s) ==
    \/ r.at < s.at
    \/ r.at = s.at /\ r.id =< s.id

\* The order of iter_operations: the clock only decides between equal numbers.
Earlier(r, s) ==
    \/ r.sequence < s.sequence
    \/ r.sequence = s.sequence /\ r.at < s.at
    \/ r.sequence = s.sequence /\ r.at = s.at /\ r.id =< s.id

LastFor(m) == CHOOSE r \in RecordsOf(m) : \A s \in RecordsOf(m) : Earlier(s, r)

LastDigest(m) == IF RecordsOf(m) = {} THEN NoDigest ELSE LastFor(m).new
NextNumber(m) == IF RecordsOf(m) = {} THEN 1 ELSE LastFor(m).sequence + 1

\* uuid4: names never meet.  Which one it is decides nothing where no two operations of a
\* memory have one number, so the least will do.
NewName == {id \in OpId \ {r.id : r \in records} :
               \A other \in OpId \ {r.id : r \in records} : id =< other}

\* A mutant of AppendLocked: the expected digest is not compared.
AppendBlindly(m, new, expected, kb) ==
    /\ NextNumber(m) =< MaxNumber
    /\ \E id \in NewName, now \in Time :
        records' = records \cup {[id |-> id, memory |-> m, sequence |-> NextNumber(m), at |-> now,
                                  new |-> new, expected |-> expected, kb |-> kb]}

\* _append_locked.
AppendLocked(m, new, expected, kb) ==
    /\ expected \in {Anything, LastDigest(m)}
    /\ NextNumber(m) =< MaxNumber
    /\ \E id \in NewName, now \in Time :
        records' = records \cup {[id |-> id, memory |-> m, sequence |-> NextNumber(m), at |-> now,
                                  new |-> new, expected |-> expected, kb |-> kb]}

-----------------------------------------------------------------------------
(* Agents, with a lock of their own around each append only.               *)

Look(a, m) ==
    /\ seen' = [seen EXCEPT ![a] = [memory |-> m, new |-> LastDigest(m)]]
    /\ seen' # seen
    /\ UNCHANGED <<records, written, mode, doing, before, ghosts>>

\* append(..., require_previous=...): refused when the memory has changed since.  It waits
\* for the lock, which a body and its undo have, and does not ask for pending journals.
AppendExpecting(a, new) ==
    /\ mode \in {"free", "crashed"}
    /\ seen[a] # Nothing
    /\ AppendLocked(seen[a].memory, new, seen[a].new, FALSE)
    /\ seen' = [seen EXCEPT ![a] = Nothing]
    /\ UNCHANGED <<written, mode, doing, before, ghosts>>

-----------------------------------------------------------------------------
(* Commands.                                                               *)

Begin ==
    /\ mode = "free"
    /\ mode' = "body"
    /\ before' = [records |-> records, written |-> written, untold |-> untold]
    /\ UNCHANGED <<records, written, doing, seen, ghosts>>

\* _rewrite, _archive and remember write the note first, and forget --hard removes it ...
WriteNote(m, new) ==
    /\ mode = "body" /\ doing = Nothing
    /\ written' = [written EXCEPT ![m] = new]
    /\ doing' = [memory |-> m, new |-> new]
    /\ UNCHANGED <<records, mode, before, seen, ghosts>>

\* ... and then append what they did.
RecordNote ==
    /\ mode = "body" /\ doing # Nothing
    /\ AppendLocked(doing.memory, doing.new, Anything, TRUE)
    /\ doing' = Nothing
    /\ untold' = untold \ {doing.memory}
    /\ UNCHANGED <<written, mode, before, seen, gone, torn>>

\* heal rewrites a note that has no id, and records that under the path of the note.
WriteNameless(m, path, new) ==
    /\ mode = "body" /\ doing = Nothing
    /\ written' = [written EXCEPT ![m] = new]
    /\ doing' = [memory |-> path, new |-> new]
    /\ untold' = untold \cup {m}
    /\ UNCHANGED <<records, mode, before, seen, gone, torn>>

\* migrate_vault rewrites notes and records nothing.
Migrate(m, new) ==
    /\ mode = "body" /\ doing = Nothing
    /\ written' = [written EXCEPT ![m] = new]
    /\ untold' = untold \cup {m}
    /\ UNCHANGED <<records, mode, doing, before, seen, gone, torn>>

Commit ==
    /\ mode = "body" /\ doing = Nothing
    /\ mode' = "free" /\ before' = NoSnapshot
    /\ UNCHANGED <<records, written, doing, seen, ghosts>>

\* An exception in the body: _restore begins.
Fail ==
    /\ mode = "body"
    /\ mode' = "failing"
    /\ doing' = Nothing
    /\ UNCHANGED <<records, written, before, seen, ghosts>>

\* A process dies in the body or in an undo, or an OSError ends the undo: the journal stays.
Crash ==
    /\ mode \in {"body", "failing", "restoring", "deleting"}
    /\ mode' = "crashed"
    /\ doing' = Nothing
    /\ UNCHANGED <<records, written, before, seen, ghosts>>

-----------------------------------------------------------------------------
(* The undo of a transaction, file by file: _restore after an exception,   *)
(* resolve_transaction when the owner reconciles a crash.                  *)

\* A mutant of NewRecords: the operations are not among the files of a transaction.
NoRecords == {}

NewRecords == records \ before.records

\* Notes of which the KB had not written anything: they may be new, or a person's.
Unwritten == {m \in Memory : before.written[m] = NoDigest}
Changed == {m \in Memory : written[m] # before.written[m]}

RestoreSnapshot(deleteNew) ==
    /\ mode = "crashed"
    /\ mode' = IF deleteNew THEN "deleting" ELSE "restoring"
    /\ UNCHANGED <<records, written, doing, before, seen, ghosts>>

\* _restore_file, or the removal of a new note.  After an exception new files go first.
PutBack(m) ==
    /\ mode \in {"failing", "restoring", "deleting"}
    /\ m \in Changed
    /\ mode = "failing" => m \in Unwritten \/ NewRecords = {}
    /\ written' = [written EXCEPT ![m] = before.written[m]]
    /\ UNCHANGED <<records, mode, doing, before, seen, ghosts>>

\* The new operations go in the order of their file names, which is that of the clock:
\* set aside after an exception, unlinked after the notes are back by --delete-new.
Remove(r) ==
    /\ mode \in {"failing", "deleting"}
    /\ r \in NewRecords
    /\ \A s \in NewRecords : r.at =< s.at
    /\ mode = "deleting" => Changed \subseteq Unwritten
    /\ records' = records \ {r}
    /\ gone' = gone \cup {r.memory}
    /\ UNCHANGED <<written, mode, doing, before, seen, untold, torn>>

UndoDone ==
    /\ mode \in {"failing", "deleting"}
    /\ Changed = {} /\ NewRecords = {}
    /\ mode' = "free" /\ before' = NoSnapshot
    /\ untold' = before.untold
    /\ gone' = {}
    /\ UNCHANGED <<records, written, doing, seen, torn>>

\* What the journal does not undo stays, and is no longer told from what was committed.
Keep ==
    /\ mode' = "free" /\ before' = NoSnapshot
    /\ untold' = before.untold \cup Changed
                 \cup {m \in Memory : \E r \in NewRecords \cap RecordsOf(m) : r.kb}
    /\ gone' = {}
    /\ torn' = torn \cup {m \in gone : RecordsOf(m) # Of(before.records, m)}
    /\ UNCHANGED <<records, written, doing, seen>>

AcceptCurrent == mode = "crashed" /\ Keep

\* restore-snapshot keeps the new files, operations and notes, without --delete-new.
RestoreDone == mode = "restoring" /\ Changed \subseteq Unwritten /\ Keep

Undo ==
    \/ \E m \in Memory : PutBack(m)
    \/ \E r \in records : Remove(r)
    \/ UndoDone \/ RestoreDone

Next ==
    \/ \E a \in Agent, m \in Memory : Look(a, m)
    \/ \E a \in Agent, d \in Digest : AppendExpecting(a, d)
    \/ Begin \/ RecordNote \/ Commit \/ Fail \/ Crash
    \/ \E m \in Memory, d \in Content : WriteNote(m, d)
    \/ \E m \in Memory, d \in Digest :
          Migrate(m, d) \/ \E path \in Pathname : WriteNameless(m, path, d)
    \/ Undo
    \/ AcceptCurrent \/ \E deleteNew \in BOOLEAN : RestoreSnapshot(deleteNew)

Spec == Init /\ [][Next]_vars

-----------------------------------------------------------------------------
Numbers(m) == {r.sequence : r \in RecordsOf(m)}

\* No two operations of a memory ever have one number, and they are numbered 1, 2, ...
\* without a gap, whatever the clock says and whichever transactions fail, die in the middle
\* of their undo, or are reconciled.  A gap can only be in a history of which an undo removed
\* some operations and died; it lasts only if the owner then keeps the rest.
Numbered ==
    \A m \in Name :
        /\ \A r, s \in RecordsOf(m) : r.sequence = s.sequence => r = s
        /\ m \notin gone \cup torn => Numbers(m) = 1 .. Cardinality(RecordsOf(m))

\* An operation that required a previous digest directly follows the operation that left
\* it: of agents who saw the same state one goes through, and no rollback pulls the ground
\* from under those who came after.  Where an undo died half-way the operation before it
\* may be missing, but never another one be in its place.
ExpectationsHold ==
    \A r \in {s \in records : s.expected # Anything} :
        LET previous == {s \in RecordsOf(r.memory) : s.sequence = r.sequence - 1} IN
        /\ r.sequence = 1 => r.expected = NoDigest
        /\ \A s \in previous : s.new = r.expected
        /\ r.sequence > 1 /\ previous = {} => r.memory \in gone \cup torn

Commands(R, m) == {r \in Of(R, m) : r.kb}

\* The last operation of a command on m tells what the KB has put into the note.
Tells(R, w, m) ==
    IF Commands(R, m) = {} THEN w[m] = NoDigest
    ELSE \E r \in Commands(R, m) : (\A s \in Commands(R, m) : Earlier(s, r)) /\ r.new = w[m]

\* Outside a transaction the last operation of a command tells what the KB has put into
\* the note, and a note the KB has not written has none: failures, however their undo
\* goes, leave no misleading record and no change without one.  Except, until the next
\* operation, where `kb migrate` or the repair of a note without an id changed the note, or
\* where the owner kept what a crash had left.
RecordsTellTheTruth ==
    mode = "free" => \A m \in Memory \ untold : Tells(records, written, m)

\* Also where a crash was reconciled by restoring the snapshot, the last operation of a
\* command on a note tells what the note has.
NoMisleadingRecord ==
    [][\A m \in Memory \ before.untold :
          mode \in {"restoring", "deleting"} /\ mode' = "free" /\ Commands(records', m) # {} =>
              Tells(records', written', m)]_vars

\* Records are well formed, under names of their own, and numbered without a gap.
WellNumbered == TypeOK /\ Numbered
=============================================================================
