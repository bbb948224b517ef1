---- MODULE SemanticTransaction ----
(***************************************************************************)
(* The single-writer semantic transaction of autonomic_kb/storage.py.      *)
(*                                                                         *)
(* A KB process that holds the vault lock snapshots every semantic file    *)
(* (notes and ledger records), edits the vault, and then commits or rolls  *)
(* back; a crash leaves a journal that blocks every reader and writer      *)
(* until the owner resolves it with `kb reconcile`.  Editors, sync tools   *)
(* and people do not take the lock: they act between any two steps.        *)
(*                                                                         *)
(* A file is a directory entry (dir) that names an inode whose bytes are   *)
(* in data.  An atomic write puts a new inode under the name; an in-place  *)
(* save changes the bytes of the inode, for every name that shares it.     *)
(* The snapshot directory is a second set of names (snap): hard links when *)
(* the filesystem can link (CanLink), copies otherwise.                    *)
(*                                                                         *)
(* vault_lock admits one holder, so the program counter of the holder is   *)
(* one variable, phase; "free" is the unlocked vault.                      *)
(***************************************************************************)
EXTENDS Naturals, FiniteSets

CONSTANTS
    Path,       \* names of semantic files: notes and ledger records
    Inode,      \* inode numbers of the filesystem; bounds the files alive at once
    Content,    \* bytes a file may hold
    CanLink,    \* whether os.link works (storage.py falls back to a copy)
    MaxAside,   \* bound: a transaction begins only while at most so many files are left
                \* under .kb/rolled-back/, so that there are inodes for it to end
    NoInode, NoContent, NoPath,
    Unknown     \* ghost: a path an outside program replaced or removed

ASSUME SentinelAssumption ==
    /\ NoInode \notin Inode
    /\ NoPath \notin Path
    /\ NoContent \notin Content
    /\ Unknown \notin Content \cup {NoContent}
    /\ CanLink \in BOOLEAN
    /\ MaxAside \in Nat

VARIABLES
    dir,         \* vault name -> inode
    data,        \* inode -> bytes
    snap,        \* names in the snapshot directory of the journal -> inode
    aside,       \* inodes under .kb/rolled-back/
    journal,     \* the journal file: absent, files=None, or files recorded
    recorded,    \* files: vault name -> st_ino recorded by _snapshot
    phase,       \* where the lock holder is
    todo,        \* paths the current loop has still to visit
    doomed,      \* new files that reconcile --delete-new will unlink
    from,        \* the path between two system calls of the holder
    unavailable, \* paths whose before-state a rollback could not find
    \* Ghosts: they observe the program, and no guard reads them.
    expected,    \* what the path must hold again if the transaction is undone
    touched,     \* paths whose present state is an uncommitted KB change
    exempt       \* paths whose recorded identity an outsider has broken

fs == <<dir, data, snap, aside>>
control == <<journal, recorded, phase, todo, doomed, from, unavailable>>
ghosts == <<expected, touched, exempt>>
vars == <<fs, control, ghosts>>

Phases == {"free", "snapshotting", "body", "forgotten", "setaside", "restoring",
           "resolving"}
Journals == {"absent", "snapshotting", "prepared"}

TypeOK ==
    /\ dir \in [Path -> Inode \cup {NoInode}]
    /\ data \in [Inode -> Content \cup {NoContent}]
    /\ snap \in [Path -> Inode \cup {NoInode}]
    /\ aside \subseteq Inode
    /\ journal \in Journals
    /\ recorded \in [Path -> Inode \cup {NoInode}]
    /\ phase \in Phases
    /\ todo \subseteq Path
    /\ doomed \subseteq Path
    /\ from \in Path \cup {NoPath}
    /\ unavailable \subseteq Path
    /\ expected \in [Path -> Content \cup {NoContent, Unknown}]
    /\ touched \subseteq Path
    /\ exempt \subseteq Path

----------------------------------------------------------------------------
(* The filesystem.                                                         *)

Exists(p) == dir[p] # NoInode
Saved(p) == snap[p] # NoInode
Bytes(p) == IF Exists(p) THEN data[dir[p]] ELSE NoContent
Linked == {dir[p] : p \in Path} \cup {snap[p] : p \in Path} \cup aside
Free == Inode \ Linked

NoEntries == [p \in Path |-> NoInode]

(* atomic_write: a temporary file made beside the target, so its inode is  *)
(* free while the old file still has a name, then os.replace.              *)
Replace(p, c) ==
    \E i \in Free :
        /\ dir' = [dir EXCEPT ![p] = i]
        /\ data' = [data EXCEPT ![i] = c]

(* _link_or_copy into the vault: the saved inode itself, or a fresh copy.  *)
PutBack(p) ==
    IF CanLink
    THEN /\ dir' = [dir EXCEPT ![p] = snap[p]]
         /\ UNCHANGED data
    ELSE Replace(p, data[snap[p]])

\* Mutant: the journal of 0.3.x, marked instead of removed.
DiscardByMarking ==
    /\ journal' = "committed"
    /\ snap' = NoEntries
    /\ recorded' = NoEntries
    /\ expected' = [p \in Path |-> Unknown]
    /\ touched' = {}
    /\ exempt' = {}

Discard ==
    /\ journal' = "absent"
    /\ snap' = NoEntries
    /\ recorded' = NoEntries
    /\ expected' = [p \in Path |-> Unknown]
    /\ touched' = {}
    /\ exempt' = {}

Leave ==
    /\ phase' = "free"
    /\ todo' = {}
    /\ doomed' = {}
    /\ from' = NoPath
    /\ unavailable' = {}

----------------------------------------------------------------------------
(* Opening a transaction.                                                  *)

(* recover_transactions lets the caller through: no journal, or one whose  *)
(* snapshot was never finished, which it discards.                         *)
Unblocked == journal # "prepared"

Begin ==
    /\ phase = "free"
    /\ Unblocked
    /\ Cardinality(aside) <= MaxAside
    /\ journal' = "snapshotting"
    /\ snap' = NoEntries
    /\ recorded' = NoEntries
    /\ phase' = "snapshotting"
    /\ todo' = {p \in Path : Exists(p)}
    /\ expected' = [p \in Path |-> Bytes(p)]
    /\ touched' = {}
    /\ exempt' = {}
    /\ UNCHANGED <<dir, data, aside, doomed, from, unavailable>>

(* A reader's index refresh runs recover_transactions too.                 *)
Recover ==
    /\ phase = "free"
    /\ journal = "snapshotting"
    /\ Discard
    /\ UNCHANGED <<dir, data, aside, phase, todo, doomed, from, unavailable>>

(* One file of _snapshot: stat, then link.                                 *)
SnapshotStat(p) ==
    /\ phase = "snapshotting"
    /\ from = NoPath
    /\ p \in todo
    /\ Exists(p)
    /\ from' = p
    /\ recorded' = [recorded EXCEPT ![p] = dir[p]]
    /\ UNCHANGED <<fs, journal, phase, todo, doomed, unavailable, ghosts>>

SnapshotLink ==
    /\ phase = "snapshotting"
    /\ from # NoPath
    /\ Exists(from)
    /\ IF CanLink
       THEN /\ snap' = [snap EXCEPT ![from] = dir[from]]
            /\ UNCHANGED data
       ELSE \E i \in Free :
               /\ snap' = [snap EXCEPT ![from] = i]
               /\ data' = [data EXCEPT ![i] = Bytes(from)]
    /\ todo' = todo \ {from}
    /\ from' = NoPath
    /\ UNCHANGED <<dir, aside, journal, recorded, phase, doomed, unavailable, ghosts>>

\* Mutant: the file is recorded before it is linked.
SnapshotSkipRecorded(p) ==
    /\ phase = "snapshotting"
    /\ p \in todo
    /\ from \in {NoPath, p}
    /\ ~Exists(p)
    /\ todo' = todo \ {p}
    /\ from' = NoPath
    /\ UNCHANGED <<fs, journal, recorded, phase, doomed, unavailable, ghosts>>

(* FileNotFoundError from stat or link: removed concurrently, skipped.     *)
SnapshotSkip(p) ==
    /\ phase = "snapshotting"
    /\ p \in todo
    /\ from \in {NoPath, p}
    /\ ~Exists(p)
    /\ todo' = todo \ {p}
    /\ from' = NoPath
    /\ recorded' = [recorded EXCEPT ![p] = NoInode]
    /\ UNCHANGED <<fs, journal, phase, doomed, unavailable, ghosts>>

SnapshotDone ==
    /\ phase = "snapshotting"
    /\ todo = {}
    /\ journal' = "prepared"
    /\ phase' = "body"
    /\ UNCHANGED <<fs, recorded, todo, doomed, from, unavailable, ghosts>>

(* An exception while snapshotting: nothing was modified yet.              *)
SnapshotFail ==
    /\ phase = "snapshotting"
    /\ Discard
    /\ Leave
    /\ UNCHANGED <<dir, data, aside>>

----------------------------------------------------------------------------
(* The body: what the lifecycle, learning and healing commands do to files.*)

InBody == phase = "body" /\ from = NoPath

\* After an unlink only the ledger record of the deletion is written.
Writes(p) == InBody \/ (phase = "forgotten" /\ ~Exists(p) /\ recorded[p] = NoInode)

\* Mutant: Path.write_text in place of atomic_write.
WriteInPlace(p, c) ==
    /\ Writes(p)
    /\ IF Exists(p)
       THEN data' = [data EXCEPT ![dir[p]] = c] /\ UNCHANGED dir
       ELSE Replace(p, c)
    /\ touched' = touched \cup {p}
    /\ UNCHANGED <<snap, aside, control, expected, exempt>>

(* atomic_write of a note, or of a new ledger record.                      *)
Write(p, c) ==
    /\ Writes(p)
    /\ Replace(p, c)
    /\ touched' = touched \cup {p}
    /\ UNCHANGED <<snap, aside, control, expected, exempt>>

(* move_into, whose callers have just rewritten the note, so it is not the *)
(* recorded inode: link to a free name (a copy into an exclusively created *)
(* file when links fail), then unlink.                                     *)
MoveLink(p, q) ==
    /\ InBody
    /\ Exists(p)
    /\ dir[p] # recorded[p]
    /\ ~Exists(q)
    /\ IF CanLink
       THEN /\ dir' = [dir EXCEPT ![q] = dir[p]]
            /\ UNCHANGED data
       ELSE Replace(q, Bytes(p))
    /\ from' = p
    /\ touched' = touched \cup {p, q}
    /\ UNCHANGED <<snap, aside, journal, recorded, phase, todo, doomed, unavailable, expected, exempt>>

MoveUnlink ==
    /\ phase = "body"
    /\ from # NoPath
    /\ dir' = [dir EXCEPT ![from] = NoInode]
    /\ from' = NoPath
    /\ touched' = touched \cup {from}
    /\ UNCHANGED <<data, snap, aside, journal, recorded, phase, todo, doomed, unavailable, expected, exempt>>

(* forget --hard: unlink(missing_ok=True).                                 *)
Unlink(p) ==
    /\ InBody
    /\ dir' = [dir EXCEPT ![p] = NoInode]
    /\ phase' = "forgotten"
    /\ touched' = touched \cup {p}
    /\ UNCHANGED <<data, snap, aside, journal, recorded, todo, doomed, from, unavailable, expected, exempt>>

Commit ==
    /\ InBody \/ phase = "forgotten"
    /\ Discard
    /\ Leave
    /\ UNCHANGED <<dir, data, aside>>

----------------------------------------------------------------------------
(* Rollback after an exception in the body.                                *)

\* Mutant: the rollback forgets the files the body created.
FailKeepingNew ==
    /\ phase \in {"body", "forgotten"}
    /\ phase' = "setaside"
    /\ todo' = {}
    /\ from' = NoPath
    /\ UNCHANGED <<fs, journal, recorded, doomed, unavailable, ghosts>>

Fail ==
    /\ phase \in {"body", "forgotten"}
    /\ phase' = "setaside"
    /\ todo' = {p \in Path : Exists(p) /\ recorded[p] = NoInode}
    /\ from' = NoPath
    /\ UNCHANGED <<fs, journal, recorded, doomed, unavailable, ghosts>>

SetAside(p) ==
    /\ phase = "setaside"
    /\ p \in todo
    /\ Exists(p)
    /\ dir' = [dir EXCEPT ![p] = NoInode]
    /\ aside' = aside \cup {dir[p]}
    /\ todo' = todo \ {p}
    /\ touched' = touched \ {p}
    /\ UNCHANGED <<data, snap, journal, recorded, phase, doomed, from, unavailable, expected, exempt>>

(* os.replace of a file an outsider removed meanwhile raises out of        *)
(* _restore: the journal stays.                                            *)
SetAsideMissing(p) ==
    /\ phase = "setaside"
    /\ p \in todo
    /\ ~Exists(p)
    /\ Leave
    /\ UNCHANGED <<fs, journal, recorded, ghosts>>

SetAsideDone ==
    /\ phase = "setaside"
    /\ todo = {}
    /\ phase' = "restoring"
    /\ todo' = {p \in Path : recorded[p] # NoInode}
    /\ UNCHANGED <<fs, journal, recorded, doomed, from, unavailable, ghosts>>

\* Mutants: only what is missing is put back; bytes compared, not identities.
KeptIfPresent(p) == Exists(p)
KeptIfSameBytes(p) == Exists(p) /\ Saved(p) /\ Bytes(p) = data[snap[p]]

(* _restore leaves a file alone when it still has its recorded inode, or   *)
(* is the saved file itself.                                               *)
Kept(p) == Exists(p) /\ (dir[p] = recorded[p] \/ dir[p] = snap[p])

RestoreKeep(p) ==
    /\ phase = "restoring"
    /\ p \in todo
    /\ Kept(p)
    /\ todo' = todo \ {p}
    /\ UNCHANGED <<fs, journal, recorded, phase, doomed, from, unavailable, ghosts>>

RestoreFile(p) ==
    /\ phase = "restoring"
    /\ p \in todo
    /\ ~Kept(p)
    /\ Saved(p)
    /\ PutBack(p)
    /\ todo' = todo \ {p}
    /\ touched' = touched \ {p}
    /\ UNCHANGED <<snap, aside, journal, recorded, phase, doomed, from, unavailable, expected, exempt>>

RestoreUnavailable(p) ==
    /\ phase = "restoring"
    /\ p \in todo
    /\ ~Kept(p)
    /\ ~Saved(p)
    /\ unavailable' = unavailable \cup {p}
    /\ todo' = todo \ {p}
    /\ UNCHANGED <<fs, journal, recorded, phase, doomed, from, ghosts>>

RolledBack == phase = "restoring" /\ todo = {} /\ unavailable = {}

RollbackDone ==
    /\ RolledBack
    /\ Discard
    /\ Leave
    /\ UNCHANGED <<dir, data, aside>>

(* Some before-state is gone: the journal stays, and blocks the vault.     *)
RollbackIncomplete ==
    /\ phase = "restoring"
    /\ todo = {}
    /\ unavailable # {}
    /\ Leave
    /\ UNCHANGED <<fs, journal, recorded, ghosts>>

----------------------------------------------------------------------------
(* Crash of the lock holder, or an OSError inside the rollback or the      *)
(* reconciliation: the lock is released, the journal stays as written.     *)

Crash ==
    /\ phase # "free"
    /\ Leave
    /\ recorded' = IF journal = "snapshotting" THEN NoEntries ELSE recorded
    /\ UNCHANGED <<fs, journal, ghosts>>

----------------------------------------------------------------------------
(* kb reconcile, under the vault lock: resolve_transaction.                *)

AcceptCurrent ==
    /\ phase = "free"
    /\ journal # "absent"
    /\ Discard
    /\ UNCHANGED <<dir, data, aside, phase, todo, doomed, from, unavailable>>

(* The statuses pending_transactions gives the journal's files.            *)
Unchanged(p) ==
    Exists(p) /\ Saved(p) /\ (dir[p] = snap[p] \/ Bytes(p) = data[snap[p]])
\* Mutants: "missing" is forgotten; the known files are those still saved.
ChangedOnly == {p \in Path : Exists(p) /\ Saved(p) /\ ~Unchanged(p)}
NotSaved == {p \in Path : Exists(p) /\ ~Saved(p)}

ChangedOrMissing == {p \in Path : recorded[p] # NoInode /\ Saved(p) /\ ~Unchanged(p)}
NewFiles == {p \in Path : Exists(p) /\ recorded[p] = NoInode}

RestoreSnapshot(deleteNew) ==
    /\ phase = "free"
    /\ journal # "absent"
    /\ phase' = "resolving"
    /\ todo' = ChangedOrMissing
    /\ doomed' = IF deleteNew THEN NewFiles ELSE {}
    /\ UNCHANGED <<fs, journal, recorded, from, unavailable, ghosts>>

ResolveFile(p) ==
    /\ phase = "resolving"
    /\ p \in todo
    /\ Saved(p)
    /\ IF dir[p] = snap[p] THEN UNCHANGED <<dir, data>> ELSE PutBack(p)
    /\ todo' = todo \ {p}
    /\ touched' = touched \ {p}
    /\ UNCHANGED <<snap, aside, journal, recorded, phase, doomed, from, unavailable, expected, exempt>>

(* The saved copy disappeared after the status was read: link raises.      *)
ResolveMissing(p) ==
    /\ phase = "resolving"
    /\ p \in todo
    /\ ~Saved(p)
    /\ Leave
    /\ UNCHANGED <<fs, journal, recorded, ghosts>>

ResolveDelete(p) ==
    /\ phase = "resolving"
    /\ todo = {}
    /\ p \in doomed
    /\ dir' = [dir EXCEPT ![p] = NoInode]
    /\ doomed' = doomed \ {p}
    /\ touched' = touched \ {p}
    /\ UNCHANGED <<data, snap, aside, journal, recorded, phase, todo, from, unavailable, expected, exempt>>

Resolved == phase = "resolving" /\ todo = {} /\ doomed = {}

ResolveDone ==
    /\ Resolved
    /\ Discard
    /\ Leave
    /\ UNCHANGED <<dir, data, aside>>

----------------------------------------------------------------------------
(* Editors, sync tools and people: no lock, any time, not KB code.  An     *)
(* in-place save keeps the inode; anything else gives the name a new one   *)
(* or none.  What an outsider does to a path the KB has not changed is the *)
(* state an undo must keep; once an outsider has replaced or removed the   *)
(* name itself, nothing is promised about its bytes.                       *)

\* The file an undo would leave at q.
Original(q) == IF q \in touched THEN recorded[q] ELSE dir[q]

\* Reconcile found the bytes of q as they were, and keeps the KB's inode.
LeftAlone(q) == phase = "resolving" /\ q \in touched \ todo

ExtSave(p, c) ==
    /\ Exists(p)
    /\ c # Bytes(p)
    /\ data' = [data EXCEPT ![dir[p]] = c]
    /\ expected' = [q \in Path |->
           IF dir[p] \notin {dir[q], Original(q)} \/ expected[q] = Unknown
           THEN expected[q]
           ELSE IF LeftAlone(q) THEN Unknown
           ELSE IF Original(q) = dir[p] THEN c ELSE expected[q]]
    /\ UNCHANGED <<dir, snap, aside, control, touched, exempt>>

(* The name no longer means what the transaction recorded.                 *)
Disowned(p) ==
    /\ expected' = [expected EXCEPT ![p] = Unknown]
    /\ touched' = touched \ {p}

(* When the name gets another file between its stat and its link, the      *)
(* record itself is wrong: exempt.                                         *)
ExtReplace(p, c) ==
    /\ Replace(p, c)
    /\ Disowned(p)
    /\ exempt' = IF phase = "snapshotting" /\ from = p THEN exempt \cup {p} ELSE exempt
    /\ UNCHANGED <<snap, aside, control>>

ExtDelete(p) ==
    /\ Exists(p)
    /\ dir' = [dir EXCEPT ![p] = NoInode]
    /\ Disowned(p)
    /\ UNCHANGED <<data, snap, aside, control, exempt>>

(* Someone removes a file of .kb-transactions/.                            *)
SnapshotLost(p) ==
    /\ Saved(p)
    /\ snap' = [snap EXCEPT ![p] = NoInode]
    /\ exempt' = exempt \cup {p}
    /\ UNCHANGED <<dir, data, aside, control, expected, touched>>

(* The owner has looked at the files set aside and removes them.           *)
EmptyRolledBack ==
    /\ aside # {}
    /\ aside' = {}
    /\ UNCHANGED <<dir, data, snap, control, ghosts>>

----------------------------------------------------------------------------
Init ==
    /\ dir = NoEntries
    /\ data = [i \in Inode |-> NoContent]
    /\ snap = NoEntries
    /\ aside = {}
    /\ journal = "absent"
    /\ recorded = NoEntries
    /\ phase = "free"
    /\ todo = {}
    /\ doomed = {}
    /\ from = NoPath
    /\ unavailable = {}
    /\ expected = [p \in Path |-> Unknown]
    /\ touched = {}
    /\ exempt = {}

Snapshotting ==
    \/ \E p \in Path : SnapshotStat(p) \/ SnapshotSkip(p)
    \/ SnapshotLink \/ SnapshotDone \/ SnapshotFail

Body ==
    \/ \E p \in Path : Unlink(p) \/ \E c \in Content : Write(p, c)
    \/ \E p, q \in Path : MoveLink(p, q)
    \/ MoveUnlink

RollingBack ==
    \/ \E p \in Path :
          \/ SetAside(p) \/ SetAsideMissing(p)
          \/ RestoreKeep(p) \/ RestoreFile(p) \/ RestoreUnavailable(p)
    \/ SetAsideDone \/ RollbackDone \/ RollbackIncomplete

Resolving ==
    \/ \E p \in Path : ResolveFile(p) \/ ResolveMissing(p) \/ ResolveDelete(p)
    \/ ResolveDone

Reconciling ==
    \/ AcceptCurrent
    \/ \E deleteNew \in BOOLEAN : RestoreSnapshot(deleteNew)
    \/ Resolving

Outside ==
    \/ \E p \in Path :
          \/ \E c \in Content : ExtSave(p, c) \/ ExtReplace(p, c)
          \/ ExtDelete(p) \/ SnapshotLost(p)
    \/ EmptyRolledBack

Next ==
    \/ Begin \/ Recover
    \/ Snapshotting \/ Body \/ Commit \/ Fail \/ RollingBack
    \/ Reconciling
    \/ Crash
    \/ Outside

Spec == Init /\ [][Next]_vars

----------------------------------------------------------------------------
(* Properties.                                                             *)

Known(p) == p \notin exempt /\ expected[p] # Unknown

(* From the moment the journal is prepared until it goes away, the snapshot *)
(* holds the before-state of every file, with the in-place edits others     *)
(* made before the KB replaced it: at every step, after every crash, in the *)
(* middle of a rollback or of a reconciliation (_snapshot, _restore,        *)
(* resolve_transaction).                                                    *)
BeforeStateRecoverable ==
    CanLink /\ journal = "prepared" =>
        \A p \in Path : Known(p) /\ expected[p] # NoContent =>
            Saved(p) /\ data[snap[p]] = expected[p]

(* A transaction that fails leaves none of its changes: when _restore has   *)
(* found every before-state, each path holds its content from before the    *)
(* transaction, or what an editor saved in place into a file the KB had not *)
(* replaced; a file that did not exist is gone from the vault.              *)
RollbackExact ==
    CanLink /\ RolledBack =>
        \A p \in Path : Known(p) => Bytes(p) = expected[p]

(* ... and files outsiders replaced before the KB did are no exception: no  *)
(* path names a file the failed transaction wrote, and none that was there  *)
(* is missing because the transaction removed it.                           *)
NoPartialTransaction ==
    CanLink /\ RolledBack =>
        \A p \in touched \ exempt : ~Exists(p) /\ recorded[p] = NoInode

(* kb reconcile --restore-snapshot ends with every file of the before-state *)
(* as it was, even after it crashed and was run again, and whatever was     *)
(* edited between the status it read and the files it put back.             *)
ReconcileExact ==
    CanLink /\ Resolved /\ journal = "prepared" =>
        \A p \in Path : Known(p) /\ expected[p] # NoContent => Bytes(p) = expected[p]

(* kb reconcile --delete-new of a finished snapshot never picks a file that *)
(* was in the vault before the transaction, not even when its saved copy is *)
(* lost or its name was moved away (pending_transactions, "new").           *)
DeletesOnlyNewFiles ==
    phase = "resolving" /\ journal = "prepared" =>
        \A p \in doomed : expected[p] \in {NoContent, Unknown}

(* A rollback never gives another inode to a file the transaction did not   *)
(* change: an editor that has it open keeps saving into the vault.          *)
RollbackLeavesOthersAlone ==
    [][\A p \in Path \ touched :
          phase \in {"setaside", "restoring"} /\ Known(p) =>
              (dir'[p] = dir[p] \/ expected'[p] = Unknown)]_vars

(* A rollback misses a before-state, and leaves the vault blocked, only for *)
(* a file somebody took out of .kb-transactions/ or replaced while it was   *)
(* being linked.  A file that vanishes before it is linked is not recorded, *)
(* so that a later failure does not look for it (_snapshot, "removed        *)
(* concurrently; nothing to restore").                                      *)
MissesOnlyWhatWasLost == unavailable \subseteq exempt

(* What cli.py says of --delete-new ("also delete files created since the   *)
(* crash") and of the journals interrupted while snapshotting: a file the   *)
(* vault held when the transaction began is not deleted as new.             *)
DeletesOnlyFilesCreatedSince ==
    phase = "resolving" =>
        \A p \in doomed : expected[p] \in {NoContent, Unknown}

(* The docstring of _restore: "A file that still has its recorded inode was *)
(* never replaced by the transaction".                                      *)
RecordedInodeMeansUnreplaced ==
    phase = "restoring" =>
        \A p \in todo \cap touched : Known(p) => dir[p] # recorded[p]

----------------------------------------------------------------------------
(* The abstract vault this module implements.                              *)

(* What the vault holds apart from the changes of a pending transaction.    *)
Logical ==
    [p \in Path |->
        IF journal = "absent" THEN Bytes(p)
        ELSE IF journal = "prepared" THEN IF p \in exempt THEN Unknown ELSE expected[p]
        ELSE IF Exists(p) \/ expected[p] = Unknown THEN expected[p] ELSE NoContent]

Mode ==
    IF journal = "absent" THEN "idle"
    ELSE IF journal = "snapshotting" THEN "preparing"
    ELSE IF phase \in {"body", "forgotten"} THEN "open"
    ELSE IF phase \in {"setaside", "restoring"} THEN "undoing"
    ELSE IF phase = "resolving" THEN "restoring" ELSE "interrupted"

Abstract == INSTANCE AtomicVault WITH vault <- Logical, mode <- Mode

(* A transaction happens at once or not at all: whatever the interleaving   *)
(* of its system calls with editors, crashes and reconciliations, the vault *)
(* as committed work and outsiders have made it changes only when the body  *)
(* has ended well, when the owner accepts the files of an interrupted one,  *)
(* or by an outsider's own edit (on filesystems with hard links).           *)
Atomic == Abstract!Spec

====
