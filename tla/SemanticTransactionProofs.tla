---- MODULE SemanticTransactionProofs ----
(***************************************************************************)
(* What SemanticTransaction guarantees for any number of files, inodes and *)
(* contents.                                                               *)
(***************************************************************************)
EXTENDS SemanticTransaction, TLAPS

----------------------------------------------------------------------------
(* Lemmas about the filesystem.                                            *)

\* A free inode is an inode no vault or snapshot name refers to.
LEMMA FreeInode ==
    ASSUME NEW i \in Free
    PROVE  /\ i \in Inode
           /\ \A q \in Path : dir[q] # i /\ snap[q] # i
BY DEF Free, Linked

\* Replacing a file keeps the filesystem well formed.
LEMMA ReplaceType ==
    ASSUME TypeOK, NEW p \in Path, NEW c \in Content, Replace(p, c)
    PROVE  /\ dir' \in [Path -> Inode \cup {NoInode}]
           /\ data' \in [Inode -> Content \cup {NoContent}]
BY FreeInode DEF Replace, TypeOK

----------------------------------------------------------------------------
(* Type correctness.                                                       *)

\* The first state is well typed.
LEMMA InitType == Init => TypeOK
BY DEF Init, TypeOK, NoEntries, Phases, Journals

\* Giving the lock back keeps the types of the control variables ...
LEMMA LeaveType ==
    ASSUME TypeOK, Leave
    PROVE  /\ phase' \in Phases
           /\ todo' \subseteq Path
           /\ doomed' \subseteq Path
           /\ from' \in Path \cup {NoPath}
           /\ unavailable' \subseteq Path
BY DEF Leave, Phases

\* ... and discarding the journal those of its record and of the ghosts.
LEMMA DiscardType ==
    ASSUME TypeOK, Discard
    PROVE  /\ journal' \in Journals
           /\ snap' \in [Path -> Inode \cup {NoInode}]
           /\ recorded' \in [Path -> Inode \cup {NoInode}]
           /\ expected' \in [Path -> Content \cup {NoContent, Unknown}]
           /\ touched' \subseteq Path
           /\ exempt' \subseteq Path
BY DEF Discard, NoEntries, Journals

\* Types are kept while the snapshot is taken,
LEMMA SnapshottingType == TypeOK /\ Snapshotting => TypeOK'
<1> SUFFICES ASSUME TypeOK, Snapshotting
             PROVE  TypeOK'
    OBVIOUS
<1> USE DEF fs, ghosts
<1>1. CASE \E p \in Path : SnapshotStat(p)
    BY <1>1 DEF SnapshotStat, TypeOK
<1>2. CASE \E p \in Path : SnapshotSkip(p)
    BY <1>2 DEF SnapshotSkip, TypeOK
<1>3. CASE SnapshotLink
    <2>1. from \in Path
        BY <1>3 DEF SnapshotLink, TypeOK
    <2>2. dir[from] \in Inode /\ Bytes(from) \in Content \cup {NoContent}
        BY <1>3, <2>1 DEF SnapshotLink, TypeOK, Exists, Bytes
    <2>3. snap' \in [Path -> Inode \cup {NoInode}]
        BY <1>3, <2>1, <2>2, FreeInode DEF SnapshotLink, TypeOK
    <2>4. data' \in [Inode -> Content \cup {NoContent}]
        BY <1>3, <2>2, FreeInode DEF SnapshotLink, TypeOK
    <2> QED
        BY <1>3, <2>3, <2>4 DEF SnapshotLink, TypeOK
<1>4. CASE SnapshotDone
    BY <1>4 DEF SnapshotDone, TypeOK, Phases, Journals
<1>5. CASE SnapshotFail
    BY <1>5, LeaveType, DiscardType DEF SnapshotFail, TypeOK
<1> QED
    BY <1>1, <1>2, <1>3, <1>4, <1>5 DEF Snapshotting

\* by the body and its ends,
LEMMA BodyType == TypeOK /\ (Body \/ Commit \/ Fail) => TypeOK'
<1> SUFFICES ASSUME TypeOK, Body \/ Commit \/ Fail
             PROVE  TypeOK'
    OBVIOUS
<1> USE DEF fs, control, ghosts
<1>1. CASE \E p \in Path : Unlink(p)
    BY <1>1 DEF Unlink, TypeOK, Phases
<1>2. CASE \E p \in Path, c \in Content : Write(p, c)
    <2> PICK p \in Path, c \in Content : Write(p, c)
        BY <1>2
    <2>1. dir' \in [Path -> Inode \cup {NoInode}] /\ data' \in [Inode -> Content \cup {NoContent}]
        BY ReplaceType DEF Write
    <2> QED
        BY <2>1 DEF Write, TypeOK
<1>3. CASE \E p, q \in Path : MoveLink(p, q)
    <2> PICK p \in Path, q \in Path : MoveLink(p, q)
        BY <1>3
    <2>1. dir[p] \in Inode /\ Bytes(p) \in Content \cup {NoContent}
        BY DEF MoveLink, TypeOK, Exists, Bytes
    <2>2. dir' \in [Path -> Inode \cup {NoInode}]
        BY <2>1, FreeInode DEF MoveLink, Replace, TypeOK
    <2>3. data' \in [Inode -> Content \cup {NoContent}]
        BY <2>1, FreeInode DEF MoveLink, Replace, TypeOK
    <2> QED
        BY <2>2, <2>3 DEF MoveLink, TypeOK
<1>4. CASE MoveUnlink
    BY <1>4 DEF MoveUnlink, TypeOK
<1>5. CASE Commit
    BY <1>5, LeaveType, DiscardType DEF Commit, TypeOK
<1>6. CASE Fail
    BY <1>6 DEF Fail, TypeOK, Phases
<1> QED
    BY <1>1, <1>2, <1>3, <1>4, <1>5, <1>6 DEF Body

\* Putting a saved file back keeps the filesystem well formed.
\* when a saved file is put back,
LEMMA PutBackType ==
    ASSUME TypeOK, NEW p \in Path, Saved(p), PutBack(p)
    PROVE  /\ dir' \in [Path -> Inode \cup {NoInode}]
           /\ data' \in [Inode -> Content \cup {NoContent}]
<1>1. snap[p] \in Inode /\ data[snap[p]] \in Content \cup {NoContent}
    BY DEF TypeOK, Saved
<1> QED
    BY <1>1, FreeInode DEF PutBack, Replace, TypeOK

\* by the rollback,
LEMMA RollingBackType == TypeOK /\ RollingBack => TypeOK'
<1> SUFFICES ASSUME TypeOK, RollingBack
             PROVE  TypeOK'
    OBVIOUS
<1> USE DEF fs, ghosts
<1>1. CASE \E p \in Path : SetAside(p)
    BY <1>1 DEF SetAside, TypeOK, Exists
<1>2. CASE \E p \in Path : SetAsideMissing(p)
    BY <1>2, LeaveType DEF SetAsideMissing, TypeOK
<1>3. CASE \E p \in Path : RestoreKeep(p)
    BY <1>3 DEF RestoreKeep, TypeOK
<1>4. CASE \E p \in Path : RestoreFile(p)
    BY <1>4, PutBackType DEF RestoreFile, TypeOK
<1>5. CASE \E p \in Path : RestoreUnavailable(p)
    BY <1>5 DEF RestoreUnavailable, TypeOK
<1>6. CASE SetAsideDone
    BY <1>6 DEF SetAsideDone, TypeOK, Phases
<1>7. CASE RollbackDone
    BY <1>7, LeaveType, DiscardType DEF RollbackDone, TypeOK
<1>8. CASE RollbackIncomplete
    BY <1>8, LeaveType DEF RollbackIncomplete, TypeOK
<1> QED
    BY <1>1, <1>2, <1>3, <1>4, <1>5, <1>6, <1>7, <1>8 DEF RollingBack

\* by the reconciliation,
LEMMA ReconcilingType == TypeOK /\ Reconciling => TypeOK'
<1> SUFFICES ASSUME TypeOK, Reconciling
             PROVE  TypeOK'
    OBVIOUS
<1> USE DEF fs, ghosts
<1>1. CASE AcceptCurrent
    BY <1>1, DiscardType DEF AcceptCurrent, TypeOK
<1>2. CASE \E deleteNew \in BOOLEAN : RestoreSnapshot(deleteNew)
    BY <1>2 DEF RestoreSnapshot, ChangedOrMissing, NewFiles, TypeOK, Phases
<1>3. CASE \E p \in Path : ResolveFile(p)
    BY <1>3, PutBackType DEF ResolveFile, TypeOK
<1>4. CASE \E p \in Path : ResolveMissing(p)
    BY <1>4, LeaveType DEF ResolveMissing, TypeOK
<1>5. CASE \E p \in Path : ResolveDelete(p)
    BY <1>5 DEF ResolveDelete, TypeOK
<1>6. CASE ResolveDone
    BY <1>6, LeaveType, DiscardType DEF ResolveDone, TypeOK
<1> QED
    BY <1>1, <1>2, <1>3, <1>4, <1>5, <1>6 DEF Reconciling, Resolving

\* by whatever outsiders do,
LEMMA OutsideType == TypeOK /\ Outside => TypeOK'
<1> SUFFICES ASSUME TypeOK, Outside
             PROVE  TypeOK'
    OBVIOUS
<1> USE DEF control, ghosts
<1>1. CASE \E p \in Path, c \in Content : ExtSave(p, c)
    BY <1>1 DEF ExtSave, TypeOK, Exists
<1>2. CASE \E p \in Path, c \in Content : ExtReplace(p, c)
    <2> PICK p \in Path, c \in Content : ExtReplace(p, c)
        BY <1>2
    <2>1. dir' \in [Path -> Inode \cup {NoInode}] /\ data' \in [Inode -> Content \cup {NoContent}]
        BY ReplaceType DEF ExtReplace
    <2> QED
        BY <2>1 DEF ExtReplace, Disowned, TypeOK
<1>3. CASE \E p \in Path : ExtDelete(p)
    BY <1>3 DEF ExtDelete, Disowned, TypeOK
<1>4. CASE \E p \in Path : SnapshotLost(p)
    BY <1>4 DEF SnapshotLost, TypeOK
<1>5. CASE EmptyRolledBack
    BY <1>5 DEF EmptyRolledBack, TypeOK
<1> QED
    BY <1>1, <1>2, <1>3, <1>4, <1>5 DEF Outside

\* and so by every step.
LEMMA NextType == TypeOK /\ [Next]_vars => TypeOK'
<1> SUFFICES ASSUME TypeOK, [Next]_vars
             PROVE  TypeOK'
    OBVIOUS
<1> USE DEF fs, control, ghosts
<1>1. CASE Begin
    <2>1. \A p \in Path : Bytes(p) \in Content \cup {NoContent}
        BY DEF Bytes, Exists, TypeOK
    <2> QED
        BY <1>1, <2>1 DEF Begin, TypeOK, NoEntries, Phases, Journals
<1>2. CASE Recover
    BY <1>2, DiscardType DEF Recover, TypeOK
<1>3. CASE Crash
    BY <1>3, LeaveType DEF Crash, TypeOK, NoEntries
<1>4. CASE UNCHANGED vars
    BY <1>4 DEF vars, TypeOK
<1> QED
    BY <1>1, <1>2, <1>3, <1>4, SnapshottingType, BodyType, RollingBackType,
       ReconcilingType, OutsideType DEF Next

(* Every variable keeps its type, whatever the vault holds and whatever     *)
(* crashes and outside edits happen.                                        *)
THEOREM TypeCorrect == Spec => []TypeOK
BY InitType, NextType, PTL DEF Spec

----------------------------------------------------------------------------
(* The inductive invariant.                                                *)

\* The path was there before the transaction, and its content is still known.
Firm(p) == expected[p] \notin {Unknown, NoContent}

\* The record of q names the inode its saved copy links to.
Sound(q) == recorded[q] # NoInode /\ q \notin exempt

\* The journal tells where the holder can be.
ControlInv ==
    /\ phase = "snapshotting" => journal = "snapshotting"
    /\ phase \in {"body", "forgotten", "setaside", "restoring"} => journal = "prepared"
    /\ phase = "resolving" => journal # "absent"
    /\ phase = "free" => from = NoPath
    /\ journal = "snapshotting" => touched = {}
    /\ journal = "snapshotting" /\ phase # "snapshotting" => recorded = NoEntries

\* While snapshotting, p waits for its stat, or its record is right.
Stable(p) == (p \in todo /\ from # p) \/ recorded[p] = dir[p]

\* The snapshot in the making: nothing has changed in the vault but by outsiders.
SnapshotInv ==
    phase = "snapshotting" =>
        /\ from \in todo \cup {NoPath}
        /\ from # NoPath => recorded[from] # NoInode
        /\ \A p \in todo : snap[p] = NoInode
        /\ \A p \in Path : Firm(p) =>
              /\ Exists(p) /\ data[dir[p]] = expected[p] /\ Stable(p)
              /\ Saved(p) => snap[p] = dir[p]
        /\ \A p \in Path : expected[p] = NoContent =>
              ~Exists(p) /\ p \notin todo /\ recorded[p] = NoInode
        /\ \A q \in Path : Sound(q) =>
              snap[q] = recorded[q] \/ (from = q /\ (dir[q] = recorded[q] \/ ~Exists(q)))

\* Which names may share an inode while snapshotting.
AliasInv ==
    phase = "snapshotting" =>
        /\ \A p, q \in Path : p # q /\ Exists(p) /\ dir[p] = dir[q] => Stable(p)
        /\ \A p, q \in Path : q \notin exempt /\ Saved(q) /\ dir[p] = snap[q] => Stable(p)
        /\ \A p, q \in Path : p # q /\ Saved(p) /\ snap[p] = dir[q] => recorded[p] = snap[p]
        /\ \A p, q \in Path : q \notin exempt /\ Saved(q) /\ snap[p] = snap[q] =>
              recorded[p] = snap[p]

\* A prepared journal: the saved inodes are the recorded ones and hold the
\* before-state, and no name the KB has written refers to one of them.
PreparedInv ==
    journal = "prepared" =>
        /\ \A q \in Path : Sound(q) => snap[q] = recorded[q]
        /\ \A p, q \in Path : Sound(q) /\ dir[p] = recorded[q] =>
              p \notin touched /\ dir[p] = recorded[p]
        /\ \A p, q \in Path : Sound(q) /\ snap[p] = recorded[q] => recorded[p] = snap[p]
        /\ \A p \in Path : Firm(p) =>
              /\ recorded[p] # NoInode
              /\ p \notin touched => dir[p] = recorded[p]
              /\ Saved(p) => snap[p] = recorded[p]
              /\ p \notin exempt => data[recorded[p]] = expected[p]
        /\ \A p \in Path : expected[p] = NoContent =>
              recorded[p] = NoInode /\ (p \notin touched => ~Exists(p))

\* How far the undo has come.
UndoInv ==
    /\ phase = "setaside" =>
          /\ \A p \in todo : recorded[p] = NoInode
          /\ \A p \in touched : Exists(p) /\ recorded[p] = NoInode => p \in todo
    /\ phase = "restoring" =>
          /\ \A p \in todo : recorded[p] # NoInode
          /\ \A p \in touched \ exempt :
                p \in todo \cup unavailable \/ (~Exists(p) /\ recorded[p] = NoInode)
    /\ phase = "resolving" /\ journal = "snapshotting" => todo = {}
    /\ phase = "resolving" /\ journal = "prepared" =>
          /\ \A p \in todo : recorded[p] # NoInode
          /\ \A p \in doomed : recorded[p] = NoInode
          /\ \A p \in Path \ exempt : Firm(p) => p \in todo \/ Bytes(p) = expected[p]

\* A named inode holds bytes somebody wrote.
WrittenInv ==
    \A p \in Path :
        /\ Exists(p) => data[dir[p]] \in Content
        /\ Saved(p) => data[snap[p]] \in Content

LinkInv == SnapshotInv /\ AliasInv /\ PreparedInv /\ UndoInv

ProtocolInv == ControlInv /\ WrittenInv /\ (CanLink => LinkInv)

IInv == TypeOK /\ ProtocolInv

----------------------------------------------------------------------------
(* The invariant is inductive: one step per action, one leaf per part.     *)

\* The invariant holds of a fresh vault.
LEMMA InitInv == Init => IInv
BY SentinelAssumption DEF Init, IInv, ProtocolInv, LinkInv, TypeOK, ControlInv, WrittenInv, SnapshotInv, AliasInv,
   PreparedInv, UndoInv, NoEntries, Exists, Saved, Firm, Sound, Phases, Journals

\* Linking the saved copy of a file keeps the sharing of inodes orderly.
LEMMA LinkAlias ==
    ASSUME TypeOK, ControlInv, SnapshotInv, AliasInv, CanLink, SnapshotLink
    PROVE  AliasInv'
<1> USE DEF fs, ghosts
<1>1. from \in Path /\ dir[from] \in Inode /\ phase = "snapshotting" /\ phase' = phase /\ dir' = dir /\ exempt' = exempt /\ recorded' = recorded
  BY DEF SnapshotLink, Exists, TypeOK
<1>2. snap' = [snap EXCEPT ![from] = dir[from]] /\ todo' = todo \ {from} /\ from' = NoPath
  BY DEF SnapshotLink
<1>3. \A p \in Path : Stable(p) => Stable(p)'
  BY <1>1, <1>2, SentinelAssumption DEF Stable
<1>4. recorded[from] = dir[from] \/ from \in exempt
  BY <1>1, SentinelAssumption DEF SnapshotInv, Sound, SnapshotLink
<1>5. \A p, q \in Path : p # q /\ Exists(p)' /\ dir'[p] = dir'[q] => Stable(p)'
  BY <1>1, <1>3 DEF AliasInv, Exists
<1>6. \A p, q \in Path : q \notin exempt /\ Saved(q)' /\ dir'[p] = snap'[q] => Stable(p)'
  <2> SUFFICES ASSUME NEW p \in Path, NEW q \in Path, q \notin exempt, Saved(q)', dir[p] = snap'[q] PROVE Stable(p)'
    BY <1>1
  <2>1. CASE q # from
    BY <2>1, <1>1, <1>2, <1>3 DEF AliasInv, Saved, TypeOK
  <2>2. CASE q = from /\ p # from
    BY <2>2, <1>1, <1>2, <1>3, SentinelAssumption DEF AliasInv, Exists, TypeOK
  <2>3. CASE q = from /\ p = from
    BY <2>3, <1>1, <1>2, <1>4 DEF Stable
  <2> QED BY <2>1, <2>2, <2>3
<1>7. \A p, q \in Path : p # q /\ Saved(p)' /\ snap'[p] = dir'[q] => recorded'[p] = snap'[p]
  BY <1>1, <1>2, SentinelAssumption DEF AliasInv, Saved, TypeOK, Stable, Exists
<1>8. \A p, q \in Path : q \notin exempt /\ Saved(q)' /\ snap'[p] = snap'[q] => recorded'[p] = snap'[p]
  <2> SUFFICES ASSUME NEW p \in Path, NEW q \in Path, q \notin exempt, Saved(q)', snap'[p] = snap'[q] PROVE recorded[p] = snap'[p]
    BY <1>1
  <2>1. CASE p # from /\ q # from
    BY <2>1, <1>1, <1>2 DEF AliasInv, Saved, TypeOK
  <2>2. CASE p # from /\ q = from
    BY <2>2, <1>1, <1>2, SentinelAssumption DEF AliasInv, Saved, TypeOK
  <2>3. CASE p = from /\ q # from
    BY <2>3, <1>1, <1>2 DEF AliasInv, Saved, TypeOK, Stable
  <2>4. CASE p = from /\ q = from
    BY <2>4, <1>1, <1>2, <1>4 DEF Stable, TypeOK
  <2> QED BY <2>1, <2>2, <2>3, <2>4
<1> QED BY <1>1, <1>5, <1>6, <1>7, <1>8 DEF AliasInv

\* Opening a transaction, and discarding one that never got that far.
LEMMA BeginInv ==
    ASSUME TypeOK, ControlInv, WrittenInv, CanLink => LinkInv,
           Begin \/ Recover
    PROVE  ProtocolInv'
<1>1. ASSUME Begin
     PROVE  ProtocolInv'
  <2>1. (ControlInv /\ WrittenInv)'
      BY <1>1 DEF Begin, ControlInv, WrittenInv, NoEntries, Exists, Saved
  <2>2. ASSUME CanLink PROVE LinkInv'
    <3>1. SnapshotInv'
        BY <1>1, <2>2, SentinelAssumption DEF LinkInv, Begin, SnapshotInv,
           ControlInv, WrittenInv, NoEntries, Exists, Bytes, Firm, Stable,
           Saved
    <3>2. AliasInv'
        BY <1>1, <2>2, SentinelAssumption DEF LinkInv, Begin, AliasInv,
           ControlInv, Exists, Stable, Saved
    <3>3. (PreparedInv /\ UndoInv)'
        BY <1>1, <2>2 DEF LinkInv, Begin, PreparedInv, UndoInv
    <3> QED BY <3>1, <3>2, <3>3 DEF LinkInv
  <2> QED BY <2>1, <2>2 DEF ProtocolInv
<1>2. ASSUME Recover
     PROVE  ProtocolInv'
  <2>1. (ControlInv /\ WrittenInv)'
      BY <1>2 DEF Recover, ControlInv, WrittenInv, Discard, NoEntries, Exists,
         Saved
  <2>2. ASSUME CanLink PROVE LinkInv'
      BY <1>2, <2>2 DEF LinkInv, Recover, SnapshotInv, AliasInv, PreparedInv,
         UndoInv, Discard
  <2> QED BY <2>1, <2>2 DEF ProtocolInv
<1> QED BY <1>1, <1>2

\* Taking the snapshot.
LEMMA SnapshottingInv ==
    ASSUME TypeOK, ControlInv, WrittenInv, CanLink => LinkInv,
           Snapshotting
    PROVE  ProtocolInv'
<1>1. ASSUME NEW p \in Path, SnapshotStat(p)
     PROVE  ProtocolInv'
  <2>1. (ControlInv /\ WrittenInv)'
      BY <1>1 DEF SnapshotStat, ControlInv, WrittenInv, Exists, Saved, fs,
         ghosts
  <2>2. ASSUME CanLink PROVE LinkInv'
    <3>1. SnapshotInv'
        BY <1>1, <2>2, SentinelAssumption DEF LinkInv, SnapshotStat,
           SnapshotInv, TypeOK, Firm, Sound, Stable, Exists, Saved, fs, ghosts
    <3>2. AliasInv'
        BY <1>1, <2>2 DEF LinkInv, SnapshotStat, AliasInv, SnapshotInv,
           TypeOK, Stable, Exists, Saved, fs, ghosts
    <3>3. (PreparedInv /\ UndoInv)'
        BY <1>1, <2>2 DEF LinkInv, SnapshotStat, PreparedInv, UndoInv,
           ControlInv
    <3> QED BY <3>1, <3>2, <3>3 DEF LinkInv
  <2> QED BY <2>1, <2>2 DEF ProtocolInv
<1>2. ASSUME NEW p \in Path, SnapshotSkip(p)
     PROVE  ProtocolInv'
  <2>1. (ControlInv /\ WrittenInv)'
      BY <1>2 DEF SnapshotSkip, ControlInv, WrittenInv, Exists, Saved, fs,
         ghosts
  <2>2. ASSUME CanLink PROVE LinkInv'
    <3>1. SnapshotInv'
        BY <1>2, <2>2, SentinelAssumption DEF LinkInv, SnapshotSkip,
           SnapshotInv, TypeOK, Firm, Sound, Stable, Exists, Saved, fs, ghosts
    <3>2. AliasInv'
        BY <1>2, <2>2, SentinelAssumption DEF LinkInv, SnapshotSkip, AliasInv,
           SnapshotInv, Stable, Exists, Saved, fs, ghosts
    <3>3. (PreparedInv /\ UndoInv)'
        BY <1>2, <2>2 DEF LinkInv, SnapshotSkip, PreparedInv, UndoInv,
           SnapshotInv, Firm, Sound, Exists, Saved, fs, ghosts
    <3> QED BY <3>1, <3>2, <3>3 DEF LinkInv
  <2> QED BY <2>1, <2>2 DEF ProtocolInv
<1>3. ASSUME SnapshotLink
     PROVE  ProtocolInv'
  <2>1. ControlInv'
      BY <1>3 DEF SnapshotLink, ControlInv, ghosts
  <2>2. WrittenInv'
      BY <1>3, FreeInode DEF SnapshotLink, WrittenInv, TypeOK, Exists, Saved,
         Bytes
  <2>3. ASSUME CanLink PROVE LinkInv'
    <3>1. SnapshotInv'
        BY <1>3, <2>3, SentinelAssumption DEF LinkInv, SnapshotLink,
           SnapshotInv, TypeOK, Firm, Sound, Stable, Exists, Saved, ghosts
    <3>2. (PreparedInv /\ UndoInv)'
        BY <1>3, <2>3 DEF LinkInv, SnapshotLink, PreparedInv, UndoInv,
           SnapshotInv, TypeOK, Firm, Sound, Stable, Exists, Saved, ghosts
    <3>3. AliasInv'
        BY <1>3, <2>3, LinkAlias DEF LinkInv
    <3> QED BY <3>1, <3>2, <3>3 DEF LinkInv
  <2> QED BY <2>1, <2>2, <2>3 DEF ProtocolInv
<1>4. ASSUME SnapshotDone
     PROVE  ProtocolInv'
  <2>1. (ControlInv /\ WrittenInv)'
      BY <1>4 DEF SnapshotDone, ControlInv, WrittenInv, Exists, Saved, fs
  <2>2. ASSUME CanLink PROVE LinkInv'
    <3>1. SnapshotInv'
        BY <1>4, <2>2 DEF LinkInv, SnapshotDone, SnapshotInv
    <3>2. AliasInv'
        BY <1>4, <2>2 DEF LinkInv, SnapshotDone, AliasInv
    <3>3. PreparedInv'
        BY <1>4, <2>2, SentinelAssumption DEF LinkInv, SnapshotDone,
           PreparedInv, ControlInv, SnapshotInv, AliasInv, Firm, Sound,
           Stable, Exists, Saved, fs, ghosts
    <3>4. UndoInv'
        BY <1>4, <2>2 DEF LinkInv, SnapshotDone, UndoInv
    <3> QED BY <3>1, <3>2, <3>3, <3>4 DEF LinkInv
  <2> QED BY <2>1, <2>2 DEF ProtocolInv
<1>5. ASSUME SnapshotFail
     PROVE  ProtocolInv'
  <2>1. (ControlInv /\ WrittenInv)'
      BY <1>5 DEF SnapshotFail, ControlInv, WrittenInv, Discard, Leave,
         Exists, Saved, NoEntries
  <2>2. ASSUME CanLink PROVE LinkInv'
      BY <1>5, <2>2 DEF LinkInv, SnapshotFail, SnapshotInv, AliasInv,
         PreparedInv, UndoInv, Discard, Leave
  <2> QED BY <2>1, <2>2 DEF ProtocolInv
<1> QED BY <1>1, <1>2, <1>3, <1>4, <1>5 DEF Snapshotting

\* The body, and its two ends.
LEMMA BodyInv ==
    ASSUME TypeOK, ControlInv, WrittenInv, CanLink => LinkInv,
           Body \/ Commit \/ Fail
    PROVE  ProtocolInv'
<1>1. ASSUME NEW p \in Path, Unlink(p)
     PROVE  ProtocolInv'
  <2>1. (ControlInv /\ WrittenInv)'
      BY <1>1 DEF Unlink, ControlInv, WrittenInv, InBody, Exists, Saved
  <2>2. ASSUME CanLink PROVE LinkInv'
    <3>1. (SnapshotInv /\ AliasInv)'
        BY <1>1, <2>2 DEF LinkInv, Unlink, SnapshotInv, AliasInv
    <3>2. PreparedInv'
        BY <1>1, <2>2 DEF LinkInv, Unlink, PreparedInv, TypeOK, Firm, Sound,
           Exists, Saved
    <3>3. UndoInv'
        BY <1>1, <2>2 DEF LinkInv, Unlink, UndoInv
    <3> QED BY <3>1, <3>2, <3>3 DEF LinkInv
  <2> QED BY <2>1, <2>2 DEF ProtocolInv
<1>2. ASSUME NEW p \in Path, NEW c \in Content, Write(p, c)
     PROVE  ProtocolInv'
  <2>1. ControlInv'
      BY <1>2 DEF Write, ControlInv, Writes, InBody, control
  <2>2. WrittenInv'
      BY <1>2, FreeInode DEF Write, WrittenInv, TypeOK, Replace, Exists, Saved
  <2>3. ASSUME CanLink PROVE LinkInv'
    <3>1. (SnapshotInv /\ AliasInv)'
        BY <1>2, <2>3 DEF LinkInv, Write, SnapshotInv, AliasInv, Writes,
           InBody, control
    <3>2. PreparedInv'
        BY <1>2, <2>3, FreeInode DEF LinkInv, Write, PreparedInv, TypeOK,
           Replace, Firm, Sound, Exists, Saved, control
    <3>3. UndoInv'
        BY <1>2, <2>3 DEF LinkInv, Write, UndoInv, Writes, InBody, control
    <3> QED BY <3>1, <3>2, <3>3 DEF LinkInv
  <2> QED BY <2>1, <2>2, <2>3 DEF ProtocolInv
<1>3. ASSUME NEW p \in Path, NEW q \in Path, MoveLink(p, q)
     PROVE  ProtocolInv'
  <2>1. ControlInv'
      BY <1>3 DEF MoveLink, ControlInv, InBody
  <2>2. WrittenInv'
      BY <1>3, FreeInode DEF MoveLink, WrittenInv, TypeOK, Replace, Exists,
         Saved, Bytes
  <2>3. ASSUME CanLink PROVE LinkInv'
    <3>1. (SnapshotInv /\ AliasInv)'
        BY <1>3, <2>3 DEF LinkInv, MoveLink, SnapshotInv, AliasInv, InBody
    <3>2. PreparedInv'
        BY <1>3, <2>3 DEF LinkInv, MoveLink, PreparedInv, TypeOK, Firm, Sound,
           Exists, Saved
    <3>3. UndoInv'
        BY <1>3, <2>3 DEF LinkInv, MoveLink, UndoInv, InBody
    <3> QED BY <3>1, <3>2, <3>3 DEF LinkInv
  <2> QED BY <2>1, <2>2, <2>3 DEF ProtocolInv
<1>4. ASSUME MoveUnlink
     PROVE  ProtocolInv'
  <2>1. (ControlInv /\ WrittenInv)'
      BY <1>4 DEF MoveUnlink, ControlInv, WrittenInv, Exists, Saved
  <2>2. ASSUME CanLink PROVE LinkInv'
    <3>1. (SnapshotInv /\ AliasInv)'
        BY <1>4, <2>2 DEF LinkInv, MoveUnlink, SnapshotInv, AliasInv
    <3>2. PreparedInv'
        BY <1>4, <2>2 DEF LinkInv, MoveUnlink, PreparedInv, TypeOK, Firm,
           Sound, Exists, Saved
    <3>3. UndoInv'
        BY <1>4, <2>2 DEF LinkInv, MoveUnlink, UndoInv
    <3> QED BY <3>1, <3>2, <3>3 DEF LinkInv
  <2> QED BY <2>1, <2>2 DEF ProtocolInv
<1>5. ASSUME Commit
     PROVE  ProtocolInv'
  <2>1. (ControlInv /\ WrittenInv)'
      BY <1>5 DEF Commit, ControlInv, WrittenInv, Discard, Leave, Exists,
         Saved, NoEntries
  <2>2. ASSUME CanLink PROVE LinkInv'
      BY <1>5, <2>2 DEF LinkInv, Commit, SnapshotInv, AliasInv, PreparedInv,
         UndoInv, Discard, Leave
  <2> QED BY <2>1, <2>2 DEF ProtocolInv
<1>6. ASSUME Fail
     PROVE  ProtocolInv'
  <2>1. (ControlInv /\ WrittenInv)'
      BY <1>6 DEF Fail, ControlInv, WrittenInv, Exists, Saved, fs
  <2>2. ASSUME CanLink PROVE LinkInv'
    <3>1. (SnapshotInv /\ AliasInv)'
        BY <1>6, <2>2 DEF LinkInv, Fail, SnapshotInv, AliasInv
    <3>2. PreparedInv'
        BY <1>6, <2>2 DEF LinkInv, Fail, PreparedInv, Firm, Sound, Exists,
           Saved, fs, ghosts
    <3>3. UndoInv'
        BY <1>6, <2>2 DEF LinkInv, Fail, UndoInv, TypeOK, Exists, fs, ghosts
    <3> QED BY <3>1, <3>2, <3>3 DEF LinkInv
  <2> QED BY <2>1, <2>2 DEF ProtocolInv
<1> QED BY <1>1, <1>2, <1>3, <1>4, <1>5, <1>6 DEF Body

\* The rollback.
LEMMA RollingBackInv ==
    ASSUME TypeOK, ControlInv, WrittenInv, CanLink => LinkInv,
           RollingBack
    PROVE  ProtocolInv'
<1>1. ASSUME NEW p \in Path, SetAside(p)
     PROVE  ProtocolInv'
  <2>1. (ControlInv /\ WrittenInv)'
      BY <1>1 DEF SetAside, ControlInv, WrittenInv, Exists, Saved
  <2>2. ASSUME CanLink PROVE LinkInv'
    <3>1. (SnapshotInv /\ AliasInv)'
        BY <1>1, <2>2 DEF LinkInv, SetAside, SnapshotInv, AliasInv
    <3>2. PreparedInv'
        BY <1>1, <2>2 DEF LinkInv, SetAside, PreparedInv, UndoInv, TypeOK,
           Firm, Sound, Exists, Saved
    <3>3. UndoInv'
        BY <1>1, <2>2 DEF LinkInv, SetAside, UndoInv, Exists
    <3> QED BY <3>1, <3>2, <3>3 DEF LinkInv
  <2> QED BY <2>1, <2>2 DEF ProtocolInv
<1>2. ASSUME NEW p \in Path, SetAsideMissing(p)
     PROVE  ProtocolInv'
  <2>1. (ControlInv /\ WrittenInv)'
      BY <1>2 DEF SetAsideMissing, ControlInv, WrittenInv, Leave, Exists,
         Saved, fs
  <2>2. ASSUME CanLink PROVE LinkInv'
      BY <1>2, <2>2 DEF LinkInv, SetAsideMissing, SnapshotInv, AliasInv,
         PreparedInv, UndoInv, Leave, Firm, Sound, Exists, Saved, fs, ghosts
  <2> QED BY <2>1, <2>2 DEF ProtocolInv
<1>3. ASSUME NEW p \in Path, RestoreKeep(p)
     PROVE  ProtocolInv'
  <2>1. (ControlInv /\ WrittenInv)'
      BY <1>3 DEF RestoreKeep, ControlInv, WrittenInv, Exists, Saved, fs
  <2>2. ASSUME CanLink PROVE LinkInv'
    <3>1. (SnapshotInv /\ AliasInv)'
        BY <1>3, <2>2 DEF LinkInv, RestoreKeep, SnapshotInv, AliasInv
    <3>2. PreparedInv'
        BY <1>3, <2>2 DEF LinkInv, RestoreKeep, PreparedInv, Firm, Sound,
           Exists, Saved, fs, ghosts
    <3>3. UndoInv'
        BY <1>3, <2>2 DEF LinkInv, RestoreKeep, UndoInv, ControlInv,
           PreparedInv, Kept, Sound, Exists, fs, ghosts
    <3> QED BY <3>1, <3>2, <3>3 DEF LinkInv
  <2> QED BY <2>1, <2>2 DEF ProtocolInv
<1>4. ASSUME NEW p \in Path, RestoreFile(p)
     PROVE  ProtocolInv'
  <2>1. ControlInv'
      BY <1>4 DEF RestoreFile, ControlInv
  <2>2. WrittenInv'
      BY <1>4, SentinelAssumption, FreeInode DEF RestoreFile, WrittenInv,
         TypeOK, PutBack, Replace, Exists, Saved
  <2>3. ASSUME CanLink PROVE LinkInv'
    <3>1. (SnapshotInv /\ AliasInv)'
        BY <1>4, <2>3 DEF LinkInv, RestoreFile, SnapshotInv, AliasInv
    <3>2. PreparedInv'
        BY <1>4, <2>3 DEF LinkInv, RestoreFile, PreparedInv, UndoInv, TypeOK,
           PutBack, Firm, Sound, Exists, Saved
    <3>3. UndoInv'
        BY <1>4, <2>3 DEF LinkInv, RestoreFile, UndoInv, TypeOK, PutBack,
           Exists
    <3> QED BY <3>1, <3>2, <3>3 DEF LinkInv
  <2> QED BY <2>1, <2>2, <2>3 DEF ProtocolInv
<1>5. ASSUME NEW p \in Path, RestoreUnavailable(p)
     PROVE  ProtocolInv'
  <2>1. (ControlInv /\ WrittenInv)'
      BY <1>5 DEF RestoreUnavailable, ControlInv, WrittenInv, Exists, Saved,
         fs
  <2>2. ASSUME CanLink PROVE LinkInv'
    <3>1. (SnapshotInv /\ AliasInv)'
        BY <1>5, <2>2 DEF LinkInv, RestoreUnavailable, SnapshotInv, AliasInv
    <3>2. PreparedInv'
        BY <1>5, <2>2 DEF LinkInv, RestoreUnavailable, PreparedInv, Firm,
           Sound, Exists, Saved, fs, ghosts
    <3>3. UndoInv'
        BY <1>5, <2>2 DEF LinkInv, RestoreUnavailable, UndoInv, Exists, fs,
           ghosts
    <3> QED BY <3>1, <3>2, <3>3 DEF LinkInv
  <2> QED BY <2>1, <2>2 DEF ProtocolInv
<1>6. ASSUME SetAsideDone
     PROVE  ProtocolInv'
  <2>1. (ControlInv /\ WrittenInv)'
      BY <1>6 DEF SetAsideDone, ControlInv, WrittenInv, Exists, Saved, fs
  <2>2. ASSUME CanLink PROVE LinkInv'
    <3>1. (SnapshotInv /\ AliasInv)'
        BY <1>6, <2>2 DEF LinkInv, SetAsideDone, SnapshotInv, AliasInv
    <3>2. PreparedInv'
        BY <1>6, <2>2 DEF LinkInv, SetAsideDone, PreparedInv, Firm, Sound,
           Exists, Saved, fs, ghosts
    <3>3. UndoInv'
        BY <1>6, <2>2 DEF LinkInv, SetAsideDone, UndoInv, TypeOK, Exists, fs,
           ghosts
    <3> QED BY <3>1, <3>2, <3>3 DEF LinkInv
  <2> QED BY <2>1, <2>2 DEF ProtocolInv
<1>7. ASSUME RollbackDone
     PROVE  ProtocolInv'
  <2>1. (ControlInv /\ WrittenInv)'
      BY <1>7 DEF RollbackDone, ControlInv, WrittenInv, Discard, Leave,
         Exists, Saved, NoEntries
  <2>2. ASSUME CanLink PROVE LinkInv'
      BY <1>7, <2>2 DEF LinkInv, RollbackDone, SnapshotInv, AliasInv,
         PreparedInv, UndoInv, Discard, Leave
  <2> QED BY <2>1, <2>2 DEF ProtocolInv
<1>8. ASSUME RollbackIncomplete
     PROVE  ProtocolInv'
  <2>1. (ControlInv /\ WrittenInv)'
      BY <1>8 DEF RollbackIncomplete, ControlInv, WrittenInv, Leave, Exists,
         Saved, fs
  <2>2. ASSUME CanLink PROVE LinkInv'
      BY <1>8, <2>2 DEF LinkInv, RollbackIncomplete, SnapshotInv, AliasInv,
         PreparedInv, UndoInv, Leave, Firm, Sound, Exists, Saved, fs, ghosts
  <2> QED BY <2>1, <2>2 DEF ProtocolInv
<1> QED BY <1>1, <1>2, <1>3, <1>4, <1>5, <1>6, <1>7, <1>8 DEF RollingBack

\* The reconciliation.
LEMMA ReconcilingInv ==
    ASSUME TypeOK, ControlInv, WrittenInv, CanLink => LinkInv,
           Reconciling
    PROVE  ProtocolInv'
<1>1. ASSUME AcceptCurrent
     PROVE  ProtocolInv'
  <2>1. (ControlInv /\ WrittenInv)'
      BY <1>1 DEF AcceptCurrent, ControlInv, WrittenInv, Discard, Exists,
         Saved, NoEntries
  <2>2. ASSUME CanLink PROVE LinkInv'
      BY <1>1, <2>2 DEF LinkInv, AcceptCurrent, SnapshotInv, AliasInv,
         PreparedInv, UndoInv, Discard
  <2> QED BY <2>1, <2>2 DEF ProtocolInv
<1>2. ASSUME NEW deleteNew \in BOOLEAN, RestoreSnapshot(deleteNew)
     PROVE  ProtocolInv'
  <2>1. (ControlInv /\ WrittenInv)'
      BY <1>2 DEF RestoreSnapshot, ControlInv, WrittenInv, Exists, Saved, fs,
         ghosts
  <2>2. ASSUME CanLink PROVE LinkInv'
    <3>1. (SnapshotInv /\ AliasInv)'
        BY <1>2, <2>2 DEF LinkInv, RestoreSnapshot, SnapshotInv, AliasInv
    <3>2. PreparedInv'
        BY <1>2, <2>2 DEF LinkInv, RestoreSnapshot, PreparedInv, Firm, Sound,
           Exists, Saved, fs, ghosts
    <3>3. UndoInv'
        BY <1>2, <2>2 DEF LinkInv, RestoreSnapshot, UndoInv, ControlInv,
           PreparedInv, ChangedOrMissing, Unchanged, NewFiles, Firm, Sound,
           Exists, Saved, Bytes, NoEntries, fs, ghosts
    <3> QED BY <3>1, <3>2, <3>3 DEF LinkInv
  <2> QED BY <2>1, <2>2 DEF ProtocolInv
<1>3. ASSUME NEW p \in Path, ResolveFile(p)
     PROVE  ProtocolInv'
  <2>1. ControlInv'
      BY <1>3 DEF ResolveFile, ControlInv
  <2>2. WrittenInv'
      BY <1>3, SentinelAssumption, FreeInode DEF ResolveFile, WrittenInv,
         TypeOK, PutBack, Replace, Exists, Saved
  <2>3. ASSUME CanLink PROVE LinkInv'
    <3>1. (SnapshotInv /\ AliasInv)'
        BY <1>3, <2>3 DEF LinkInv, ResolveFile, SnapshotInv, AliasInv
    <3>2. PreparedInv'
        BY <1>3, <2>3 DEF LinkInv, ResolveFile, PreparedInv, UndoInv, TypeOK,
           PutBack, Firm, Sound, Exists, Saved
    <3>3. UndoInv'
        BY <1>3, <2>3 DEF LinkInv, ResolveFile, UndoInv, PreparedInv, TypeOK,
           PutBack, Firm, Exists, Bytes
    <3> QED BY <3>1, <3>2, <3>3 DEF LinkInv
  <2> QED BY <2>1, <2>2, <2>3 DEF ProtocolInv
<1>4. ASSUME NEW p \in Path, ResolveMissing(p)
     PROVE  ProtocolInv'
  <2>1. (ControlInv /\ WrittenInv)'
      BY <1>4 DEF ResolveMissing, ControlInv, WrittenInv, Leave, Exists,
         Saved, fs, ghosts
  <2>2. ASSUME CanLink PROVE LinkInv'
      BY <1>4, <2>2 DEF LinkInv, ResolveMissing, SnapshotInv, AliasInv,
         PreparedInv, UndoInv, Leave, Firm, Sound, Exists, Saved, fs, ghosts
  <2> QED BY <2>1, <2>2 DEF ProtocolInv
<1>5. ASSUME NEW p \in Path, ResolveDelete(p)
     PROVE  ProtocolInv'
  <2>1. (ControlInv /\ WrittenInv)'
      BY <1>5 DEF ResolveDelete, ControlInv, WrittenInv, Exists, Saved
  <2>2. ASSUME CanLink PROVE LinkInv'
    <3>1. (SnapshotInv /\ AliasInv)'
        BY <1>5, <2>2 DEF LinkInv, ResolveDelete, SnapshotInv, AliasInv
    <3>2. PreparedInv'
        BY <1>5, <2>2 DEF LinkInv, ResolveDelete, PreparedInv, UndoInv,
           TypeOK, Firm, Sound, Exists, Saved
    <3>3. UndoInv'
        BY <1>5, <2>2 DEF LinkInv, ResolveDelete, UndoInv, PreparedInv, Firm,
           Exists, Bytes
    <3> QED BY <3>1, <3>2, <3>3 DEF LinkInv
  <2> QED BY <2>1, <2>2 DEF ProtocolInv
<1>6. ASSUME ResolveDone
     PROVE  ProtocolInv'
  <2>1. (ControlInv /\ WrittenInv)'
      BY <1>6 DEF ResolveDone, ControlInv, WrittenInv, Discard, Leave, Exists,
         Saved, NoEntries
  <2>2. ASSUME CanLink PROVE LinkInv'
      BY <1>6, <2>2 DEF LinkInv, ResolveDone, SnapshotInv, AliasInv,
         PreparedInv, UndoInv, Discard, Leave
  <2> QED BY <2>1, <2>2 DEF ProtocolInv
<1> QED BY <1>1, <1>2, <1>3, <1>4, <1>5, <1>6 DEF Reconciling, Resolving

\* What others do to the vault, at any time.
LEMMA OutsideInv ==
    ASSUME TypeOK, ControlInv, WrittenInv, CanLink => LinkInv,
           Outside
    PROVE  ProtocolInv'
<1>1. ASSUME NEW p \in Path, NEW c \in Content, ExtSave(p, c)
     PROVE  ProtocolInv'
  <2>1. ControlInv'
      BY <1>1 DEF ExtSave, ControlInv, control
  <2>2. WrittenInv'
      BY <1>1 DEF ExtSave, WrittenInv, Exists, Saved
  <2>3. ASSUME CanLink PROVE LinkInv'
    <3>1. SnapshotInv'
        BY <1>1, <2>3, SentinelAssumption DEF LinkInv, ExtSave, SnapshotInv,
           ControlInv, TypeOK, Original, Firm, Sound, Stable, Exists, Saved,
           control
    <3>2. AliasInv'
        BY <1>1, <2>3 DEF LinkInv, ExtSave, AliasInv, Stable, Exists, Saved,
           control
    <3>3. PreparedInv'
        BY <1>1, <2>3, SentinelAssumption DEF LinkInv, ExtSave, PreparedInv,
           TypeOK, Original, Firm, Sound, Exists, Saved, control
    <3>4. UndoInv'
        BY <1>1, <2>3 DEF LinkInv, ExtSave, UndoInv, TypeOK, Original,
           LeftAlone, Firm, Exists, Bytes, control
    <3> QED BY <3>1, <3>2, <3>3, <3>4 DEF LinkInv
  <2> QED BY <2>1, <2>2, <2>3 DEF ProtocolInv
<1>2. ASSUME NEW p \in Path, NEW c \in Content, ExtReplace(p, c)
     PROVE  ProtocolInv'
  <2>1. ControlInv'
      BY <1>2 DEF ExtReplace, ControlInv, Disowned, control
  <2>2. WrittenInv'
      BY <1>2, FreeInode DEF ExtReplace, WrittenInv, TypeOK, Replace, Exists,
         Saved
  <2>3. ASSUME CanLink PROVE LinkInv'
    <3>1. SnapshotInv'
        BY <1>2, <2>3, SentinelAssumption, FreeInode DEF LinkInv, ExtReplace,
           SnapshotInv, TypeOK, Replace, Disowned, Firm, Sound, Stable,
           Exists, Saved, control
    <3>2. AliasInv'
        BY <1>2, <2>3, FreeInode DEF LinkInv, ExtReplace, AliasInv, Replace,
           Disowned, Stable, Exists, Saved, control
    <3>3. PreparedInv'
        BY <1>2, <2>3, SentinelAssumption, FreeInode DEF LinkInv, ExtReplace,
           PreparedInv, TypeOK, Replace, Disowned, Firm, Sound, Exists, Saved,
           control
    <3>4. UndoInv'
        BY <1>2, <2>3, FreeInode DEF LinkInv, ExtReplace, UndoInv, TypeOK,
           Replace, Disowned, Firm, Exists, Bytes, control
    <3> QED BY <3>1, <3>2, <3>3, <3>4 DEF LinkInv
  <2> QED BY <2>1, <2>2, <2>3 DEF ProtocolInv
<1>3. ASSUME NEW p \in Path, ExtDelete(p)
     PROVE  ProtocolInv'
  <2>1. (ControlInv /\ WrittenInv)'
      BY <1>3 DEF ExtDelete, ControlInv, WrittenInv, Disowned, Exists, Saved,
         control
  <2>2. ASSUME CanLink PROVE LinkInv'
    <3>1. SnapshotInv'
        BY <1>3, <2>2, SentinelAssumption DEF LinkInv, ExtDelete, SnapshotInv,
           TypeOK, Disowned, Firm, Sound, Stable, Exists, Saved, control
    <3>2. AliasInv'
        BY <1>3, <2>2 DEF LinkInv, ExtDelete, AliasInv, Disowned, Stable,
           Exists, Saved, control
    <3>3. PreparedInv'
        BY <1>3, <2>2, SentinelAssumption DEF LinkInv, ExtDelete, PreparedInv,
           TypeOK, Disowned, Firm, Sound, Exists, Saved, control
    <3>4. UndoInv'
        BY <1>3, <2>2 DEF LinkInv, ExtDelete, UndoInv, TypeOK, Disowned, Firm,
           Exists, Bytes, control
    <3> QED BY <3>1, <3>2, <3>3, <3>4 DEF LinkInv
  <2> QED BY <2>1, <2>2 DEF ProtocolInv
<1>4. ASSUME NEW p \in Path, SnapshotLost(p)
     PROVE  ProtocolInv'
  <2>1. (ControlInv /\ WrittenInv)'
      BY <1>4 DEF SnapshotLost, ControlInv, WrittenInv, Exists, Saved, control
  <2>2. ASSUME CanLink PROVE LinkInv'
    <3>1. SnapshotInv'
        BY <1>4, <2>2 DEF LinkInv, SnapshotLost, SnapshotInv, Firm, Sound,
           Stable, Exists, Saved, control
    <3>2. AliasInv'
        BY <1>4, <2>2 DEF LinkInv, SnapshotLost, AliasInv, Stable, Exists,
           Saved, control
    <3>3. PreparedInv'
        BY <1>4, <2>2 DEF LinkInv, SnapshotLost, PreparedInv, Firm, Sound,
           Exists, Saved, control
    <3>4. UndoInv'
        BY <1>4, <2>2 DEF LinkInv, SnapshotLost, UndoInv, Firm, Exists, Bytes,
           control
    <3> QED BY <3>1, <3>2, <3>3, <3>4 DEF LinkInv
  <2> QED BY <2>1, <2>2 DEF ProtocolInv
<1>5. ASSUME EmptyRolledBack
     PROVE  ProtocolInv'
  <2>1. (ControlInv /\ WrittenInv)'
      BY <1>5 DEF EmptyRolledBack, ControlInv, WrittenInv, Exists, Saved,
         control, ghosts
  <2>2. ASSUME CanLink PROVE LinkInv'
    <3>1. SnapshotInv'
        BY <1>5, <2>2 DEF LinkInv, EmptyRolledBack, SnapshotInv, Firm, Sound,
           Stable, Exists, Saved, control, ghosts
    <3>2. AliasInv'
        BY <1>5, <2>2 DEF LinkInv, EmptyRolledBack, AliasInv, Stable, Exists,
           Saved, control, ghosts
    <3>3. PreparedInv'
        BY <1>5, <2>2 DEF LinkInv, EmptyRolledBack, PreparedInv, Firm, Sound,
           Exists, Saved, control, ghosts
    <3>4. UndoInv'
        BY <1>5, <2>2 DEF LinkInv, EmptyRolledBack, UndoInv, Firm, Exists,
           Bytes, control, ghosts
    <3> QED BY <3>1, <3>2, <3>3, <3>4 DEF LinkInv
  <2> QED BY <2>1, <2>2 DEF ProtocolInv
<1> QED BY <1>1, <1>2, <1>3, <1>4, <1>5 DEF Outside

\* A crash of the holder.
LEMMA CrashInv ==
    ASSUME TypeOK, ControlInv, WrittenInv, CanLink => LinkInv, Crash
    PROVE  ProtocolInv'
<1>1. (ControlInv /\ WrittenInv)'
    BY DEF Crash, ControlInv, WrittenInv, Leave, Exists, Saved, fs, ghosts
<1>2. ASSUME CanLink PROVE LinkInv'
    BY <1>2 DEF LinkInv, Crash, SnapshotInv, AliasInv, PreparedInv, UndoInv,
       Leave, Firm, Sound, Exists, Saved, fs, ghosts
<1> QED BY <1>1, <1>2 DEF ProtocolInv

\* Every step keeps the invariant.
LEMMA NextInv == IInv /\ [Next]_vars => IInv'
<1> SUFFICES ASSUME TypeOK, ControlInv, WrittenInv, CanLink => LinkInv, [Next]_vars
             PROVE  ProtocolInv'
    BY NextType DEF IInv, ProtocolInv
<1>1. CASE UNCHANGED vars
    BY <1>1 DEF vars, fs, control, ghosts, ProtocolInv, ControlInv, WrittenInv, LinkInv, SnapshotInv, AliasInv,
       PreparedInv, UndoInv, Firm, Sound, Stable, Exists, Saved, Bytes
<1> QED
    BY <1>1, BeginInv, SnapshottingInv, BodyInv, RollingBackInv, ReconcilingInv, CrashInv, OutsideInv
    DEF Next

(* What every reachable state satisfies, with any number of files and       *)
(* crashes, and outsiders at work all the time.                             *)
THEOREM Inductive == Spec => []IInv
BY InitInv, NextInv, PTL DEF Spec

----------------------------------------------------------------------------
(* The safety properties.                                                   *)

(* The before-state can be recovered at every moment of a prepared journal. *)
THEOREM BeforeStateIsRecoverable == Spec => []BeforeStateRecoverable
<1>1. IInv => BeforeStateRecoverable
    BY SentinelAssumption DEF IInv, ProtocolInv, LinkInv, TypeOK, PreparedInv, BeforeStateRecoverable, Known, Firm, Sound,
       Saved
<1> QED
    BY <1>1, Inductive, PTL

(* A rollback that reports success restored every path to what it held      *)
(* before the transaction, and kept what editors saved in place.            *)
THEOREM RollbackIsExact == Spec => []RollbackExact
<1>1. IInv => RollbackExact
    BY SentinelAssumption DEF IInv, ProtocolInv, LinkInv, TypeOK, PreparedInv, UndoInv, ControlInv, RollbackExact,
       RolledBack, Known, Firm, Sound, Exists, Bytes
<1> QED
    BY <1>1, Inductive, PTL

(* ... and it leaves no file of the failed transaction in the vault, nor a  *)
(* hole where there was a file.                                             *)
THEOREM RollbackIsComplete == Spec => []NoPartialTransaction
<1>1. IInv => NoPartialTransaction
    BY DEF IInv, ProtocolInv, LinkInv, UndoInv, NoPartialTransaction, RolledBack
<1> QED
    BY <1>1, Inductive, PTL

(* kb reconcile --restore-snapshot ends with every file of the before-state *)
(* as it was, however often it crashed and whatever was edited meanwhile.   *)
THEOREM ReconcileIsExact == Spec => []ReconcileExact
<1>1. IInv => ReconcileExact
    BY DEF IInv, ProtocolInv, LinkInv, UndoInv, ReconcileExact, Resolved, Known, Firm
<1> QED
    BY <1>1, Inductive, PTL

----------------------------------------------------------------------------
(* What holds on every filesystem, with hard links or copies.              *)

\* The journal tells the files that were there before from those that were not, and a
\* file the transaction has not changed has the inode that was recorded.
NamesInv ==
    /\ phase = "snapshotting" =>
          /\ \A p \in Path : Firm(p) => Exists(p) /\ Stable(p)
          /\ \A p \in Path : expected[p] = NoContent => ~Exists(p) /\ p \notin todo /\ recorded[p] = NoInode
    /\ journal = "prepared" =>
          /\ \A p \in Path : Firm(p) => recorded[p] # NoInode
          /\ \A p \in Path : expected[p] = NoContent => recorded[p] = NoInode /\ (p \notin touched => ~Exists(p))
    /\ phase \in {"body", "forgotten", "setaside"} =>
          \A p \in Path \ touched : Firm(p) => dir[p] = recorded[p]
    /\ phase = "setaside" => \A p \in todo : recorded[p] = NoInode
    /\ phase = "restoring" =>
          /\ \A p \in todo : recorded[p] # NoInode
          /\ \A p \in todo \ touched : Firm(p) => dir[p] = recorded[p]
    /\ phase = "resolving" /\ journal = "prepared" =>
          /\ \A p \in todo : recorded[p] # NoInode
          /\ \A p \in doomed : recorded[p] = NoInode

NInv == IInv /\ NamesInv

LEMMA BeginNames ==
    ASSUME TypeOK, ControlInv, WrittenInv, NamesInv, Begin \/ Recover \/ Crash \/ Commit \/ Fail
    PROVE  NamesInv'
<1> USE SentinelAssumption DEF NamesInv, Firm, Stable, Exists
<1>1. CASE Begin
    BY <1>1 DEF Begin, NoEntries, Bytes, WrittenInv, ControlInv
<1>2. CASE Recover
    BY <1>2 DEF Recover, Discard, ControlInv
<1>3. CASE Crash
    BY <1>3 DEF Crash, Leave, NoEntries, ControlInv, fs, ghosts
<1>4. CASE Commit
    BY <1>4 DEF Commit, Discard, Leave
<1>5. CASE Fail
    BY <1>5 DEF Fail, ControlInv, fs, ghosts
<1> QED
    BY <1>1, <1>2, <1>3, <1>4, <1>5

LEMMA SnapshottingNames == ASSUME TypeOK, ControlInv, NamesInv, Snapshotting PROVE NamesInv'
<1> USE SentinelAssumption DEF NamesInv, Firm, Stable, Exists, ControlInv, TypeOK, fs, ghosts
<1>1. ASSUME NEW p \in Path, SnapshotStat(p) PROVE NamesInv'
    BY <1>1 DEF SnapshotStat
<1>2. ASSUME NEW p \in Path, SnapshotSkip(p) PROVE NamesInv'
    BY <1>2 DEF SnapshotSkip
<1>3. CASE SnapshotLink
    BY <1>3 DEF SnapshotLink
<1>4. CASE SnapshotDone
    BY <1>4 DEF SnapshotDone
<1>5. CASE SnapshotFail
    BY <1>5 DEF SnapshotFail, Discard, Leave
<1> QED
    BY <1>1, <1>2, <1>3, <1>4, <1>5 DEF Snapshotting

LEMMA BodyNames == ASSUME TypeOK, ControlInv, NamesInv, Body PROVE NamesInv'
<1> USE SentinelAssumption DEF NamesInv, Firm, Exists, ControlInv, TypeOK, control
<1>1. ASSUME NEW p \in Path, Unlink(p) PROVE NamesInv'
    BY <1>1 DEF Unlink, InBody
<1>2. ASSUME NEW p \in Path, NEW c \in Content, Write(p, c) PROVE NamesInv'
    BY <1>2 DEF Write, Writes, InBody, Replace
<1>3. ASSUME NEW p \in Path, NEW q \in Path, MoveLink(p, q) PROVE NamesInv'
    BY <1>3 DEF MoveLink, InBody, Replace
<1>4. CASE MoveUnlink
    BY <1>4 DEF MoveUnlink
<1> QED
    BY <1>1, <1>2, <1>3, <1>4 DEF Body

LEMMA RollingBackNames == ASSUME TypeOK, ControlInv, NamesInv, RollingBack PROVE NamesInv'
<1> USE SentinelAssumption DEF NamesInv, Firm, Exists, ControlInv, TypeOK, fs, ghosts
<1>1. ASSUME NEW p \in Path, SetAside(p) PROVE NamesInv'
    BY <1>1 DEF SetAside
<1>2. ASSUME NEW p \in Path, SetAsideMissing(p) PROVE NamesInv'
    BY <1>2 DEF SetAsideMissing, Leave
<1>3. ASSUME NEW p \in Path, RestoreKeep(p) PROVE NamesInv'
    BY <1>3 DEF RestoreKeep
<1>4. ASSUME NEW p \in Path, RestoreFile(p) PROVE NamesInv'
    BY <1>4 DEF RestoreFile, PutBack, Replace
<1>5. ASSUME NEW p \in Path, RestoreUnavailable(p) PROVE NamesInv'
    BY <1>5 DEF RestoreUnavailable
<1>6. CASE SetAsideDone
    BY <1>6 DEF SetAsideDone
<1>7. CASE RollbackDone
    BY <1>7 DEF RollbackDone, Discard, Leave
<1>8. CASE RollbackIncomplete
    BY <1>8 DEF RollbackIncomplete, Leave
<1> QED
    BY <1>1, <1>2, <1>3, <1>4, <1>5, <1>6, <1>7, <1>8 DEF RollingBack

LEMMA ReconcilingNames == ASSUME TypeOK, ControlInv, NamesInv, Reconciling PROVE NamesInv'
<1> USE SentinelAssumption DEF NamesInv, Firm, Exists, ControlInv, TypeOK, fs, ghosts
<1>1. CASE AcceptCurrent
    BY <1>1 DEF AcceptCurrent, Discard
<1>2. ASSUME NEW deleteNew \in BOOLEAN, RestoreSnapshot(deleteNew) PROVE NamesInv'
    BY <1>2 DEF RestoreSnapshot, ChangedOrMissing, NewFiles
<1>3. ASSUME NEW p \in Path, ResolveFile(p) PROVE NamesInv'
    BY <1>3 DEF ResolveFile, PutBack, Replace
<1>4. ASSUME NEW p \in Path, ResolveMissing(p) PROVE NamesInv'
    BY <1>4 DEF ResolveMissing, Leave
<1>5. ASSUME NEW p \in Path, ResolveDelete(p) PROVE NamesInv'
    BY <1>5 DEF ResolveDelete
<1>6. CASE ResolveDone
    BY <1>6 DEF ResolveDone, Discard, Leave
<1> QED
    BY <1>1, <1>2, <1>3, <1>4, <1>5, <1>6 DEF Reconciling, Resolving

LEMMA OutsideNames == ASSUME TypeOK, ControlInv, NamesInv, Outside PROVE NamesInv'
<1> USE SentinelAssumption DEF NamesInv, Firm, Stable, Exists, ControlInv, TypeOK, fs, control, ghosts
<1>1. ASSUME NEW p \in Path, NEW c \in Content, ExtSave(p, c) PROVE NamesInv'
    <2>1. /\ dir[p] # NoInode /\ dir' = dir /\ c # Unknown /\ c # NoContent
          /\ UNCHANGED <<control, touched, exempt>>
        BY <1>1 DEF ExtSave
    <2>2. \A q \in Path : Firm(q)' => Firm(q) \/ (expected[q] = NoContent /\ Original(q) = dir[p])
        BY <1>1 DEF ExtSave
    <2>3. \A q \in Path : expected'[q] = NoContent => expected[q] = NoContent
        BY <1>1, <2>1 DEF ExtSave
    <2>4. \A q \in Path : Original(q) = dir[p] /\ expected[q] = NoContent =>
              phase # "snapshotting" /\ journal # "prepared"
        BY <2>1 DEF Original
    <2> QED
        BY <2>1, <2>2, <2>3, <2>4
<1>2. ASSUME NEW p \in Path, NEW c \in Content, ExtReplace(p, c) PROVE NamesInv'
    BY <1>2 DEF ExtReplace, Disowned, Replace
<1>3. ASSUME NEW p \in Path, ExtDelete(p) PROVE NamesInv'
    BY <1>3 DEF ExtDelete, Disowned
<1>4. ASSUME NEW p \in Path, SnapshotLost(p) PROVE NamesInv'
    BY <1>4 DEF SnapshotLost
<1>5. CASE EmptyRolledBack
    BY <1>5 DEF EmptyRolledBack
<1> QED
    BY <1>1, <1>2, <1>3, <1>4, <1>5 DEF Outside

LEMMA NamesInductive == Spec => []NInv
<1>1. Init => NamesInv
    BY DEF Init, NamesInv
<1>2. ASSUME IInv, NamesInv, [Next]_vars PROVE NamesInv'
    <2>1. TypeOK /\ ControlInv /\ WrittenInv
        BY <1>2 DEF IInv, ProtocolInv
    <2>2. CASE UNCHANGED vars
        BY <1>2, <2>2 DEF vars, fs, control, ghosts, NamesInv, Firm, Stable, Exists
    <2> QED
        BY <1>2, <2>1, <2>2, BeginNames, SnapshottingNames, BodyNames, RollingBackNames, ReconcilingNames,
           OutsideNames DEF Next
<1> QED
    BY <1>1, <1>2, Inductive, PTL DEF Spec, NInv

(* kb reconcile --delete-new of a finished snapshot picks no file that was  *)
(* there before, with hard links or copies.                                 *)
THEOREM ReconcileDeletesOnlyNewFiles == Spec => []DeletesOnlyNewFiles
<1>1. NInv => DeletesOnlyNewFiles
    BY DEF NInv, IInv, TypeOK, NamesInv, Firm, DeletesOnlyNewFiles
<1> QED
    BY <1>1, NamesInductive, PTL

(* A rollback leaves every file the transaction did not change the inode it *)
(* has, with hard links or copies.                                          *)
THEOREM RollbackKeepsOtherInodes == Spec => RollbackLeavesOthersAlone
<1> DEFINE Alone == \A p \in Path \ touched :
                        phase \in {"setaside", "restoring"} /\ Known(p) =>
                            (dir'[p] = dir[p] \/ expected'[p] = Unknown)
<1>1. ASSUME NInv, [Next]_vars PROVE Alone
    <2> SUFFICES ASSUME NEW q \in Path \ touched, phase \in {"setaside", "restoring"}, Known(q)
                 PROVE  dir'[q] = dir[q] \/ expected'[q] = Unknown
        OBVIOUS
    <2> USE <1>1 DEF NInv, IInv, TypeOK, ProtocolInv, ControlInv, Known, fs, control, ghosts
    <2>1. phase = "setaside" => ~(q \in todo /\ Exists(q))
        BY DEF NamesInv, Firm
    <2>2. phase = "restoring" => ~(q \in todo /\ ~Kept(q))
        BY SentinelAssumption DEF NamesInv, Firm, Kept, Exists
    <2>3. CASE Outside
        BY <2>3 DEF Outside, ExtSave, ExtReplace, ExtDelete, SnapshotLost, EmptyRolledBack, Disowned, Replace
    <2>4. CASE RollingBack
        BY <2>1, <2>2, <2>4 DEF RollingBack, SetAside, SetAsideMissing, RestoreKeep, RestoreFile, RestoreUnavailable,
              SetAsideDone, RollbackDone, RollbackIncomplete, PutBack, Replace
    <2>5. CASE Crash
        BY <2>5 DEF Crash
    <2>6. CASE UNCHANGED vars
        BY <2>6 DEF vars
    <2>7. ~Begin /\ ~Recover /\ ~Snapshotting /\ ~Body /\ ~Commit /\ ~Fail /\ ~Reconciling
        BY DEF Begin, Recover, Snapshotting, SnapshotStat, SnapshotSkip, SnapshotLink, SnapshotDone,
               SnapshotFail, Body, Unlink, Write, Writes, InBody, MoveLink, MoveUnlink, Commit, Fail, Reconciling,
               AcceptCurrent, RestoreSnapshot, Resolving, ResolveFile, ResolveMissing, ResolveDelete, ResolveDone,
               Resolved
    <2> QED
        BY <2>3, <2>4, <2>5, <2>6, <2>7 DEF Next
<1> QED
    BY <1>1, NamesInductive, PTL DEF Spec, RollbackLeavesOthersAlone

----------------------------------------------------------------------------
(* What a rollback may miss.                                               *)

\* Every record has its saved copy, but for what outsiders took or swapped.
SavedInv ==
    /\ phase = "snapshotting" =>
          /\ from \in todo \cup {NoPath}
          /\ \A p \in Path \ exempt : recorded[p] # NoInode => Saved(p) \/ from = p
    /\ journal = "prepared" => \A p \in Path \ exempt : recorded[p] # NoInode => Saved(p)
    /\ unavailable \subseteq exempt
    /\ phase = "free" => unavailable = {}

LEMMA NextSaved == ASSUME NInv, SavedInv, [Next]_vars PROVE SavedInv'
<1> USE SentinelAssumption DEF SavedInv, Saved, NInv, IInv, ProtocolInv, ControlInv, TypeOK
<1>1. CASE Begin
    BY <1>1 DEF Begin, NoEntries
<1>2. CASE Recover \/ Commit
    BY <1>2 DEF Recover, Commit, Discard, Leave
<1>3. ASSUME NEW p \in Path, SnapshotStat(p) \/ SnapshotSkip(p)
      PROVE  SavedInv'
    BY <1>3 DEF SnapshotStat, SnapshotSkip, fs, ghosts
<1>4. CASE SnapshotLink
    <2>1. from \in Path /\ phase = "snapshotting" /\ UNCHANGED <<journal, phase, recorded, exempt, unavailable>>
        BY <1>4 DEF SnapshotLink, ghosts
    <2>2. CASE CanLink
        BY <1>4, <2>1, <2>2 DEF SnapshotLink, Exists
    <2>3. CASE ~CanLink
        <3>1. PICK i \in Free : snap' = [snap EXCEPT ![from] = i]
            BY <1>4, <2>3 DEF SnapshotLink
        <3>2. i \in Inode
            BY FreeInode
        <3> QED
            BY <1>4, <2>1, <3>1, <3>2 DEF SnapshotLink
    <2> QED
        BY <2>2, <2>3
<1>5. CASE SnapshotDone \/ SnapshotFail
    BY <1>5 DEF SnapshotDone, SnapshotFail, Discard, Leave, fs, ghosts
<1>6. CASE Body \/ Fail
    <2>1. phase \in {"body", "forgotten"} /\ phase' # "snapshotting" /\ phase' # "free"
        BY <1>6 DEF Body, Fail, Unlink, Write, Writes, MoveLink, MoveUnlink, InBody, control
    <2>2. UNCHANGED <<snap, journal, recorded, unavailable, exempt>>
        BY <1>6 DEF Body, Fail, Unlink, Write, MoveLink, MoveUnlink, control, fs, ghosts
    <2> QED
        BY <2>1, <2>2
<1>7. CASE RollingBack
    <2>1. ASSUME NEW p \in Path, SetAside(p) \/ SetAsideMissing(p) \/ RestoreKeep(p) \/ RestoreUnavailable(p)
          PROVE  SavedInv'
        BY <2>1 DEF SetAside, SetAsideMissing, RestoreKeep, RestoreUnavailable, NamesInv, Leave, fs, ghosts
    <2>2. ASSUME NEW p \in Path, RestoreFile(p)
          PROVE  SavedInv'
        BY <2>2 DEF RestoreFile
    <2>3. CASE SetAsideDone \/ RollbackDone \/ RollbackIncomplete
        BY <2>3 DEF SetAsideDone, RollbackDone, RolledBack, RollbackIncomplete, Discard, Leave, fs, ghosts
    <2> QED
        BY <1>7, <2>1, <2>2, <2>3 DEF RollingBack
<1>8. CASE Reconciling
    <2>1. ASSUME NEW p \in Path, ResolveFile(p) \/ ResolveMissing(p) \/ ResolveDelete(p)
          PROVE  SavedInv'
        BY <2>1 DEF ResolveFile, ResolveMissing, ResolveDelete, Leave, fs, ghosts
    <2>2. CASE AcceptCurrent \/ ResolveDone \/ \E d \in BOOLEAN : RestoreSnapshot(d)
        BY <2>2 DEF AcceptCurrent, ResolveDone, Resolved, RestoreSnapshot, Discard, Leave, fs, ghosts
    <2> QED
        BY <1>8, <2>1, <2>2 DEF Reconciling, Resolving
<1>9. CASE Outside
    <2>1. ASSUME NEW p \in Path, SnapshotLost(p)
          PROVE  SavedInv'
        BY <2>1 DEF SnapshotLost, control
    <2>2. ASSUME NEW p \in Path, NEW c \in Content, ExtSave(p, c) \/ ExtReplace(p, c)
          PROVE  SavedInv'
        BY <2>2 DEF ExtSave, ExtReplace, control
    <2>3. ASSUME NEW p \in Path, ExtDelete(p) \/ EmptyRolledBack
          PROVE  SavedInv'
        BY <2>3 DEF ExtDelete, EmptyRolledBack, control, ghosts
    <2>4. CASE EmptyRolledBack
        BY <2>4 DEF EmptyRolledBack, control, ghosts
    <2> QED
        BY <1>9, <2>1, <2>2, <2>3, <2>4 DEF Outside
<1>10. CASE Crash
    BY <1>10 DEF Crash, Leave, NoEntries, fs, ghosts
<1>11. CASE UNCHANGED vars
    BY <1>11 DEF vars, fs, control, ghosts
<1> QED
    BY <1>1, <1>2, <1>3, <1>4, <1>5, <1>6, <1>7, <1>8, <1>9, <1>10, <1>11 DEF Next, Snapshotting

(* A rollback finds every before-state it looks for, unless somebody took   *)
(* it out of .kb-transactions/ or put another file under the name between   *)
(* its stat and its link: what vanished before it was linked is not looked  *)
(* for.                                                                     *)
THEOREM RollbackMissesOnlyWhatWasLost == Spec => []MissesOnlyWhatWasLost
<1>1. Init => SavedInv
    BY DEF Init, SavedInv
<1>2. SavedInv => MissesOnlyWhatWasLost
    BY DEF SavedInv, MissesOnlyWhatWasLost
<1> QED
    BY <1>1, <1>2, NamesInductive, NextSaved, PTL DEF Spec

----------------------------------------------------------------------------
\* A step of the abstract vault, or none.
Step == Abstract!Next \/ UNCHANGED <<Logical, Mode>>

----------------------------------------------------------------------------
(* The transaction implements AtomicVault, for any number of files, on     *)
(* filesystems with hard links: the refinement mapping.                    *)

\* Before the snapshot is complete the KB has changed nothing, and may only
\* have deleted (kb reconcile --delete-new of an unfinished snapshot).
PreparingInv ==
    journal = "snapshotting" =>
        \A p \in Path : Exists(p) /\ expected[p] # Unknown => data[dir[p]] = expected[p]

RInv == IInv /\ PreparingInv

\* Steps that change no names, or only those of uncommitted files, do not show.
LEMMA Hidden ==
    ASSUME journal # "absent", journal' = journal, expected' = expected, exempt' = exempt,
           journal = "prepared" \/ dir' = dir
    PROVE  Logical' = Logical
BY DEF Logical, Exists

\* Without a journal the vault is what its files hold, and that is settled.
LEMMA Visible ==
    ASSUME IInv', journal' = "absent"
    PROVE  Logical' = [p \in Path |-> Bytes(p)'] /\ Logical' \in Abstract!Settled
<1>1. \A p \in Path : Bytes(p)' \in Content \cup {NoContent}
    BY DEF IInv, ProtocolInv, WrittenInv, Bytes, Exists
<1> QED
    BY <1>1 DEF Logical, Abstract!Settled

\* A snapshot that is given up leaves the vault as it was.
LEMMA Abandoned ==
    ASSUME RInv, IInv', journal = "snapshotting", journal' = "absent", UNCHANGED <<dir, data>>
    PROVE  Abstract!Keeps
<1>1. \A p \in Path : Logical[p] # Unknown => Logical[p] = Bytes(p)
    BY DEF Logical, RInv, PreparingInv, Bytes, Exists
<1>2. \A p \in Path : Bytes(p)' = Bytes(p)
    BY DEF Bytes, Exists
<1> QED
    BY <1>1, <1>2, Visible DEF Abstract!Keeps

\* What the journal protects.
LEMMA Protected ==
    ASSUME journal = "prepared"
    PROVE  Logical = [p \in Path |-> IF p \in exempt THEN Unknown ELSE expected[p]]
BY DEF Logical

----------------------------------------------------------------------------
(* One lemma per group of actions.                                         *)

\* Opening a transaction, and discarding one that never got that far.
LEMMA BeginStep ==
    ASSUME RInv, IInv', CanLink, Begin \/ Recover
    PROVE  Step
<1>1. CASE Begin
    <2>1. /\ journal \in {"absent", "snapshotting"} /\ journal' = "snapshotting"
          /\ dir' = dir /\ expected' = [p \in Path |-> Bytes(p)]
        BY <1>1 DEF Begin, Unblocked, RInv, IInv, TypeOK, Journals
    <2>2. Mode \in {"idle", "preparing"} /\ Mode' = "preparing"
        BY <2>1 DEF Mode
    <2>3. \A p \in Path : Bytes(p) \in Content \cup {NoContent}
        BY DEF RInv, IInv, ProtocolInv, WrittenInv, Bytes, Exists
    <2>4. \A p \in Path : Logical'[p] = Bytes(p)
        BY <2>1, SentinelAssumption DEF Logical, Bytes, Exists
    <2>5. \A p \in Path : Logical[p] # Unknown => Logical[p] = Bytes(p)
        BY <2>1 DEF Logical, RInv, PreparingInv, Bytes, Exists
    <2>6. Logical' = [p \in Path |-> Logical'[p]]
        BY DEF Logical
    <2>7. Abstract!Keeps
        BY <2>3, <2>4, <2>5, <2>6 DEF Abstract!Keeps, Abstract!Settled
    <2> QED
        BY <2>2, <2>7 DEF Step, Abstract!Next, Abstract!Begin, Abstract!Moves
<1>2. CASE Recover
    <2>1. journal = "snapshotting" /\ journal' = "absent" /\ UNCHANGED <<dir, data>>
        BY <1>2 DEF Recover, Discard
    <2>2. Mode = "preparing" /\ Mode' = "idle"
        BY <2>1 DEF Mode
    <2> QED
        BY <2>1, <2>2, Abandoned DEF Step, Abstract!Next, Abstract!Abandon, Abstract!Moves
<1> QED
    BY <1>1, <1>2

\* Taking the snapshot.
LEMMA SnapshottingStep ==
    ASSUME RInv, IInv', CanLink, Snapshotting
    PROVE  Step
<1>1. phase = "snapshotting" /\ journal = "snapshotting" /\ Mode = "preparing"
    BY DEF Snapshotting, SnapshotStat, SnapshotSkip, SnapshotLink, SnapshotDone,
       SnapshotFail, RInv, IInv, ProtocolInv, ControlInv, Mode
<1>2. CASE SnapshotDone
    <2>1. journal' = "prepared" /\ Mode' = "open" /\ UNCHANGED <<dir, expected, exempt>>
        BY <1>2 DEF SnapshotDone, Mode, fs, ghosts
    <2>2. \A p \in Path : Firm(p) => Exists(p)
        BY <1>1 DEF RInv, IInv, ProtocolInv, LinkInv, SnapshotInv
    <2>3. \A p \in Path : Logical[p] = expected[p]
        BY <1>1, <2>2 DEF Logical, Firm
    <2>4. \A p \in Path : Logical'[p] \in {Logical[p], Unknown}
        BY <2>1, <2>3 DEF Logical
    <2>5. Logical' \in [Path -> Content \cup {NoContent, Unknown}]
        BY <2>1 DEF Logical, RInv, IInv, TypeOK
    <2> QED
        BY <1>1, <2>1, <2>4, <2>5 DEF Step, Abstract!Next, Abstract!Prepare, Abstract!Moves
<1>3. CASE SnapshotFail
    <2>1. journal' = "absent" /\ UNCHANGED <<dir, data>> /\ Mode' = "idle"
        BY <1>3 DEF SnapshotFail, Discard, Mode
    <2> QED
        BY <1>1, <2>1, Abandoned DEF Step, Abstract!Next, Abstract!Abandon, Abstract!Moves
<1>4. CASE SnapshotLink \/ \E p \in Path : SnapshotStat(p) \/ SnapshotSkip(p)
    <2>1. UNCHANGED <<dir, journal, expected, exempt>>
        BY <1>4 DEF SnapshotLink, SnapshotStat, SnapshotSkip, fs, ghosts
    <2> QED
        BY <1>1, <2>1, Hidden DEF Step, Mode
<1> QED
    BY <1>2, <1>3, <1>4 DEF Snapshotting

\* The body writes nothing anybody is promised, until it commits.
LEMMA BodyStep ==
    ASSUME RInv, IInv', CanLink, Body \/ Commit \/ Fail
    PROVE  Step
<1>1. phase \in {"body", "forgotten"} /\ journal = "prepared" /\ Mode = "open"
    BY DEF Body, Write, Writes, Unlink, MoveLink, MoveUnlink, Commit, Fail, InBody, RInv, IInv, ProtocolInv,
       ControlInv, Mode
<1>2. CASE Body
    <2>1. UNCHANGED <<journal, expected, exempt>> /\ phase' \in {"body", "forgotten"}
        BY <1>1, <1>2 DEF Body, Write, Unlink, MoveLink, MoveUnlink, control
    <2> QED
        BY <1>1, <2>1, Hidden DEF Step, Mode
<1>3. CASE Commit
    <2>1. journal' = "absent" /\ Mode' = "idle"
        BY <1>3 DEF Commit, Discard, Mode
    <2> QED
        BY <1>1, <2>1, Visible DEF Step, Abstract!Next, Abstract!Commit, Abstract!Moves
<1>4. CASE Fail
    <2>1. UNCHANGED <<journal, expected, exempt>> /\ phase' = "setaside"
        BY <1>4 DEF Fail, ghosts
    <2> QED
        BY <1>1, <2>1, Hidden DEF Step, Mode, Abstract!Next, Abstract!Fail, Abstract!Moves
<1> QED
    BY <1>2, <1>3, <1>4

\* A rollback shows nothing, and ends with what was there.
LEMMA RollingBackStep ==
    ASSUME RInv, IInv', CanLink, RollingBack
    PROVE  Step
<1>1. phase \in {"setaside", "restoring"} /\ journal = "prepared" /\ Mode = "undoing"
    BY DEF RollingBack, SetAside, SetAsideMissing, RestoreKeep, RestoreFile, RestoreUnavailable,
       SetAsideDone, RollbackDone, RolledBack, RollbackIncomplete, RInv, IInv, ProtocolInv, ControlInv, Mode
<1>2. CASE RollbackDone
    <2>1. journal' = "absent" /\ Mode' = "idle" /\ UNCHANGED <<dir, data>>
        BY <1>2 DEF RollbackDone, Discard, Mode
    <2>2. \A p \in Path : p \notin exempt /\ expected[p] # Unknown => Bytes(p) = expected[p]
        BY <1>2, SentinelAssumption DEF RollbackDone, RInv, IInv, ProtocolInv, LinkInv, TypeOK, PreparedInv,
           UndoInv, ControlInv, RolledBack, Firm, Sound, Exists, Bytes
    <2>3. \A p \in Path : Logical[p] # Unknown => Logical'[p] = Logical[p]
        BY <1>1, <2>1, <2>2 DEF Logical, Bytes, Exists
    <2> QED
        BY <1>1, <2>1, <2>3, Visible DEF Step, Abstract!Next, Abstract!Undo, Abstract!Moves, Abstract!Keeps
<1>3. CASE RollbackIncomplete \/ \E p \in Path : SetAsideMissing(p)
    <2>1. UNCHANGED <<journal, expected, exempt>> /\ phase' = "free"
        BY <1>3 DEF RollbackIncomplete, SetAsideMissing, Leave, ghosts
    <2> QED
        BY <1>1, <2>1, Hidden DEF Step, Mode, Abstract!Next, Abstract!Interrupt, Abstract!Moves
<1>4. CASE \/ SetAsideDone
           \/ \E p \in Path : SetAside(p) \/ RestoreKeep(p) \/ RestoreFile(p) \/ RestoreUnavailable(p)
    <2>1. UNCHANGED <<journal, expected, exempt>> /\ phase' \in {"setaside", "restoring"}
        BY <1>1, <1>4 DEF SetAsideDone, SetAside, RestoreKeep, RestoreFile, RestoreUnavailable, ghosts
    <2> QED
        BY <1>1, <2>1, Hidden DEF Step, Mode
<1> QED
    BY <1>2, <1>3, <1>4 DEF RollingBack

\* Reconciliation, of a prepared journal or of one that never was.
LEMMA ReconcilingStep ==
    ASSUME RInv, IInv', CanLink, Reconciling
    PROVE  Step
<1>1. CASE AcceptCurrent
    <2>1. phase = "free" /\ journal \in {"snapshotting", "prepared"} /\ journal' = "absent"
          /\ UNCHANGED <<dir, data>> /\ Mode' = "idle"
        BY <1>1 DEF AcceptCurrent, Discard, Mode, RInv, IInv, TypeOK, Journals
    <2>2. CASE journal = "prepared"
        <3>1. Mode = "interrupted"
            BY <2>1, <2>2 DEF Mode
        <3> QED
            BY <2>1, <3>1, Visible DEF Step, Abstract!Next, Abstract!Accept, Abstract!Moves
    <2>3. CASE journal = "snapshotting"
        <3>1. Mode = "preparing"
            BY <2>1, <2>3 DEF Mode
        <3> QED
            BY <2>1, <2>3, <3>1, Abandoned DEF Step, Abstract!Next, Abstract!Abandon, Abstract!Moves
    <2> QED
        BY <2>1, <2>2, <2>3
<1>2. CASE \E deleteNew \in BOOLEAN : RestoreSnapshot(deleteNew)
    <2>1. phase = "free" /\ phase' = "resolving" /\ journal \in {"snapshotting", "prepared"}
          /\ UNCHANGED <<journal, dir, data, expected, exempt>>
        BY <1>2 DEF RestoreSnapshot, RInv, IInv, TypeOK, Journals, fs, ghosts
    <2> QED
        BY <2>1, Hidden DEF Step, Mode, Abstract!Next, Abstract!Reconcile, Abstract!Moves
<1>3. CASE ResolveDone
    <2>1. phase = "resolving" /\ journal \in {"snapshotting", "prepared"} /\ journal' = "absent"
          /\ UNCHANGED <<dir, data>> /\ Mode' = "idle"
        BY <1>3 DEF ResolveDone, Resolved, Discard, Mode, RInv, IInv, TypeOK, Journals, ProtocolInv, ControlInv
    <2>2. CASE journal = "prepared"
        <3>1. Mode = "restoring"
            BY <2>1, <2>2 DEF Mode
        <3>2. \A p \in Path \ exempt : Firm(p) => Bytes(p) = expected[p]
            BY <1>3, <2>2 DEF ResolveDone, Resolved, RInv, IInv, ProtocolInv, LinkInv, UndoInv
        <3>3. \A p \in Path : Logical[p] \in Content => p \notin exempt /\ Firm(p) /\ Logical[p] = expected[p]
            BY <2>2, SentinelAssumption, Protected DEF Firm
        <3>4. \A p \in Path : Logical[p] \in Content => Logical'[p] = Logical[p]
            BY <2>1, <3>2, <3>3 DEF Logical, Bytes, Exists
        <3> QED
            BY <2>1, <3>1, <3>4, Visible DEF Step, Abstract!Next, Abstract!Restore, Abstract!Moves
    <2>3. CASE journal = "snapshotting"
        <3>1. Mode = "preparing"
            BY <2>1, <2>3 DEF Mode
        <3> QED
            BY <2>1, <2>3, <3>1, Abandoned DEF Step, Abstract!Next, Abstract!Abandon, Abstract!Moves
    <2> QED
        BY <2>1, <2>2, <2>3
<1>4. ASSUME NEW p \in Path, ResolveFile(p) \/ ResolveMissing(p)
      PROVE  Step
    <2>1. phase = "resolving" /\ journal = "prepared" /\ UNCHANGED <<journal, expected, exempt>>
          /\ phase' \in {"resolving", "free"}
        BY <1>4 DEF ResolveFile, ResolveMissing, Leave, RInv, IInv, TypeOK, Journals, ProtocolInv, ControlInv,
           LinkInv, UndoInv, ghosts
    <2> QED
        BY <2>1, Hidden DEF Step, Mode, Abstract!Next, Abstract!Interrupt, Abstract!Moves
<1>5. ASSUME NEW p \in Path, ResolveDelete(p)
      PROVE  Step
    <2>1. phase = "resolving" /\ journal \in {"snapshotting", "prepared"} /\ dir' = [dir EXCEPT ![p] = NoInode]
          /\ UNCHANGED <<journal, data, expected, exempt, phase>>
        BY <1>5 DEF ResolveDelete, RInv, IInv, TypeOK, Journals, ProtocolInv, ControlInv
    <2>2. CASE journal = "prepared"
        BY <2>1, <2>2, Hidden DEF Step, Mode
    <2>3. CASE journal = "snapshotting"
        <3>1. Mode = "preparing" /\ Mode' = Mode
            BY <2>1, <2>3 DEF Mode
        <3>2. Logical' \in {Logical, [Logical EXCEPT ![p] = NoContent]}
            BY <2>1, <2>3 DEF Logical, Exists, RInv, IInv, TypeOK
        <3> QED
            BY <3>1, <3>2 DEF Step, Abstract!Next, Abstract!Purge
    <2> QED
        BY <2>1, <2>2, <2>3
<1> QED
    BY <1>1, <1>2, <1>3, <1>4, <1>5 DEF Reconciling, Resolving

\* A crash interrupts, and shows nothing.
LEMMA CrashStep ==
    ASSUME RInv, IInv', CanLink, Crash
    PROVE  Step
<1>1. /\ phase # "free" /\ phase' = "free" /\ journal # "absent"
      /\ UNCHANGED <<dir, journal, expected, exempt>>
    BY DEF Crash, Leave, fs, ghosts, RInv, IInv, TypeOK, Phases, ProtocolInv, ControlInv
<1>2. Logical' = Logical
    BY <1>1, Hidden
<1>3. CASE journal = "prepared"
    <2>1. Mode \in {"open", "undoing", "restoring"} /\ Mode' = "interrupted"
        BY <1>1, <1>3 DEF Mode, RInv, IInv, TypeOK, Phases, ProtocolInv, ControlInv
    <2> QED
        BY <1>2, <2>1 DEF Step, Abstract!Next, Abstract!Interrupt, Abstract!Moves
<1>4. CASE journal # "prepared"
    BY <1>1, <1>2, <1>4 DEF Step, Mode, RInv, IInv, TypeOK, Journals
<1> QED
    BY <1>3, <1>4

\* Outsiders edit the vault directly, or a file the snapshot shares.
LEMMA OutsideStep ==
    ASSUME RInv, IInv', CanLink, Outside
    PROVE  Step
<1>1. UNCHANGED <<journal, phase>> /\ Mode' = Mode
    BY DEF Outside, ExtSave, ExtReplace, ExtDelete, SnapshotLost, EmptyRolledBack, control, Mode
<1>2. journal \in {"absent", "snapshotting", "prepared"} /\ (Mode = "idle" <=> journal = "absent")
    BY DEF Mode, RInv, IInv, TypeOK, Journals
<1>3. ASSUME NEW p \in Path, NEW c \in Content, ExtSave(p, c)
      PROVE  Step
    <2>1. Exists(p) /\ dir[p] \in Inode /\ data' = [data EXCEPT ![dir[p]] = c] /\ UNCHANGED <<dir, exempt>>
        BY <1>3 DEF ExtSave, Exists, RInv, IInv, TypeOK
    <2> DEFINE Named == {q \in Path : dir[q] = dir[p]}
               Saves(P, lost) == [q \in Path |-> IF q \in lost THEN Unknown
                                                 ELSE IF q \in P THEN c ELSE Logical[q]]
    <2>2. CASE journal = "absent"
        <3>1. Logical' = [q \in Path |-> IF q \in Named THEN c ELSE Logical[q]]
            BY <1>1, <2>1, <2>2, SentinelAssumption DEF Logical, Bytes, Exists, RInv, IInv, TypeOK
        <3>2. Abstract!Edit(Named, c)
            BY <1>1, <1>2, <2>2, <3>1 DEF Abstract!Edit
        <3> QED
            BY <3>2 DEF Step, Abstract!Next, Abstract!Outside
    <2>3. CASE journal = "snapshotting"
        <3> DEFINE P == {q \in Named : expected[q] # Unknown}
        <3>1. touched = {}
            BY <2>3 DEF RInv, IInv, ProtocolInv, ControlInv
        <3>2. expected' = [q \in Path |-> IF q \in P THEN c ELSE expected[q]]
            BY <1>3, <2>1, <3>1 DEF ExtSave, Original, LeftAlone
        <3>3. \A q \in P : Exists(q)
            BY <2>1 DEF Exists
        <3>4. Logical' = Saves(P, {})
            BY <1>1, <2>1, <2>3, <3>2, <3>3 DEF Logical, Exists
        <3>5. \A q \in P : Logical[q] \in Content
            BY <2>3, <3>3 DEF Logical, RInv, PreparingInv, IInv, ProtocolInv, WrittenInv
        <3>6. Abstract!Save(P, {}, c)
            BY <1>1, <1>2, <2>3, <3>4, <3>5 DEF Abstract!Save
        <3>7. P \in SUBSET Path /\ {} \in SUBSET Path
            OBVIOUS
        <3> QED
            BY <3>6, <3>7 DEF Step, Abstract!Next, Abstract!Outside
    <2>4. CASE journal = "prepared"
        <3> DEFINE P == {q \in Path \ exempt : /\ Original(q) = dir[p]
                                               /\ expected[q] # Unknown}
                   lost == {q \in P \cup (Named \ exempt) : expected[q] # Unknown /\ LeftAlone(q)}
        <3>1. Logical' = Saves(P, lost)
            BY <1>1, <1>3, <2>1, <2>4 DEF Logical, ExtSave
        <3>2. \A q \in P : expected[q] # NoContent
            BY <1>3, <2>1, <2>4, SentinelAssumption DEF Original, RInv, IInv, ProtocolInv, LinkInv,
               PreparedInv, TypeOK, Exists
        <3>3. \A q \in P : Logical[q] \in Content
            BY <2>4, <3>2 DEF Logical, RInv, IInv, TypeOK
        <3>4. lost # {} => Mode = "restoring"
            BY <2>4 DEF LeftAlone, Mode
        <3>5. Abstract!Save(P, lost, c)
            BY <1>1, <1>2, <2>4, <3>1, <3>3, <3>4 DEF Abstract!Save
        <3>6. P \in SUBSET Path /\ lost \in SUBSET Path
            OBVIOUS
        <3> QED
            BY <3>5, <3>6 DEF Step, Abstract!Next, Abstract!Outside
    <2> QED
        BY <1>2, <2>2, <2>3, <2>4
<1>4. ASSUME NEW p \in Path, Disowned(p), \A q \in Path \ {p} : dir'[q] = dir[q], journal # "absent",
             phase # "snapshotting" => exempt' = exempt
      PROVE  Step
    <2>1. CASE journal = "snapshotting"
        <3>1. Logical' = [Logical EXCEPT ![p] = Unknown]
            BY <1>1, <1>4, <2>1 DEF Disowned, Logical, Exists, RInv, IInv, TypeOK
        <3> QED
            BY <1>1, <1>2, <2>1, <3>1 DEF Step, Abstract!Next, Abstract!Outside, Abstract!Dispute
    <2>2. CASE journal = "prepared"
        <3>1. exempt' = exempt
            BY <1>4, <2>2 DEF Disowned, RInv, IInv, ProtocolInv, ControlInv
        <3>2. Logical' = [Logical EXCEPT ![p] = Unknown]
            BY <1>1, <1>4, <2>2, <3>1 DEF Disowned, Logical, RInv, IInv, TypeOK
        <3> QED
            BY <1>1, <1>2, <2>2, <3>2 DEF Step, Abstract!Next, Abstract!Outside, Abstract!Dispute
    <2> QED
        BY <1>2, <1>4, <2>1, <2>2
<1>5. ASSUME NEW p \in Path, NEW c \in Content, ExtReplace(p, c)
      PROVE  Step
    <2>1. PICK i \in Free : /\ dir' = [dir EXCEPT ![p] = i]
                            /\ data' = [data EXCEPT ![i] = c]
        BY <1>5 DEF ExtReplace, Replace
    <2>2. i \in Inode /\ \A q \in Path : dir[q] # i
        BY FreeInode
    <2>3. CASE journal = "absent"
        <3>1. Logical' = [q \in Path |-> IF q \in {p} THEN c ELSE Logical[q]]
            BY <1>1, <2>1, <2>2, <2>3, SentinelAssumption DEF Logical, Bytes, Exists, RInv, IInv, TypeOK
        <3>2. Abstract!Edit({p}, c) /\ {p} \in SUBSET Path
            BY <1>1, <1>2, <2>3, <3>1 DEF Abstract!Edit
        <3> QED
            BY <3>2 DEF Step, Abstract!Next, Abstract!Outside
    <2>4. CASE journal # "absent"
        <3>1. /\ Disowned(p) /\ \A q \in Path \ {p} : dir'[q] = dir[q]
              /\ phase # "snapshotting" => exempt' = exempt
            BY <1>5, <2>1 DEF ExtReplace, RInv, IInv, TypeOK
        <3> QED
            BY <1>4, <2>4, <3>1
    <2> QED
        BY <2>3, <2>4
<1>6. ASSUME NEW p \in Path, ExtDelete(p)
      PROVE  Step
    <2>1. Disowned(p) /\ dir' = [dir EXCEPT ![p] = NoInode] /\ UNCHANGED <<data, exempt>>
        BY <1>6 DEF ExtDelete
    <2>2. CASE journal = "absent"
        <3>1. Logical' = [q \in Path |-> IF q \in {p} THEN NoContent ELSE Logical[q]]
            BY <1>1, <2>1, <2>2 DEF Logical, Bytes, Exists, RInv, IInv, TypeOK
        <3>2. Abstract!Edit({p}, NoContent)
            BY <1>1, <1>2, <2>2, <3>1 DEF Abstract!Edit
        <3> QED
            BY <3>2 DEF Step, Abstract!Next, Abstract!Outside
    <2>3. CASE journal # "absent"
        <3>1. \A q \in Path \ {p} : dir'[q] = dir[q]
            BY <2>1 DEF RInv, IInv, TypeOK
        <3> QED
            BY <1>4, <2>1, <2>3, <3>1
    <2> QED
        BY <2>2, <2>3
<1>7. ASSUME NEW p \in Path, SnapshotLost(p)
      PROVE  Step
    <2>1. exempt' = exempt \cup {p} /\ UNCHANGED <<dir, data, expected>>
        BY <1>7 DEF SnapshotLost
    <2>2. CASE journal # "prepared"
        BY <1>1, <2>1, <2>2 DEF Step, Logical, Bytes, Exists
    <2>3. CASE journal = "prepared"
        <3>1. Logical' = [Logical EXCEPT ![p] = Unknown]
            BY <1>1, <2>1, <2>3 DEF Logical
        <3> QED
            BY <1>1, <1>2, <2>3, <3>1 DEF Step, Abstract!Next, Abstract!Outside, Abstract!Dispute
    <2> QED
        BY <2>2, <2>3
<1>8. CASE EmptyRolledBack
    BY <1>1, <1>8 DEF EmptyRolledBack, ghosts, Step, Logical, Bytes, Exists
<1> QED
    BY <1>3, <1>5, <1>6, <1>7, <1>8 DEF Outside

----------------------------------------------------------------------------
\* Nothing the KB does before the snapshot is complete changes a file.
LEMMA PreparingStep ==
    ASSUME RInv, CanLink, [Next]_vars
    PROVE  PreparingInv'
<1> SUFFICES ASSUME journal' = "snapshotting"
             PROVE  PreparingInv'
    BY DEF PreparingInv
<1>1. CASE Begin
    BY <1>1 DEF Begin, PreparingInv, Bytes, Exists
<1>2. CASE Outside /\ journal = "snapshotting"
    <2>1. touched = {}
        BY <1>2 DEF RInv, IInv, ProtocolInv, ControlInv
    <2>2. ASSUME NEW p \in Path, NEW c \in Content, ExtSave(p, c)
          PROVE  PreparingInv'
        BY <1>2, <2>1, <2>2 DEF ExtSave, Original, LeftAlone, PreparingInv, Exists, RInv, IInv, TypeOK
    <2>3. ASSUME NEW p \in Path, NEW c \in Content, ExtReplace(p, c)
          PROVE  PreparingInv'
        <3>1. PICK i \in Free : /\ dir' = [dir EXCEPT ![p] = i]
                                /\ data' = [data EXCEPT ![i] = c]
            BY <2>3 DEF ExtReplace, Replace
        <3>2. i \in Inode /\ \A q \in Path : dir[q] # i
            BY FreeInode
        <3> QED
            BY <1>2, <2>3, <3>1, <3>2 DEF ExtReplace, Disowned, PreparingInv, Exists, RInv, IInv, TypeOK
    <2>4. ASSUME NEW p \in Path, ExtDelete(p)
          PROVE  PreparingInv'
        BY <1>2, <2>4 DEF ExtDelete, Disowned, PreparingInv, Exists, RInv, IInv, TypeOK
    <2>5. ASSUME NEW p \in Path, SnapshotLost(p)
          PROVE  PreparingInv'
        BY <1>2, <2>5 DEF SnapshotLost, PreparingInv, Exists, RInv
    <2>6. CASE EmptyRolledBack
        BY <1>2, <2>6 DEF EmptyRolledBack, ghosts, PreparingInv, Exists, RInv
    <2> QED
        BY <1>2, <2>2, <2>3, <2>4, <2>5, <2>6 DEF Outside
<1>3. CASE journal = "snapshotting" /\ UNCHANGED <<data, expected>> /\ \E p \in Path : ResolveDelete(p)
    BY <1>3 DEF ResolveDelete, PreparingInv, Exists, RInv, IInv, TypeOK
<1>4. CASE journal = "snapshotting" /\ UNCHANGED <<dir, data, expected>>
    BY <1>4 DEF PreparingInv, Exists, RInv
<1>5. journal # "snapshotting" => Begin
    BY DEF Next, vars, control, Recover, Snapshotting, SnapshotStat, SnapshotSkip,
       SnapshotLink, SnapshotDone, SnapshotFail, Discard, Body, Write, Unlink, MoveLink, MoveUnlink,
       Commit, Fail, RollingBack, SetAside, SetAsideMissing, RestoreKeep, RestoreFile,
       RestoreUnavailable, SetAsideDone, RollbackDone, RollbackIncomplete, Reconciling, AcceptCurrent,
       RestoreSnapshot, Resolving, ResolveFile, ResolveMissing, ResolveDelete, ResolveDone, Crash,
       Outside, ExtSave, ExtReplace, ExtDelete, SnapshotLost, EmptyRolledBack
<1>6. ASSUME journal = "snapshotting", ~Begin, ~Outside
      PROVE  \/ UNCHANGED <<dir, data, expected>>
             \/ UNCHANGED <<data, expected>> /\ \E p \in Path : ResolveDelete(p)
    <2>1. phase \in {"free", "snapshotting", "resolving"} /\ (phase = "resolving" => todo = {})
        BY <1>6 DEF RInv, IInv, TypeOK, Phases, ProtocolInv, ControlInv, LinkInv, UndoInv
    <2> QED
        BY <1>6, <2>1 DEF Next, vars, fs, ghosts, Recover, Snapshotting, SnapshotStat,
           SnapshotSkip, SnapshotLink, SnapshotDone, SnapshotFail, Discard, Body, Write, Writes, InBody,
           Unlink, MoveLink, MoveUnlink, Commit, Fail, RollingBack, SetAside, SetAsideMissing,
           RestoreKeep, RestoreFile, RestoreUnavailable, SetAsideDone, RollbackDone, RolledBack,
           RollbackIncomplete, Reconciling, AcceptCurrent, RestoreSnapshot, Resolving, ResolveFile,
           ResolveMissing, ResolveDelete, ResolveDone, Crash
<1> QED
    BY <1>1, <1>2, <1>3, <1>4, <1>5, <1>6

\* A vault with nothing in it is a vault with nothing in it.
LEMMA InitMaps == Init => Abstract!Init /\ PreparingInv
BY DEF Init, PreparingInv, Abstract!Init, Logical, Mode, NoEntries, Bytes, Exists

\* Every step is a step of the abstract vault, or shows nothing.
LEMMA NextMaps ==
    ASSUME RInv, IInv', CanLink, [Next]_vars
    PROVE  [Abstract!Next]_(Abstract!vars)
<1>1. Step
    <2>1. CASE UNCHANGED vars
        BY <2>1 DEF vars, fs, control, ghosts, Step, Logical, Mode, Bytes, Exists
    <2> QED
        BY <2>1, BeginStep, SnapshottingStep, BodyStep, RollingBackStep, ReconcilingStep, CrashStep,
           OutsideStep DEF Next
<1> QED
    BY <1>1 DEF Step, Abstract!vars

(* On a filesystem with hard links the program implements AtomicVault:      *)
(* whatever editors, crashes and reconciliations do between its system      *)
(* calls, a transaction takes effect at once or not at all.                 *)
THEOREM ImplementsAtomicVault == CanLink => (Spec => Atomic)
<1> SUFFICES ASSUME CanLink
             PROVE  Spec => Atomic
    OBVIOUS
<1>1. RInv /\ IInv' /\ [Next]_vars => [Abstract!Next]_(Abstract!vars) /\ PreparingInv'
    BY NextMaps, PreparingStep
<1> QED
    BY <1>1, InitMaps, Inductive, PTL DEF Spec, Atomic, Abstract!Spec, RInv

====
