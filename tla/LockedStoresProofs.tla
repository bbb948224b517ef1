------------------------- MODULE LockedStoresProofs -------------------------
(***************************************************************************)
(* vault_lock and the two stores whose files it guards, proved for any     *)
(* number of threads, processes, agents and machines, any times to live    *)
(* and any rows.                                                           *)
(*                                                                         *)
(* The lock: the invariant says, for every point of the code, which of the *)
(* three marks (RLock, file lock, thread-local set) the thread there has;  *)
(* exclusion follows because the file lock has one holder.                 *)
(*                                                                         *)
(* Leases: two agents never work under the lease of one task where every   *)
(* caller of release gives its name.                                       *)
(*                                                                         *)
(* Telemetry: nothing is recorded before the marker is set, so that until  *)
(* then a file holds some of what is imported and nothing else; an import  *)
(* that is cut short leaves a state the next one completes.                *)
(***************************************************************************)
EXTENDS VaultLock, TaskLease, Telemetry, TLAPS

\* The file lock and the thread-local set agree while a body runs, and a nested call
\* waits for the thread lock only as its owner.
InLock(t) == flock = t /\ t \in held /\ Owner(t) = t /\ depth[t] > 0

Marks(t) ==
    /\ pc[t] = "out" => flock # t /\ t \notin held /\ depth[t] = 0
    /\ pc[t] = "rlock" => \/ flock # t /\ t \notin held /\ depth[t] = 0
                          \/ InLock(t)
    /\ pc[t] = "flock" => flock # t /\ t \notin held /\ depth[t] = 0 /\ Owner(t) = t
    /\ pc[t] = "body" => InLock(t)
    /\ pc[t] = "unlock" => flock = t /\ t \notin held /\ Owner(t) = t
    /\ pc[t] = "close" => flock # t /\ t \notin held /\ Owner(t) = t

LockIInv == TypeOK /\ \A t \in Thread : Marks(t)

LEMMA LockInitially == Init => LockIInv
  BY ThreadAssumption DEF Init, LockIInv, TypeOK, Marks, InLock, Owner, Points

\* The steps of one thread.  The marks of another thread are its own program counter,
\* depth and place in the set, a lock it does not have, or one it keeps.
LEMMA ThreadStep ==
  ASSUME LockIInv, NEW t \in Thread,
         Step(t) \/ Call(t) \/ CallAgain(t) \/ Refused(t)
  PROVE  LockIInv'
<1> USE ThreadAssumption DEF LockIInv, TypeOK, Marks, InLock, Owner, HandOver, Goto, Points
<1>1. CASE Call(t)
  BY <1>1 DEF Call
<1>2. CASE CallAgain(t)
  BY <1>2 DEF CallAgain
<1>3. CASE Refused(t)
  BY <1>3 DEF Refused
<1>4. CASE EnterThreadLock(t)
  <2>1. CASE t \in held
    BY <1>4, <2>1 DEF EnterThreadLock
  <2>2. CASE t \notin held
    BY <1>4, <2>2 DEF EnterThreadLock
  <2> QED BY <2>1, <2>2
<1>5. CASE EnterFileLock(t)
  BY <1>5 DEF EnterFileLock
<1>6. CASE LeaveNested(t)
  BY <1>6 DEF LeaveNested
<1>7. CASE LeaveOutermost(t)
  BY <1>7 DEF LeaveOutermost
<1>8. CASE Unlock(t)
  BY <1>8 DEF Unlock
<1>9. CASE LeaveThreadLock(t)
  BY <1>9 DEF LeaveThreadLock
<1> QED BY <1>1, <1>2, <1>3, <1>4, <1>5, <1>6, <1>7, <1>8, <1>9 DEF Step

\* A death puts all threads of a process outside, and touches no mark of the others.
LEMMA CrashStep ==
  ASSUME LockIInv, NEW p \in Process, Crash(p)
  PROVE  LockIInv'
<1> DEFINE dead == {t \in Thread : ProcessOf[t] = p}
<1>1. TypeOK'
  BY ThreadAssumption DEF LockIInv, TypeOK, Crash, Points
<1>2. ASSUME NEW u \in Thread PROVE Marks(u)'
  <2>1. CASE u \in dead
    BY <2>1, ThreadAssumption DEF LockIInv, TypeOK, Crash, Marks, InLock, Owner, Points
  <2>2. CASE u \notin dead
    <3>1. /\ pc'[u] = pc[u] /\ depth'[u] = depth[u]
          /\ (u \in held') = (u \in held)
          /\ rlock'[ProcessOf[u]] = rlock[ProcessOf[u]]
      BY <2>2, ThreadAssumption DEF LockIInv, TypeOK, Crash
    <3>2. (flock' = u) = (flock = u)
      BY <2>2, ThreadAssumption DEF LockIInv, TypeOK, Crash
    <3> QED BY <3>1, <3>2 DEF LockIInv, Marks, InLock, Owner
  <2> QED BY <2>1, <2>2
<1> QED BY <1>1, <1>2 DEF LockIInv

\* Every variable keeps its type and every thread the marks of its place in the code.
THEOREM LockInductive == Spec => []LockIInv
<1>1. LockIInv /\ [Next]_vars => LockIInv'
  <2> SUFFICES ASSUME LockIInv, [Next]_vars PROVE LockIInv'
    OBVIOUS
  <2>1. CASE \E t \in Thread : Step(t) \/ Call(t) \/ CallAgain(t) \/ Refused(t)
    BY <2>1, ThreadStep
  <2>2. CASE \E p \in Process : Crash(p)
    BY <2>2, CrashStep
  <2>3. CASE UNCHANGED vars
    BY <2>3 DEF vars, LockIInv, TypeOK, Marks, InLock, Owner
  <2> QED BY <2>1, <2>2, <2>3 DEF Next
<1> QED BY <1>1, LockInitially, PTL DEF Spec

\* The types of the variables (storage.py 30-71).
THEOREM LockTypeCorrect == Spec => []TypeOK
<1>1. LockIInv => TypeOK
  BY DEF LockIInv
<1> QED BY <1>1, LockInductive, PTL

\* Two threads are never in bodies of vault_lock at once (storage.py 36-71), for any
\* number of threads, processes and nested calls, with processes dying at any point.
THEOREM MutuallyExclusive == Spec => []MutualExclusion
<1>1. LockIInv => MutualExclusion
  BY DEF LockIInv, TypeOK, Marks, InLock, MutualExclusion, Inside
<1> QED BY <1>1, LockInductive, PTL

\* No thread waits for a lock it has itself (storage.py 41-44).
THEOREM NeverWaitsForItself == Spec => []NoCircularWait
<1>1. LockIInv => NoCircularWait
  <2> SUFFICES ASSUME LockIInv, NEW t \in Thread
               PROVE  /\ pc[t] = "rlock" /\ depth[t] > 0 => Owner(t) = t
                      /\ pc[t] = "flock" => flock # t /\ depth[t] = 0
    BY DEF NoCircularWait
  <2>1. Marks(t) /\ depth[t] \in Nat
    BY DEF LockIInv, TypeOK
  <2> QED BY <2>1 DEF Marks, InLock
<1> QED BY <1>1, LockInductive, PTL

-----------------------------------------------------------------------------
\* Whoever is past the lock has it, has found no lease or its own, and nobody changes the
\* file meanwhile.
FileLocked ==
    /\ \A a \in Agent : doing[a] # Idle /\ doing[a].step # "lock" => locked = a
    /\ \A a \in Agent : doing[a] # Idle /\ doing[a].step = "write" => lease = None
    /\ \A a \in Agent : doing[a] # Idle /\ doing[a].step = "remove" =>
                            lease # None /\ lease.agent = a
    /\ \A a \in Agent : doing[a].call = "release" => belief[a] = 0 /\ doing[a].name = a

LeaseIInv == LeaseTypeOK /\ HolderIsOnFile /\ FileLocked

\* A lease ends at a time that can be told, whatever was asked for.
LEMMA ExpiryIsTime == ASSUME now \in Nat, NEW ttl \in Ttl PROVE Expiry(ttl) \in Nat
<1> DEFINE minutes == IF ttl > 1 THEN ttl ELSE 1
           end == now + Minute * minutes
<1>1. minutes \in Nat
    BY LeaseAssumption
<1>2. Minute * minutes \in Nat
    BY <1>1, LeaseAssumption
<1>3. end \in Nat
    BY <1>2
<1> HIDE DEF end
<1>4. end - (end % 2) \in Nat
    BY <1>3
<1> QED
    BY <1>4 DEF Expiry, Truncated, end

\* Every reachable state satisfies the inductive invariant: the vault lock spans the look
\* at the lease file and its replacement or removal.
THEOREM LeaseInductive == ASSUME ~Nameless PROVE LeaseSpec => []LeaseIInv
<1>1. LeaseInit => LeaseIInv
    BY LeaseAssumption DEF LeaseInit, LeaseIInv, LeaseTypeOK, HolderIsOnFile, FileLocked, Works, Idle, Lease
<1>2. LeaseIInv /\ [LeaseNext]_leaseVars => LeaseIInv'
    <2> SUFFICES ASSUME LeaseIInv, [LeaseNext]_leaseVars PROVE LeaseIInv'
        OBVIOUS
    <2> USE LeaseAssumption DEF LeaseIInv, LeaseTypeOK, HolderIsOnFile, FileLocked, Works, Idle, Lease
    <2>1. CASE Tick
        BY <2>1 DEF Tick
    <2>2. ASSUME NEW a \in Agent, NEW ttl \in Ttl, CallAcquire(a, ttl) PROVE LeaseIInv'
        BY <2>2 DEF CallAcquire
    <2>3. ASSUME NEW a \in Agent, NEW name \in {a, None}, CallRelease(a, name) PROVE LeaseIInv'
        BY <2>3 DEF CallRelease
    <2>4. ASSUME NEW a \in Agent, Lock(a) PROVE LeaseIInv'
        BY <2>4 DEF Lock
    <2>5. ASSUME NEW a \in Agent, Find(a) PROVE LeaseIInv'
        BY <2>5 DEF Find, Finding, Found, GoesOn, Leave
    <2>6. ASSUME NEW a \in Agent, Write(a) PROVE LeaseIInv'
      <3>1. doing[a].ttl \in Ttl
        BY <2>6 DEF Write
      <3>2. Expiry(doing[a].ttl) \in Nat
        BY <3>1, ExpiryIsTime
      <3> DEFINE end == Expiry(doing[a].ttl)
      <3>3. /\ end \in Nat /\ now' = now /\ locked' = None
            /\ lease' = [agent |-> a, expires |-> end]
            /\ belief' = [belief EXCEPT ![a] = end]
            /\ doing' = [doing EXCEPT ![a] = Idle]
            /\ doing[a].call = "acquire" /\ doing[a].step = "write"
        BY <2>6, <3>2 DEF Write, Leave
      <3> HIDE DEF end
      <3>4. LeaseTypeOK'
        BY <3>3
      <3>5. lease = None /\ locked = a
        BY <3>3
      <3>6. HolderIsOnFile'
        BY <3>3, <3>5
      <3>7. FileLocked'
        BY <3>3, <3>5
      <3> QED
        BY <3>4, <3>6, <3>7
    <2>7. ASSUME NEW a \in Agent, Remove(a) PROVE LeaseIInv'
        BY <2>7 DEF Remove, Leave
    <2>8. ASSUME NEW a \in Agent, Die(a) PROVE LeaseIInv'
        BY <2>8 DEF Die
    <2>9. CASE UNCHANGED leaseVars
        BY <2>9 DEF leaseVars
    <2> QED
        BY <2>1, <2>2, <2>3, <2>4, <2>5, <2>6, <2>7, <2>8, <2>9 DEF LeaseNext, LeaseCall, Serve
<1> QED
    BY <1>1, <1>2, PTL DEF LeaseSpec

\* Of all agents at most one works under the lease of a task at any moment, through expiry,
\* late release, death and any interleaving of calls.
THEOREM OneHolderAlways == ASSUME ~Nameless PROVE LeaseSpec => []OneHolder
<1>1. LeaseIInv => OneHolder
    BY DEF LeaseIInv, HolderIsOnFile, OneHolder, Works
<1> QED
    BY <1>1, LeaseInductive, PTL

\* The lease of whoever works is on file, and the file tells when it ends.
THEOREM HolderIsOnFileAlways == ASSUME ~Nameless PROVE LeaseSpec => []HolderIsOnFile
<1>1. LeaseIInv => HolderIsOnFile
    BY DEF LeaseIInv
<1> QED
    BY <1>1, LeaseInductive, PTL

-----------------------------------------------------------------------------
Store == [at : {"idle", "opening", "open"}]
         \cup [at : {"writing"}, todo : SUBSET Files, pending : [Files -> [Row -> 0 .. MaxCopies]]]

\* An old outcome becomes a row of its own, and feedback stays what it is.
Imports(m, f, row) == \E o \in old[m][1][f] : Imported(o) = row

\* Recorded rows are typed, none is of an earlier release, and the legacy files hold what
\* earlier releases wrote.
RecordedInv ==
    /\ store \in [Client -> Store]
    /\ recorded \in [Machine -> [Row -> Nat]]
    /\ \A m \in Machine, f \in Files : \A row \in old[m][1][f] : row \in Of(f) /\ (f = "outcomes" => ~row.legacy)
    /\ \A m \in Machine : \A row \in Outcome : row.legacy => recorded[m][row] = 0

\* Nothing is recorded before the marker is set: until then a file holds some of what is
\* imported, each row once.
UnmarkedInv ==
    \A m \in Machine : ~marker[m] =>
        /\ \A row \in Row : recorded[m][row] = 0
        /\ \A f \in Files, row \in Row :
              rows[m][f][row] =< 1 /\ (rows[m][f][row] = 1 => Imports(m, f, row))

\* An import holds the lock of a vault without marker; the files it has still to write are
\* as it read them, the others hold everything.
Importing(p) ==
    /\ store[p].at = "open" => marker[Home[p]]
    /\ store[p].at \in {"opening", "writing"} => busy[Home[p]] = p
    /\ store[p].at = "writing" =>
        /\ ~marker[Home[p]] /\ ~old[Home[p]][2]
        /\ \A f \in store[p].todo : store[p].pending[f] = Merged(Home[p], f)
        /\ \A f \in Files \ store[p].todo : \A o \in old[Home[p]][1][f] : rows[Home[p]][f][Imported(o)] = 1
ImportInv == \A p \in Client : Importing(p)

TelemetryInv == TelemetryTypeOK /\ RecordedInv /\ UnmarkedInv /\ ImportInv /\ ImportedOnce /\ RecordedStays

LEMMA ImportedOutcome ==
    ASSUME NEW row \in Outcome
    PROVE  /\ Imported(row) \in Outcome /\ Imported(row).legacy
           /\ Imported(row).pair = "" /\ Imported(row).tokens = Unknown
<1> DEFINE a == [row EXCEPT !.pair = ""]
           b == [a EXCEPT !.tokens = Unknown]
           c == [b EXCEPT !.legacy = TRUE]
<1>1. Imported(row) = c
    BY DEF Imported
<1>2. {"pair", "tokens", "legacy"} \subseteq DOMAIN row
    BY TelemetryAssumption
<1>3. DOMAIN a = DOMAIN row /\ DOMAIN b = DOMAIN row
    OBVIOUS
<1>4. c.legacy /\ c.pair = "" /\ c.tokens = Unknown
    BY <1>2, <1>3
<1> QED
    BY <1>1, <1>4, TelemetryAssumption

LEMMA ImportedFeedback == ASSUME NEW row \in Feedback PROVE Imported(row) = row
    BY TelemetryAssumption DEF Imported

\* What is imported into a file is a row of that file.
LEMMA ImportedRow == ASSUME NEW f \in Files, NEW row \in Of(f) PROVE Imported(row) \in Of(f)
    BY ImportedOutcome, ImportedFeedback DEF Of, Files

\* What another client is doing is not disturbed where its vault is not.
LEMMA ImportingStays ==
    ASSUME TelemetryInv, NEW q \in Client, store'[q] = store[q], UNCHANGED <<old, rows>>,
           marker[Home[q]] => marker'[Home[q]],
           store[q].at = "writing" => ~marker'[Home[q]],
           store[q].at \in {"opening", "writing"} => busy'[Home[q]] = busy[Home[q]]
    PROVE  Importing(q)'
<1>1. \A f : Merged(Home[q], f)' = Merged(Home[q], f)
    BY DEF Merged
<1> QED
    BY <1>1 DEF TelemetryInv, ImportInv, Importing

LEMMA TelemetryInitially == TelemetryInit => TelemetryInv
<1> SUFFICES ASSUME TelemetryInit PROVE TelemetryInv
    OBVIOUS
<1> USE TelemetryAssumption DEF TelemetryInit, Closed, Empty
<1>1. TelemetryTypeOK
    BY DEF TelemetryTypeOK, Row, Of, Files
<1>2. RecordedInv
    BY DEF RecordedInv, Store, Row, Of, Files
<1>3. UnmarkedInv /\ ImportInv /\ ImportedOnce
    BY DEF UnmarkedInv, ImportInv, Importing, ImportedOnce, Row, Files
<1>4. RecordedStays
    BY DEF RecordedStays, Row, Of, Files
<1> QED
    BY <1>1, <1>2, <1>3, <1>4 DEF TelemetryInv

LEMMA OpenKeeps == ASSUME TelemetryInv, NEW p \in Client, Open(p) PROVE TelemetryInv'
<1> USE TelemetryAssumption DEF Open, Closed, TelemetryInv
<1>1. TelemetryTypeOK'
    BY DEF TelemetryTypeOK, RecordedInv
<1>2. RecordedInv' /\ UnmarkedInv' /\ ImportedOnce' /\ RecordedStays'
    BY DEF RecordedInv, Store, UnmarkedInv, Imports, ImportedOnce, RecordedStays
<1>3. ASSUME NEW q \in Client PROVE Importing(q)'
    <2>1. CASE q = p
        BY <2>1 DEF Importing, RecordedInv, TelemetryTypeOK
    <2>2. CASE q # p
        <3>1. Home[q] = Home[p] => store[q].at \notin {"opening", "writing"}
            BY DEF ImportInv, Importing
        <3> QED
            BY <2>2, <3>1, ImportingStays DEF RecordedInv, TelemetryTypeOK, ImportInv, Importing
    <2> QED
        BY <2>1, <2>2
<1> QED
    BY <1>1, <1>2, <1>3 DEF ImportInv

LEMMA ReleaseKeeps ==
    ASSUME TelemetryInv, NEW p \in Client, NEW next, next \in {Closed, [at |-> "open"]},
           store[p].at \in {"opening", "writing"}, Release(p, next), UNCHANGED <<old, rows, recorded>>,
           marker' = [marker EXCEPT ![Home[p]] = @ \/ next # Closed],
           next # Closed => marker[Home[p]] \/ (store[p].at = "writing" /\ store[p].todo = {})
    PROVE  TelemetryInv'
<1> USE TelemetryAssumption DEF Release, TelemetryInv
<1>0. next \in [at : {"idle", "open"}] /\ (next.at = "open" => next # Closed)
    BY DEF Closed
<1>1. TelemetryTypeOK'
  <2>1. \A q \in Client : store'[q].at \in {"idle", "opening", "writing", "open"}
    BY <1>0 DEF TelemetryTypeOK, RecordedInv
  <2>2. /\ busy' \in [Machine -> Client \cup {Unknown}]
        /\ \A m \in Machine : busy'[m] # Unknown => Home[busy'[m]] = m
        /\ marker' \in [Machine -> BOOLEAN]
    BY DEF TelemetryTypeOK
  <2> QED
    BY <2>1, <2>2 DEF TelemetryTypeOK
<1>2. RecordedInv'
    BY <1>0 DEF RecordedInv, Store
<1>3. RecordedStays' /\ UnmarkedInv'
    BY DEF UnmarkedInv, Imports, TelemetryTypeOK, RecordedStays
<1>4. ASSUME NEW q \in Client PROVE Importing(q)'
    <2>1. CASE q = p
        BY <1>0, <2>1 DEF Importing, RecordedInv, TelemetryTypeOK
    <2>2. CASE q # p
        <3>1. Home[q] = Home[p] => store[q].at \notin {"opening", "writing"}
            BY <2>2 DEF ImportInv, Importing
        <3>2. /\ store'[q] = store[q]
              /\ marker[Home[q]] => marker'[Home[q]]
              /\ store[q].at = "writing" => ~marker'[Home[q]]
              /\ store[q].at \in {"opening", "writing"} => busy'[Home[q]] = busy[Home[q]]
            BY <2>2, <3>1 DEF RecordedInv, TelemetryTypeOK, ImportInv, Importing
        <3> QED
            BY <3>2, ImportingStays
    <2> QED
        BY <2>1, <2>2
<1>5. ASSUME NEW m \in Machine, marker'[m], NEW f \in Files, NEW o \in old[m][1][f]
      PROVE  rows[m][f][Imported(o)] = 1 + (IF Imported(o) = o THEN recorded[m][o] ELSE 0)
    <2>1. CASE marker[m]
        BY <2>1 DEF ImportedOnce
    <2>2. CASE ~marker[m]
        <3>1. m = Home[p] /\ store[p].at = "writing" /\ store[p].todo = {}
            BY <2>2, <1>5 DEF TelemetryTypeOK
        <3>2. rows[m][f][Imported(o)] = 1
            BY <3>1 DEF ImportInv, Importing
        <3>3. o \in Row
            BY DEF RecordedInv, Of, Row
        <3>4. recorded[m][o] = 0
            BY <2>2, <3>3 DEF UnmarkedInv
        <3> QED
            BY <3>2, <3>4
    <2> QED
        BY <2>1, <2>2
<1> QED
    BY <1>1, <1>2, <1>3, <1>4, <1>5 DEF ImportedOnce, ImportInv

\* The import begins: what it will write is made of what is there.
LEMMA PrepareKeeps == ASSUME TelemetryInv, NEW p \in Client, Prepare(p) PROVE TelemetryInv'
<1> USE TelemetryAssumption
<1> DEFINE m == Home[p]
<1>1. CASE marker[m]
    <2>1. Release(p, [at |-> "open"]) /\ UNCHANGED <<old, rows, marker, recorded>> /\ store[p].at = "opening"
        BY <1>1 DEF Prepare
    <2>2. marker' = [marker EXCEPT ![Home[p]] = @ \/ [at |-> "open"] # Closed]
        BY <1>1, <2>1 DEF TelemetryInv, TelemetryTypeOK
    <2> QED
        BY <1>1, <2>1, <2>2, ReleaseKeeps
<1>2. CASE ~marker[m] /\ old[m][2]
    <2>1. Release(p, Closed) /\ UNCHANGED <<old, rows, marker, recorded>> /\ store[p].at = "opening"
        BY <1>2 DEF Prepare
    <2>2. marker' = [marker EXCEPT ![Home[p]] = @ \/ Closed # Closed]
        BY <1>2, <2>1 DEF TelemetryInv, TelemetryTypeOK
    <2> QED
        BY <1>2, <2>1, <2>2, ReleaseKeeps
<1>3. CASE ~marker[m] /\ ~old[m][2]
    <2> DEFINE next == [at |-> "writing", todo |-> {f \in Files : old[m][1][f] # {}},
                        pending |-> [f \in Files |-> Merged(m, f)]]
    <2>1. /\ store' = [store EXCEPT ![p] = next] /\ store[p].at = "opening"
          /\ UNCHANGED <<old, rows, marker, busy, recorded>>
        BY <1>3 DEF Prepare
    <2>2. next \in Store
        BY DEF Store, Merged
    <2>3. /\ next.at = "writing" /\ next.todo = {f \in Files : old[m][1][f] # {}}
          /\ next.pending = [f \in Files |-> Merged(m, f)]
        OBVIOUS
    <2> HIDE DEF next
    <2>4. TelemetryTypeOK' /\ RecordedInv' /\ UnmarkedInv' /\ ImportedOnce' /\ RecordedStays'
        BY <2>1, <2>2, <2>3 DEF TelemetryInv, TelemetryTypeOK, RecordedInv, UnmarkedInv, Imports, ImportedOnce,
                                RecordedStays
    <2>5. ASSUME NEW q \in Client PROVE Importing(q)'
        <3>1. CASE q = p
            <4>1. store'[p] = next /\ busy[m] = p
                BY <2>1 DEF TelemetryInv, RecordedInv, ImportInv, Importing
            <4>2. \A f \in Files : Merged(m, f)' = Merged(m, f)
                BY <2>1 DEF Merged
            <4> QED
                BY <1>3, <2>1, <2>3, <3>1, <4>1, <4>2 DEF Importing
        <3>2. CASE q # p
            BY <2>1, <3>2, ImportingStays DEF TelemetryInv, RecordedInv, ImportInv, Importing
        <3> QED
            BY <3>1, <3>2
    <2> QED
        BY <2>4, <2>5 DEF TelemetryInv, ImportInv
<1> QED
    BY <1>1, <1>2, <1>3

\* One file is written: where it was malformed or cut short before, the rows come out as
\* one import would have left them.
LEMMA WriteFileKeeps == ASSUME TelemetryInv, NEW p \in Client, WriteFile(p) PROVE TelemetryInv'
<1> USE TelemetryAssumption
<1> DEFINE m == Home[p]
           f == First(store[p].todo)
<1>1. /\ store[p].at = "writing" /\ f \in store[p].todo /\ f \in Files /\ m \in Machine
      /\ rows' = [rows EXCEPT ![m][f] = store[p].pending[f]]
      /\ store' = [store EXCEPT ![p].todo = @ \ {f}]
      /\ UNCHANGED <<old, marker, busy, recorded>>
    BY DEF WriteFile, TelemetryInv, RecordedInv, Store, First, Files
<1>2. busy[m] = p /\ ~marker[m] /\ store[p].pending[f] = Merged(m, f)
    BY <1>1 DEF TelemetryInv, ImportInv, Importing
<1> HIDE DEF f, m
<1>3. rows' = [rows EXCEPT ![m][f] = Merged(m, f)]
    BY <1>1, <1>2
<1>4. Merged(m, f) \in [Row -> 0 .. MaxCopies]
    BY DEF Merged
<1>5. \A row \in Row : Merged(m, f)[row] =< 1 /\ (Merged(m, f)[row] = 1 => Imports(m, f, row))
    BY <1>1, <1>2 DEF Merged, TelemetryInv, UnmarkedInv, Imports, TelemetryTypeOK
<1>6. \A row \in Row : Merged(m, f)[row] = 1 => row \in Of(f)
    BY <1>1, <1>5, ImportedRow DEF Imports, TelemetryInv, RecordedInv
<1>7. /\ store[p] \in [at : {"writing"}, todo : SUBSET Files, pending : [Files -> [Row -> 0 .. MaxCopies]]]
      /\ store'[p] = [store[p] EXCEPT !.todo = @ \ {f}]
      /\ \A q \in Client : q # p => store'[q] = store[q]
      /\ store' \in [Client -> Store]
    BY <1>1 DEF TelemetryInv, RecordedInv, Store
<1>8. /\ rows' \in [Machine -> [Files -> [Row -> 0 .. MaxCopies]]]
      /\ rows'[m][f] = Merged(m, f)
      /\ \A n \in Machine, g \in Files : n # m \/ g # f => rows'[n][g] = rows[n][g]
    BY <1>1, <1>3, <1>4 DEF TelemetryInv, TelemetryTypeOK
<1>9. TelemetryTypeOK'
    BY <1>1, <1>4, <1>5, <1>6, <1>7, <1>8 DEF TelemetryInv, TelemetryTypeOK
<1>10. RecordedInv'
    BY <1>1, <1>7 DEF TelemetryInv, RecordedInv
<1>11. UnmarkedInv'
    BY <1>1, <1>5, <1>8 DEF TelemetryInv, UnmarkedInv, Imports
<1>12. ImportedOnce'
    BY <1>1, <1>2, <1>8 DEF TelemetryInv, ImportedOnce
<1>13. RecordedStays'
    <2>1. \A row \in Row : recorded[m][row] = 0
        BY <1>1, <1>2 DEF TelemetryInv, UnmarkedInv
    <2>2. ASSUME NEW row \in Of(f)
          PROVE  IF Imports(m, f, row) THEN rows'[m][f][row] \in 0 .. 1 ELSE rows'[m][f][row] = 0
        <3>1. row \in Row
            BY DEF Of, Row
        <3>2. Merged(m, f)[row] \in 0 .. 1 /\ (Merged(m, f)[row] = 1 => Imports(m, f, row))
            BY <1>4, <1>5, <3>1
        <3> QED
            BY <1>8, <3>2
    <2> QED
        BY <1>1, <1>8, <2>1, <2>2 DEF TelemetryInv, RecordedStays, Imports, Of, Row
<1>14. ASSUME NEW q \in Client PROVE Importing(q)'
    <2>1. CASE q = p
        <3>1. ASSUME NEW g \in store[p].todo \ {f} PROVE store[p].pending[g] = Merged(m, g)'
            <4>1. rows'[m][g] = rows[m][g] /\ old' = old
                BY <1>1, <1>7, <1>8, <3>1
            <4>2. Merged(m, g)' = Merged(m, g)
                BY <4>1 DEF Merged, m
            <4>3. store[p].pending[g] = Merged(m, g)
                BY <1>1, <3>1 DEF TelemetryInv, ImportInv, Importing, m
            <4> QED
                BY <4>2, <4>3
        <3>2. ASSUME NEW g \in Files, g \notin store[p].todo \ {f}, NEW o \in old[m][1][g]
              PROVE  rows'[m][g][Imported(o)] = 1
            <4>1. CASE g = f
                <5>1. Imported(o) \in Row
                    BY <1>1, <4>1, ImportedRow DEF TelemetryInv, RecordedInv, Of, Row
                <5> QED
                    BY <1>8, <4>1, <5>1 DEF Merged
            <4>2. CASE g # f
                BY <1>1, <1>8, <3>2, <4>2 DEF TelemetryInv, ImportInv, Importing, m
            <4> QED
                BY <4>1, <4>2
        <3> QED
            BY <1>1, <1>2, <1>7, <2>1, <3>1, <3>2 DEF TelemetryInv, ImportInv, Importing, m
    <2>2. CASE q # p /\ Home[q] = m
        <3>1. store[q].at \notin {"opening", "writing"}
            BY <1>2, <2>2 DEF TelemetryInv, ImportInv, Importing
        <3> QED
            BY <1>1, <1>7, <2>2, <3>1 DEF TelemetryInv, ImportInv, Importing
    <2>3. CASE Home[q] # m
        <3>1. \A g \in Files : rows'[Home[q]][g] = rows[Home[q]][g] /\ store'[q] = store[q]
            BY <1>1, <1>7, <1>8, <2>3 DEF m
        <3>2. \A g \in Files : Merged(Home[q], g)' = Merged(Home[q], g)
            BY <1>1, <3>1 DEF Merged
        <3>3. store[q].at = "writing" => store[q].todo \subseteq Files
            BY DEF TelemetryInv, RecordedInv, Store
        <3>4. store[q].at = "writing" =>
                  \A g \in store[q].todo : store[q].pending[g] = Merged(Home[q], g)'
            BY <3>2, <3>3 DEF TelemetryInv, ImportInv, Importing
        <3>5. store[q].at = "writing" =>
                  \A g \in Files \ store[q].todo : \A o \in old[Home[q]][1][g] : rows'[Home[q]][g][Imported(o)] = 1
            BY <3>1, <3>3 DEF TelemetryInv, ImportInv, Importing
        <3>6. store'[q] = store[q]
            BY <3>1 DEF Files
        <3> QED
            BY <1>1, <3>4, <3>5, <3>6 DEF TelemetryInv, ImportInv, Importing
    <2> QED
        BY <2>1, <2>2, <2>3
<1> QED
    BY <1>9, <1>10, <1>11, <1>12, <1>13, <1>14 DEF TelemetryInv, ImportInv

\* The marker is set when every file was written.
LEMMA WriteMarkerKeeps == ASSUME TelemetryInv, NEW p \in Client, WriteMarker(p) PROVE TelemetryInv'
<1>1. /\ store[p].at = "writing" /\ store[p].todo = {}
      /\ Release(p, [at |-> "open"]) /\ UNCHANGED <<old, rows, recorded>>
      /\ marker' = [marker EXCEPT ![Home[p]] = TRUE]
    BY DEF WriteMarker
<1>2. marker' = [marker EXCEPT ![Home[p]] = @ \/ [at |-> "open"] # Closed]
    BY <1>1 DEF Closed, TelemetryInv, TelemetryTypeOK
<1> QED
    BY <1>1, <1>2, ReleaseKeeps

\* A row that is recorded is none of the imported ones, unless it is feedback, which the
\* import leaves as it is.
LEMMA AppendKeeps ==
    ASSUME TelemetryInv, NEW p \in Client, NEW f \in Files, NEW row \in Row, Append(p, f, row)
    PROVE  TelemetryInv'
<1> USE TelemetryAssumption
<1> DEFINE m == Home[p]
<1>1. /\ store[p].at = "open" /\ busy[m] = Unknown /\ m \in Machine
      /\ row \in Of(f) /\ (f = "outcomes" => ~row.legacy) /\ rows[m][f][row] < MaxCopies
      /\ rows' = [rows EXCEPT ![m][f][row] = @ + 1]
      /\ recorded' = [recorded EXCEPT ![m][row] = @ + 1]
      /\ UNCHANGED <<old, marker, busy, store>>
    BY DEF Append
<1>2. marker[m]
    BY <1>1 DEF TelemetryInv, ImportInv, Importing
<1> HIDE DEF m
<1>3. /\ rows' \in [Machine -> [Files -> [Row -> 0 .. MaxCopies]]]
      /\ recorded' \in [Machine -> [Row -> Nat]]
    BY <1>1 DEF TelemetryInv, TelemetryTypeOK, RecordedInv
<1>4. \A n \in Machine, g \in Files, r \in Row :
          rows'[n][g][r] = IF n = m /\ g = f /\ r = row THEN rows[n][g][r] + 1 ELSE rows[n][g][r]
    BY <1>1 DEF TelemetryInv, TelemetryTypeOK
<1>5. \A n \in Machine, r \in Row :
          recorded'[n][r] = IF n = m /\ r = row THEN recorded[n][r] + 1 ELSE recorded[n][r]
    BY <1>1 DEF TelemetryInv, RecordedInv
<1>6. TelemetryTypeOK'
    BY <1>1, <1>3, <1>4 DEF TelemetryInv, TelemetryTypeOK
<1>7. RecordedInv'
    <2>1. row \in Outcome => ~row.legacy
        BY <1>1 DEF Of, Files
    <2>2. \A n \in Machine : \A r \in Outcome : r.legacy => recorded'[n][r] = 0
        BY <1>5, <2>1 DEF TelemetryInv, RecordedInv, Row
    <2> QED
        BY <1>1, <1>3, <2>2 DEF TelemetryInv, RecordedInv
<1>8. UnmarkedInv'
    BY <1>1, <1>2, <1>4, <1>5 DEF TelemetryInv, UnmarkedInv, Imports
<1>9. ASSUME NEW q \in Client PROVE Importing(q)'
    <2>1. CASE Home[q] = m
        <3>1. store[q].at \notin {"opening", "writing"}
            BY <1>1, <2>1 DEF TelemetryInv, ImportInv, Importing
        <3> QED
            BY <1>1, <1>2, <2>1, <3>1 DEF Importing
    <2>2. CASE Home[q] # m
        <3>1. rows'[Home[q]] = rows[Home[q]]
            BY <1>1, <2>2 DEF TelemetryInv, TelemetryTypeOK
        <3>2. \A g \in Files : Merged(Home[q], g)' = Merged(Home[q], g)
            BY <1>1, <3>1 DEF Merged
        <3>3. store[q].at = "writing" => store[q].todo \subseteq Files
            BY DEF TelemetryInv, RecordedInv, Store
        <3> QED
            BY <1>1, <3>1, <3>2, <3>3 DEF TelemetryInv, ImportInv, Importing
    <2> QED
        BY <2>1, <2>2
<1>10. \A g \in Files : \A r \in Of(g) : r \in Row /\ (r = row => g = f)
    BY <1>1 DEF Of, Files, Row
<1>11. ASSUME NEW n \in Machine, marker'[n], NEW g \in Files, NEW o \in old[n][1][g]
       PROVE  rows'[n][g][Imported(o)] = 1 + (IF Imported(o) = o THEN recorded'[n][o] ELSE 0)
    <2>1. rows[n][g][Imported(o)] = 1 + (IF Imported(o) = o THEN recorded[n][o] ELSE 0)
        BY <1>1, <1>11 DEF TelemetryInv, ImportedOnce
    <2>2. o \in Of(g) /\ Imported(o) \in Of(g) /\ (g = "outcomes" => ~o.legacy)
        BY <1>1, ImportedRow DEF TelemetryInv, RecordedInv
    <2>3. CASE g = "outcomes"
        <3>1. Imported(o) # o /\ (f = "outcomes" => Imported(o) # row)
            BY <1>1, <2>2, <2>3, ImportedOutcome DEF Of
        <3> QED
            BY <1>4, <1>10, <2>1, <2>2, <2>3, <3>1
    <2>4. CASE g = "feedback"
        <3>1. Imported(o) = o
            BY <2>2, <2>4, ImportedFeedback DEF Of
        <3>2. rows[n][g][o] \in Nat /\ recorded[n][o] \in Nat
            BY <1>10, <2>2 DEF TelemetryInv, TelemetryTypeOK, RecordedInv
        <3> QED
            BY <1>4, <1>5, <1>10, <2>1, <2>2, <3>1, <3>2
    <2> QED
        BY <2>3, <2>4 DEF Files
<1>12. ImportedOnce'
    BY <1>1, <1>11 DEF ImportedOnce
<1>13. ASSUME NEW n \in Machine, NEW g \in Files, NEW r \in Of(g)
       PROVE  IF \E o \in old[n][1][g] : Imported(o) = r
              THEN rows'[n][g][r] >= recorded'[n][r] /\ rows'[n][g][r] =< recorded'[n][r] + 1
              ELSE rows'[n][g][r] = recorded'[n][r]
    <2>1. rows[n][g][r] \in Nat /\ recorded[n][r] \in Nat
        BY <1>10 DEF TelemetryInv, TelemetryTypeOK, RecordedInv
    <2>2. IF \E o \in old[n][1][g] : Imported(o) = r
          THEN rows[n][g][r] >= recorded[n][r] /\ rows[n][g][r] =< recorded[n][r] + 1
          ELSE rows[n][g][r] = recorded[n][r]
        BY DEF TelemetryInv, RecordedStays
    <2>3. CASE n = m /\ r = row
        <3>1. rows'[n][g][r] = rows[n][g][r] + 1 /\ recorded'[n][r] = recorded[n][r] + 1
            BY <1>4, <1>5, <1>10, <2>3
        <3> QED
            BY <2>1, <2>2, <3>1
    <2>4. CASE ~(n = m /\ r = row)
        <3>1. rows'[n][g][r] = rows[n][g][r] /\ recorded'[n][r] = recorded[n][r]
            BY <1>4, <1>5, <1>10, <2>4
        <3> QED
            BY <2>2, <3>1
    <2> QED
        BY <2>3, <2>4
<1>14. RecordedStays'
    BY <1>1, <1>13 DEF RecordedStays
<1> QED
    BY <1>6, <1>7, <1>8, <1>9, <1>12, <1>14 DEF TelemetryInv, ImportInv

LEMMA StoreDiesKeeps == ASSUME TelemetryInv, NEW p \in Client, StoreDies(p) PROVE TelemetryInv'
<1> USE TelemetryAssumption DEF StoreDies, Closed
<1>1. TelemetryTypeOK'
    BY DEF TelemetryInv, TelemetryTypeOK, RecordedInv
<1>2. RecordedInv' /\ UnmarkedInv' /\ ImportedOnce' /\ RecordedStays'
    BY DEF TelemetryInv, RecordedInv, Store, UnmarkedInv, Imports, ImportedOnce, RecordedStays
<1>3. ASSUME NEW q \in Client PROVE Importing(q)'
    <2>1. CASE q = p
        BY <2>1 DEF TelemetryInv, Importing, RecordedInv
    <2>2. CASE q # p
        <3>1. store[q].at \in {"opening", "writing"} => busy'[Home[q]] = busy[Home[q]]
            BY <2>2 DEF TelemetryInv, TelemetryTypeOK, ImportInv, Importing
        <3> QED
            BY <2>2, <3>1, ImportingStays DEF TelemetryInv, RecordedInv, ImportInv, Importing
    <2> QED
        BY <2>1, <2>2
<1> QED
    BY <1>1, <1>2, <1>3 DEF TelemetryInv, ImportInv

LEMMA RepairKeeps == ASSUME TelemetryInv, NEW m \in Machine, Repair(m) PROVE TelemetryInv'
<1> USE TelemetryAssumption DEF Repair
<1>1. /\ old' \in [Machine -> [Files -> SUBSET Row] \X BOOLEAN]
      /\ \A n \in Machine : old'[n][1] = old[n][1] /\ (n # m => old'[n] = old[n]) /\ (old'[n][2] => old[n][2])
    <2>1. PICK files \in [Files -> SUBSET Row], b \in BOOLEAN : old[m] = <<files, b>>
        BY DEF TelemetryInv, TelemetryTypeOK
    <2>2. old' = [old EXCEPT ![m] = <<files, FALSE>>]
        BY <2>1
    <2>3. <<files, FALSE>> \in [Files -> SUBSET Row] \X BOOLEAN /\ <<files, FALSE>>[1] = old[m][1]
          /\ ~<<files, FALSE>>[2]
        <3>1. <<files, FALSE>> \in [Files -> SUBSET Row] \X BOOLEAN
            BY <2>1
        <3>2. <<files, FALSE>>[1] = old[m][1]
            BY <2>1
        <3>3. <<files, FALSE>>[2] = FALSE
            BY Zenon
        <3> QED
            BY <3>1, <3>2, <3>3
    <2>4. old \in [Machine -> [Files -> SUBSET Row] \X BOOLEAN]
        BY DEF TelemetryInv, TelemetryTypeOK
    <2> HIDE DEF Repair
    <2> QED
        BY <2>2, <2>3, <2>4
<1>2. TelemetryTypeOK'
    BY <1>1 DEF TelemetryInv, TelemetryTypeOK
<1>3. RecordedInv' /\ UnmarkedInv' /\ ImportedOnce' /\ RecordedStays'
    BY <1>1 DEF TelemetryInv, RecordedInv, UnmarkedInv, Imports, ImportedOnce, RecordedStays
<1>4. ASSUME NEW q \in Client PROVE Importing(q)'
    <2>1. \A f \in Files : Merged(Home[q], f)' = Merged(Home[q], f)
        BY <1>1 DEF Merged
    <2>2. store[q].at = "writing" => store[q].todo \subseteq Files
        BY DEF TelemetryInv, RecordedInv, Store
    <2> QED
        BY <1>1, <2>1, <2>2 DEF TelemetryInv, ImportInv, Importing
<1> QED
    BY <1>2, <1>3, <1>4 DEF TelemetryInv, ImportInv

LEMMA TelemetryStutterKeeps == ASSUME TelemetryInv, UNCHANGED telemetryVars PROVE TelemetryInv'
<1>1. \A m, f : Merged(m, f)' = Merged(m, f)
    BY DEF Merged, telemetryVars
<1> QED
    BY <1>1 DEF telemetryVars, TelemetryInv, TelemetryTypeOK, RecordedInv, UnmarkedInv, Imports, ImportInv,
                Importing, ImportedOnce, RecordedStays

\* The invariant holds of a vault that is not copied while it has no marker.
THEOREM TelemetryInvariant == ASSUME ~Syncs PROVE TelemetrySpec => []TelemetryInv
<1>1. ASSUME TelemetryInv, [TelemetryNext]_telemetryVars PROVE TelemetryInv'
    <2>1. \A m, n \in Machine : ~Sync(m, n)
        BY DEF Sync
    <2> QED
        BY <1>1, <2>1, OpenKeeps, PrepareKeeps, WriteFileKeeps, WriteMarkerKeeps, AppendKeeps, StoreDiesKeeps,
           RepairKeeps, TelemetryStutterKeeps DEF TelemetryNext
<1> QED
    BY <1>1, TelemetryInitially, PTL DEF TelemetrySpec

\* Once the marker is set every legacy row is in its file once, and rows that were recorded
\* are there as often as they were recorded, wherever the import was cut short.
THEOREM TelemetryKeepsHistory == ASSUME ~Syncs PROVE TelemetrySpec => []HistoryIsKept
<1>1. TelemetryInv => HistoryIsKept
    BY DEF TelemetryInv, HistoryIsKept
<1> QED
    BY <1>1, TelemetryInvariant, PTL

\* An arm of earlier releases has neither a pairing nor a token count.
LEMMA DoubtIsNotMeasured == TelemetryInv => NothingMeasuredFromDoubt
<1> SUFFICES ASSUME TelemetryInv, NEW m \in Machine, NEW pair \in Paired(m), Complete(pair) \/ Matched(pair),
                    NEW arm \in {pair[1], pair[2]}
             PROVE  ~arm.legacy /\ recorded[m][arm] = 1
    BY DEF NothingMeasuredFromDoubt
<1> USE TelemetryAssumption
<1>1. /\ pair[1] \in Outcome /\ pair[2] \in Outcome
      /\ Arm(m, Key(pair[1]), "no-kb") = {pair[1]} /\ Single(m, {pair[1]})
      /\ Arm(m, Key(pair[1]), "kb") = {pair[2]} /\ Single(m, {pair[2]})
    BY DEF Paired
<1>2. arm \in Outcome /\ rows[m]["outcomes"][arm] = 1 /\ Key(arm) = Key(pair[1])
    BY <1>1 DEF Arm, Single
<1>3. recorded[m][arm] \in Nat /\ arm \in Of("outcomes") /\ "outcomes" \in Files
    BY <1>2 DEF TelemetryInv, RecordedInv, Row, Of, Files
<1>4. ~arm.legacy
    <2>1. SUFFICES ASSUME arm.legacy PROVE FALSE
        OBVIOUS
    <2>2. recorded[m][arm] = 0
        BY <1>2, <2>1 DEF TelemetryInv, RecordedInv
    <2>3. PICK o \in old[m][1]["outcomes"] : Imported(o) = arm
        BY <1>2, <1>3, <2>2 DEF TelemetryInv, RecordedStays
    <2>4. o \in Outcome
        BY <1>3 DEF TelemetryInv, RecordedInv, Of
    <2>5. arm.pair = "" /\ arm.tokens = Unknown
        BY <2>3, <2>4, ImportedOutcome
    <2>6. pair[1].pair = ""
        <3>1. Key(arm)[1] = Key(pair[1])[1]
            BY <1>2
        <3> QED
            BY <2>5, <3>1 DEF Key
    <2>7. ~Complete(pair)
        BY <2>5 DEF Complete, Total
    <2> QED
        BY <2>6, <2>7 DEF Matched
<1>5. \A o \in old[m][1]["outcomes"] : Imported(o).legacy
    BY <1>3, ImportedOutcome DEF TelemetryInv, RecordedInv, Of
<1> QED
    BY <1>2, <1>3, <1>4, <1>5 DEF TelemetryInv, RecordedStays

\* paired_summary rests no matched or complete pair on an imported or repeated outcome.
THEOREM TelemetryMeasuresNoDoubt == ASSUME ~Syncs PROVE TelemetrySpec => []NothingMeasuredFromDoubt
    BY DoubtIsNotMeasured, TelemetryInvariant, PTL
=============================================================================
