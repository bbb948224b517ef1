----------------------------- MODULE VaultLock -----------------------------
(***************************************************************************)
(* vault_lock (storage.py 35-71) for one vault.  A process has one         *)
(* threading.RLock per vault; inside it the outermost call of a thread     *)
(* opens the lock file and takes flock on that handle, and remembers in a  *)
(* thread-local set that it holds the vault.  Nested calls (a command in a *)
(* semantic transaction refreshes the index, which locks again) see the    *)
(* set and only go up and down in the RLock.                               *)
(***************************************************************************)
EXTENDS Naturals

CONSTANTS Thread,    \* threads of all processes
          Process,
          ProcessOf, \* the process a thread belongs to
          NoThread,
          MaxNests   \* how often one outermost body calls vault_lock again

ASSUME ThreadAssumption ==
    /\ ProcessOf \in [Thread -> Process]
    /\ NoThread \notin Thread
    /\ MaxNests \in Nat

VARIABLES rlock,  \* the owner of each process's RLock
          flock,  \* the thread whose open handle has the file lock
          held,   \* threads with the vault in their _LOCAL.held
          pc,     \* where a thread is in vault_lock
          depth,  \* the frames of vault_lock a thread is inside of
          nests   \* nested calls of the present outermost body

vars == <<rlock, flock, held, pc, depth, nests>>

Points == {"out", "rlock", "flock", "body", "unlock", "close"}

TypeOK ==
    /\ rlock \in [Process -> Thread \cup {NoThread}]
    /\ flock \in Thread \cup {NoThread}
    /\ held \in SUBSET Thread
    /\ pc \in [Thread -> Points]
    /\ depth \in [Thread -> Nat]
    /\ nests \in [Thread -> 0 .. MaxNests]

Init ==
    /\ rlock = [p \in Process |-> NoThread]
    /\ flock = NoThread
    /\ held = {}
    /\ pc = [t \in Thread |-> "out"]
    /\ depth = [t \in Thread |-> 0]
    /\ nests = [t \in Thread |-> 0]

Goto(t, point) == pc' = [pc EXCEPT ![t] = point]

\* RLock: owned for as long as its owner is in some frame of vault_lock.
Owner(t) == rlock[ProcessOf[t]]
HandOver(t, owner) == rlock' = [rlock EXCEPT ![ProcessOf[t]] = owner]

\* Mutant of CallAgain: the bound on nested calls is off by one.
CallAgainOnceMore(t) ==
    /\ pc[t] = "body"
    /\ nests[t] =< MaxNests
    /\ nests' = [nests EXCEPT ![t] = @ + 1]
    /\ Goto(t, "rlock")
    /\ UNCHANGED <<rlock, flock, held, depth>>

-----------------------------------------------------------------------------
\* A command calls vault_lock, from outside or from the body of an earlier call.
Call(t) ==
    /\ pc[t] = "out"
    /\ Goto(t, "rlock")
    /\ UNCHANGED <<rlock, flock, held, depth, nests>>

CallAgain(t) ==
    /\ pc[t] = "body"
    /\ nests[t] < MaxNests
    /\ nests' = [nests EXCEPT ![t] = @ + 1]
    /\ Goto(t, "rlock")
    /\ UNCHANGED <<rlock, flock, held, depth>>

\* Mutant of EnterThreadLock: a nested call does not look whether the vault is held.
EnterThreadLockBlindly(t) ==
    /\ pc[t] = "rlock"
    /\ Owner(t) \in {NoThread, t}
    /\ HandOver(t, t)
    /\ Goto(t, "flock")
    /\ UNCHANGED <<flock, held, depth, nests>>

\* "with lock": its owner enters again, another thread waits until it is free.  The
\* thread then looks for the vault in its thread-local set.
EnterThreadLock(t) ==
    /\ pc[t] = "rlock"
    /\ Owner(t) \in {NoThread, t}
    /\ HandOver(t, t)
    /\ IF t \in held
       THEN Goto(t, "body") /\ depth' = [depth EXCEPT ![t] = @ + 1]
       ELSE Goto(t, "flock") /\ UNCHANGED depth
    /\ UNCHANGED <<flock, held, nests>>

\* The lock file is a symlink out of the vault, or cannot be opened.
Refused(t) ==
    /\ pc[t] = "flock"
    /\ HandOver(t, NoThread)
    /\ Goto(t, "out")
    /\ UNCHANGED <<flock, held, depth, nests>>

\* fcntl.flock on a handle of this call's own: it conflicts with every other handle,
\* those of other threads of the process included.
EnterFileLock(t) ==
    /\ pc[t] = "flock"
    /\ flock = NoThread
    /\ flock' = t
    /\ held' = held \cup {t}
    /\ depth' = [depth EXCEPT ![t] = @ + 1]
    /\ Goto(t, "body")
    /\ UNCHANGED <<rlock, nests>>

\* Mutant of LeaveNested: every exit lets go of the file lock, as the outermost one does.
LeaveNestedUnlocking(t) ==
    /\ pc[t] = "body" /\ depth[t] > 1
    /\ depth' = [depth EXCEPT ![t] = @ - 1]
    /\ flock' = NoThread
    /\ UNCHANGED <<rlock, held, pc, nests>>

\* The body of a nested call ends, by returning or by raising: only the RLock counts.
LeaveNested(t) ==
    /\ pc[t] = "body" /\ depth[t] > 1
    /\ depth' = [depth EXCEPT ![t] = @ - 1]
    /\ UNCHANGED <<rlock, flock, held, pc, nests>>

\* Mutant of LeaveOutermost: no finally, the handle stays open and locked.
LeaveOutermostRaising(t) ==
    /\ pc[t] = "body" /\ depth[t] = 1
    /\ Goto(t, "close")
    /\ UNCHANGED <<rlock, flock, held, depth, nests>>

\* The body of the outermost call ends: the finally clause, then the handle, then the RLock.
LeaveOutermost(t) ==
    /\ pc[t] = "body" /\ depth[t] = 1
    /\ held' = held \ {t}
    /\ Goto(t, "unlock")
    /\ UNCHANGED <<rlock, flock, depth, nests>>

Unlock(t) ==
    /\ pc[t] = "unlock"
    /\ flock' = NoThread
    /\ Goto(t, "close")
    /\ UNCHANGED <<rlock, held, depth, nests>>

LeaveThreadLock(t) ==
    /\ pc[t] = "close"
    /\ HandOver(t, NoThread)
    /\ depth' = [depth EXCEPT ![t] = 0]
    /\ nests' = [nests EXCEPT ![t] = 0]
    /\ Goto(t, "out")
    /\ UNCHANGED <<flock, held>>

\* A process dies: its handles are closed, which frees the file lock.  Another process
\* takes its place.
Crash(p) ==
    LET dead == {t \in Thread : ProcessOf[t] = p} IN
    /\ \E t \in dead : pc[t] # "out"
    /\ rlock' = [rlock EXCEPT ![p] = NoThread]
    /\ flock' = IF flock \in dead THEN NoThread ELSE flock
    /\ held' = held \ dead
    /\ pc' = [t \in Thread |-> IF t \in dead THEN "out" ELSE pc[t]]
    /\ depth' = [t \in Thread |-> IF t \in dead THEN 0 ELSE depth[t]]
    /\ nests' = [t \in Thread |-> IF t \in dead THEN 0 ELSE nests[t]]

\* What a thread inside vault_lock does next.
Step(t) ==
    \/ EnterThreadLock(t) \/ EnterFileLock(t)
    \/ LeaveNested(t) \/ LeaveOutermost(t) \/ Unlock(t) \/ LeaveThreadLock(t)

Next ==
    \/ \E t \in Thread : Step(t) \/ Call(t) \/ CallAgain(t) \/ Refused(t)
    \/ \E p \in Process : Crash(p)

Spec == Init /\ [][Next]_vars

\* Threads keep running and bodies end: each makes finitely many nested calls.
FairSpec == Spec /\ \A t \in Thread : WF_vars(Step(t))

-----------------------------------------------------------------------------
Inside(t) == depth[t] > 0 /\ pc[t] \in {"body", "rlock"}

\* Two threads, of one process or of two, are never in bodies of vault_lock at the same
\* time, however deeply their calls nest: what every writer of the vault relies on.
MutualExclusion ==
    \A t, u \in Thread : Inside(t) /\ Inside(u) => t = u

\* A thread that waits is not waited for: who waits for the thread lock of its process
\* from inside a body owns it, and who waits for the file lock does not hold it.
NoCircularWait ==
    \A t \in Thread :
        /\ pc[t] = "rlock" /\ depth[t] > 0 => Owner(t) = t
        /\ pc[t] = "flock" => flock # t /\ depth[t] = 0

\* The vault is free again and again: no order of nested calls, exceptions and deaths of
\* processes leaves the lock with someone who waits for itself or is not there any more.
AlwaysReleased == []<>(flock = NoThread)
=============================================================================
