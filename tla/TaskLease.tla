----------------------------- MODULE TaskLease -----------------------------
(***************************************************************************)
(* Leases on tasks (leases.py): a file per task, written and removed under *)
(* the vault lock, that expires.  Agents work on a task while they believe *)
(* they hold its lease; they may die or be late at any point.              *)
(*                                                                         *)
(* Time is counted in halves of the second that times are truncated to.    *)
(* The clock of the machine does not step back here.                       *)
(***************************************************************************)
EXTENDS Integers

CONSTANTS Agent,
          Ttl,     \* the times to live that are asked for, in minutes
          Minute,  \* in halves of a second
          MaxTime, \* bounds the clock
          Nameless, \* whether callers may release without a name
          None

Lease == [agent : Agent, expires : Nat]

ASSUME LeaseAssumption ==
    /\ Ttl \subseteq Int
    /\ Minute \in Nat /\ Minute >= 2
    /\ MaxTime \in Nat
    /\ None \notin Agent \cup Lease
    /\ Nameless \in BOOLEAN

VARIABLES now,
          lease,  \* the lease file of the task: an agent and when it expires, or None
          locked, \* who is in vault_lock, or None
          doing,  \* per agent the call in progress
          belief  \* ghost: per agent when the lease it was given expires, 0 if none

leaseVars == <<now, lease, locked, doing, belief>>

Idle == [call |-> "idle"]

LeaseTypeOK ==
    /\ now \in Nat
    /\ lease \in Lease \cup {None}
    /\ locked \in Agent \cup {None}
    /\ doing \in [Agent -> {Idle} \cup [call : {"acquire"}, step : {"lock", "find", "write"}, ttl : Ttl]
                                  \cup [call : {"release"}, step : {"lock", "find", "remove"},
                                        name : Agent \cup {None}]]
    /\ belief \in [Agent -> Nat]

LeaseInit ==
    /\ now = 1
    /\ lease = None /\ locked = None
    /\ doing = [a \in Agent |-> Idle]
    /\ belief = [a \in Agent |-> 0]

-----------------------------------------------------------------------------
Tick ==
    /\ now < MaxTime
    /\ now' = now + 1
    /\ UNCHANGED <<lease, locked, doing, belief>>

CallAcquire(a, ttl) ==
    /\ doing[a] = Idle
    /\ doing' = [doing EXCEPT ![a] = [call |-> "acquire", step |-> "lock", ttl |-> ttl]]
    /\ UNCHANGED <<now, lease, locked, belief>>

\* An agent that releases has stopped working.  It gives its name, or none.
CallRelease(a, name) ==
    /\ doing[a] = Idle
    /\ name = a \/ (Nameless /\ name = None)
    /\ doing' = [doing EXCEPT ![a] = [call |-> "release", step |-> "lock", name |-> name]]
    /\ belief' = [belief EXCEPT ![a] = 0]
    /\ UNCHANGED <<now, lease, locked>>

\* A mutant of Lock: leases are found without the vault lock.
LockAlways(a) ==
    /\ doing[a] # Idle /\ doing[a].step = "lock"
    /\ locked' = a
    /\ doing' = [doing EXCEPT ![a].step = "find"]
    /\ UNCHANGED <<now, lease, belief>>

Lock(a) ==
    /\ doing[a] # Idle /\ doing[a].step = "lock"
    /\ locked = None
    /\ locked' = a
    /\ doing' = [doing EXCEPT ![a].step = "find"]
    /\ UNCHANGED <<now, lease, belief>>

Finding(a) == doing[a] # Idle /\ doing[a].step = "find"

\* What find returns, and the file it leaves: an expired lease is removed.
Found == IF lease # None /\ lease.expires > now THEN lease ELSE None

Leave(a) ==
    /\ locked' = None
    /\ doing' = [doing EXCEPT ![a] = Idle]

\* A mutant of GoesOn: whoever knows the task may release its lease.
GoesOnAnyway(a) == (doing[a].call = "acquire") = (Found = None)

\* acquire is refused where there is a lease, whosever; release where there is none or a
\* name is given that is not its holder's.
GoesOn(a) ==
    \/ doing[a].call = "acquire" /\ Found = None
    \/ doing[a].call = "release" /\ Found # None /\ doing[a].name \in {None, Found.agent}

Find(a) ==
    /\ Finding(a)
    /\ lease' = Found
    /\ \/ /\ GoesOn(a)
          /\ doing' = [doing EXCEPT ![a].step = IF doing[a].call = "acquire" THEN "write" ELSE "remove"]
          /\ UNCHANGED locked
       \/ ~GoesOn(a) /\ Leave(a)
    /\ UNCHANGED <<now, belief>>

Truncated(t) == t - (t % 2)

\* A mutant of Expiry: a time to live is taken as it is asked for.
ExpiryAsked(ttl) == Truncated(now + Minute * ttl)

Expiry(ttl) == Truncated(now + Minute * (IF ttl > 1 THEN ttl ELSE 1))

\* A mutant of Write: the holder is told the end of the lease before it is truncated.
WriteLate(a) ==
    /\ doing[a].call = "acquire" /\ doing[a].step = "write"
    /\ lease' = [agent |-> a, expires |-> Expiry(doing[a].ttl)]
    /\ belief' = [belief EXCEPT ![a] = now + Minute * doing[a].ttl]
    /\ Leave(a)
    /\ UNCHANGED now

\* The lease file is replaced, and its content returned.
Write(a) ==
    /\ doing[a].call = "acquire" /\ doing[a].step = "write"
    /\ lease' = [agent |-> a, expires |-> Expiry(doing[a].ttl)]
    /\ belief' = [belief EXCEPT ![a] = Expiry(doing[a].ttl)]
    /\ Leave(a)
    /\ UNCHANGED now

Remove(a) ==
    /\ doing[a].call = "release" /\ doing[a].step = "remove"
    /\ lease' = None
    /\ Leave(a)
    /\ UNCHANGED <<now, belief>>

\* An agent dies; the system gives its lock back, its lease stays until it expires.
Die(a) ==
    /\ doing[a] # Idle \/ belief[a] # 0
    /\ doing' = [doing EXCEPT ![a] = Idle]
    /\ locked' = IF locked = a THEN None ELSE locked
    /\ belief' = [belief EXCEPT ![a] = 0]
    /\ UNCHANGED <<now, lease>>

LeaseCall(a) == \/ \E ttl \in Ttl : CallAcquire(a, ttl)
           \/ \E name \in {a, None} : CallRelease(a, name)

Serve(a) == Lock(a) \/ Find(a) \/ Write(a) \/ Remove(a)

LeaseNext == Tick \/ \E a \in Agent : LeaseCall(a) \/ Serve(a) \/ Die(a)

LeaseSpec == LeaseInit /\ [][LeaseNext]_leaseVars

-----------------------------------------------------------------------------
Works(a) == belief[a] > now

\* Two agents never work on a task at the same time, however late they are in noticing that
\* their lease has expired or in giving it back.
OneHolder == \A a, b \in Agent : Works(a) /\ Works(b) => a = b

\* Whoever works has the lease file, until then and no longer.
HolderIsOnFile == \A a \in Agent : Works(a) => lease = [agent |-> a, expires |-> belief[a]]
=============================================================================
