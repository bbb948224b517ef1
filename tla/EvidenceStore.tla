--------------------------- MODULE EvidenceStore ---------------------------
(***************************************************************************)
(* Evidence objects (evidence.py 66-167), the episodes stored with one     *)
(* each (episodes.py 41-66), and the table in which the index remembers    *)
(* which objects it has verified (index.py 661-704).                       *)
(*                                                                         *)
(* An object is filed under the digest of its envelope: of what it says    *)
(* and of where that comes from, not of when it was observed.  Digests are *)
(* taken to be injective, so an identity is the pair they are made of.     *)
(* An episode also cites what the caller of capture names, unverified.     *)
(* Processes put and check evidence at the same time without a lock;       *)
(* anybody may damage, restore or remove the files between any two steps.  *)
(***************************************************************************)
EXTENDS Naturals

CONSTANTS Subject, Content,
          Identity,   \* evidence identities, pairs of a subject and a content
          Process,
          Citation,   \* the sets of identities a caller may name as evidence of an episode
          Foreign,    \* what others may leave in place of an object, whichever it is
          Absent,
          MaxChanges  \* bounds how often files change

VARIABLES file,     \* what is under the path of each identity
          changes,  \* how often files have changed: the ctime of the next change
          checks,   \* the table evidence_checks
          doing,    \* per process the call in progress
          episodes, \* the stored episodes: the object of each and all it cites
          ever      \* ghost: the identities under whose path there ever was a file

vars == <<file, changes, checks, doing, episodes, ever>>

Object == [evidence_id : Identity, content : Content, content_digest : Content, subject : Subject]

ASSUME EvidenceAssumption ==
    /\ Identity \subseteq Subject \X Content
    /\ Citation \subseteq SUBSET Identity
    /\ Foreign \subseteq Object
    /\ MaxChanges \in Nat

Stamped == [object : Object, stamp : 1 .. MaxChanges]
Idle == [call |-> "idle"]

\* ghost: what the file has been since the check began
Moments == [genuine : BOOLEAN, other : BOOLEAN]

Puts ==
    [call : {"put"}, id : Identity, episode : BOOLEAN, named : Citation, step : {"look", "write", "cite"}]
Episode == [own : Identity, evidence : SUBSET Identity]
Checking ==
    [call : {"check"}, id : Identity, step : {"look", "stat", "verify", "save", "answer"},
     row : {Absent} \cup [stamp : 1 .. MaxChanges, valid : BOOLEAN],
     key : 0 .. MaxChanges, valid : BOOLEAN, moments : Moments]

TypeOK ==
    /\ file \in [Identity -> Stamped \cup {Absent}]
    /\ changes \in 0 .. MaxChanges
    /\ \A id \in Identity : file[id] # Absent => file[id].stamp =< changes
    /\ checks \in [Identity -> [stamp : 1 .. MaxChanges, valid : BOOLEAN] \cup {Absent}]
    /\ doing \in [Process -> Puts \cup Checking \cup {Idle}]
    /\ episodes \subseteq Episode /\ ever \subseteq Identity

Init ==
    /\ file = [id \in Identity |-> Absent]
    /\ changes = 0
    /\ checks = [id \in Identity |-> Absent]
    /\ doing = [p \in Process |-> Idle]
    /\ episodes = {} /\ ever = {}

-----------------------------------------------------------------------------
AsPut(id) == [evidence_id |-> id, content |-> id[2], content_digest |-> id[2], subject |-> id[1]]

\* The object says and comes from what its identity stands for.
Genuine(id, f) == f # Absent /\ f.object.subject = id[1] /\ f.object.content = id[2]

\* A mutant of Get: the envelope is not compared with the path it was found under.
GetTrusting(id, f) ==
    /\ f # Absent
    /\ f.object.evidence_id = id
    /\ f.object.content_digest = f.object.content

\* get, whether it returns the record: the three comparisons made on the file.
Get(id, f) ==
    /\ f # Absent
    /\ f.object.evidence_id = id
    /\ f.object.content_digest = f.object.content
    /\ id = <<f.object.subject, f.object.content_digest>>

Observe(moments, id, f) ==
    [genuine |-> moments.genuine \/ Genuine(id, f),
     other |-> moments.other \/ f = Absent \/ (f # Absent /\ f.object # AsPut(id))]

\* Whoever changes a file changes its ctime; the checks in progress may or may not see it.
Becomes(id, f) ==
    /\ file' = [file EXCEPT ![id] = f]
    /\ changes' = changes + 1
    /\ ever' = ever \cup {id}

Seeing(calls) ==
    [p \in Process |-> IF calls[p].call = "check"
                       THEN [calls[p] EXCEPT !.moments = Observe(@, calls[p].id, file'[calls[p].id])]
                       ELSE calls[p]]

-----------------------------------------------------------------------------
(* put, called alone or for an episode; named is the evidence that the     *)
(* caller of capture says there is, which nobody looks up.                 *)

PutStart(p, id, episode, named) ==
    /\ doing[p] = Idle
    /\ doing' = [doing EXCEPT ![p] =
          [call |-> "put", id |-> id, episode |-> episode, named |-> named, step |-> "look"]]
    /\ UNCHANGED <<file, changes, checks, episodes, ever>>

\* A mutant of PutLook: the episode is stored before its evidence.
PutLookCiting(p) ==
    /\ doing[p].call = "put" /\ doing[p].step = "look"
    /\ doing' = [doing EXCEPT ![p] = [@ EXCEPT !.step = IF doing[p].episode THEN "cite" ELSE "write"]]
    /\ UNCHANGED <<file, changes, checks, episodes, ever>>

\* Whatever is under the path, it is not overwritten.
PutLook(p) ==
    /\ doing[p].call = "put" /\ doing[p].step = "look"
    /\ doing' = [doing EXCEPT ![p] =
                    IF file[@.id] = Absent THEN [@ EXCEPT !.step = "write"]
                    ELSE IF @.episode THEN [@ EXCEPT !.step = "cite"] ELSE Idle]
    /\ UNCHANGED <<file, changes, checks, episodes, ever>>

\* atomic_write: of two processes that found nothing both write the same.
PutWrite(p) ==
    /\ doing[p].call = "put" /\ doing[p].step = "write"
    /\ changes < MaxChanges
    /\ Becomes(doing[p].id, [object |-> AsPut(doing[p].id), stamp |-> changes + 1])
    /\ doing' = Seeing([doing EXCEPT ![p] = IF @.episode THEN [@ EXCEPT !.step = "cite"] ELSE Idle])
    /\ UNCHANGED <<checks, episodes>>

\* capture writes the episode after its own object, which it adds to what the caller named.
Cite(p) ==
    /\ doing[p].call = "put" /\ doing[p].step = "cite"
    /\ episodes' = episodes \cup {[own |-> doing[p].id, evidence |-> doing[p].named \cup {doing[p].id}]}
    /\ doing' = [doing EXCEPT ![p] = Idle]
    /\ UNCHANGED <<file, changes, checks, ever>>

-----------------------------------------------------------------------------
(* evidence_valid, for one identity.                                       *)

CheckStart(p, id) ==
    /\ doing[p] = Idle
    /\ doing' = [doing EXCEPT ![p] =
          [call |-> "check", id |-> id, step |-> "look", row |-> Absent, key |-> 0, valid |-> FALSE,
           moments |-> Observe([genuine |-> FALSE, other |-> FALSE], id, file[id])]]
    /\ UNCHANGED <<file, changes, checks, episodes, ever>>

At(p, step) == doing[p].call = "check" /\ doing[p].step = step

CheckLook(p) ==
    /\ At(p, "look")
    /\ doing' = [doing EXCEPT ![p].row = checks[doing[p].id], ![p].step = "stat"]
    /\ UNCHANGED <<file, changes, checks, episodes, ever>>

\* A mutant of CheckStat: a row against an object is believed without the stat of the file.
CheckStatForgetting(p) ==
    /\ At(p, "stat")
    /\ LET row == doing[p].row
           f == file[doing[p].id] IN
       doing' = [doing EXCEPT ![p] =
            IF f = Absent THEN [@ EXCEPT !.valid = FALSE, !.step = "answer"]
            ELSE IF row # Absent /\ (~row.valid \/ row.stamp = f.stamp)
                 THEN [@ EXCEPT !.valid = row.valid, !.step = "answer"]
                 ELSE [@ EXCEPT !.key = f.stamp, !.step = "verify"]]
    /\ UNCHANGED <<file, changes, checks, episodes, ever>>

\* A mutant of CheckStat: a file that is not there is remembered like any other.
CheckStatMissing(p) ==
    /\ At(p, "stat")
    /\ doing' = [doing EXCEPT ![p] =
            IF file[@.id] = Absent THEN [@ EXCEPT !.valid = FALSE, !.step = "save"]
            ELSE [@ EXCEPT !.key = file[doing[p].id].stamp, !.step = "verify"]]
    /\ UNCHANGED <<file, changes, checks, episodes, ever>>

\* A file that is not there is not remembered; one with the stat of its row is not read.
CheckStat(p) ==
    /\ At(p, "stat")
    /\ LET row == doing[p].row
           f == file[doing[p].id] IN
       doing' = [doing EXCEPT ![p] =
            IF f = Absent THEN [@ EXCEPT !.valid = FALSE, !.step = "answer"]
            ELSE IF row # Absent /\ row.stamp = f.stamp
                 THEN [@ EXCEPT !.valid = row.valid, !.step = "answer"]
                 ELSE [@ EXCEPT !.key = f.stamp, !.step = "verify"]]
    /\ UNCHANGED <<file, changes, checks, episodes, ever>>

CheckVerify(p) ==
    /\ At(p, "verify")
    /\ doing' = [doing EXCEPT ![p].valid = Get(doing[p].id, file[doing[p].id]), ![p].step = "save"]
    /\ UNCHANGED <<file, changes, checks, episodes, ever>>

\* A mutant of CheckSave: the stat is taken when the row is saved.
CheckSaveLate(p) ==
    /\ At(p, "save")
    /\ file[doing[p].id] # Absent
    /\ checks' = [checks EXCEPT ![doing[p].id] = [stamp |-> file[doing[p].id].stamp, valid |-> doing[p].valid]]
    /\ doing' = [doing EXCEPT ![p].step = "answer"]
    /\ UNCHANGED <<file, changes, episodes, ever>>

\* The row is replaced whole, by whichever process comes last.
CheckSave(p) ==
    /\ At(p, "save")
    /\ checks' = [checks EXCEPT ![doing[p].id] = [stamp |-> doing[p].key, valid |-> doing[p].valid]]
    /\ doing' = [doing EXCEPT ![p].step = "answer"]
    /\ UNCHANGED <<file, changes, episodes, ever>>

CheckDone(p) ==
    /\ At(p, "answer")
    /\ doing' = [doing EXCEPT ![p] = Idle]
    /\ UNCHANGED <<file, changes, checks, episodes, ever>>

-----------------------------------------------------------------------------
\* The files are in a synchronised vault: they may come from anywhere and say anything.
Damage(id, object) ==
    /\ changes < MaxChanges
    /\ Becomes(id, [object |-> object, stamp |-> changes + 1])
    /\ doing' = Seeing(doing)
    /\ UNCHANGED <<checks, episodes>>

Remove(id) ==
    /\ changes < MaxChanges /\ file[id] # Absent
    /\ Becomes(id, Absent)
    /\ doing' = Seeing(doing)
    /\ UNCHANGED <<checks, episodes>>

\* A process dies, or an exception ends its call.
Die(p) ==
    /\ doing[p] # Idle
    /\ doing' = [doing EXCEPT ![p] = Idle]
    /\ UNCHANGED <<file, changes, checks, episodes, ever>>

Next ==
    \/ \E p \in Process, id \in Identity : CheckStart(p, id)
    \/ \E p \in Process, id \in Identity, named \in Citation, e \in BOOLEAN : PutStart(p, id, e, named)
    \/ \E p \in Process :
        \/ PutLook(p) \/ PutWrite(p) \/ Cite(p) \/ Die(p)
        \/ CheckLook(p) \/ CheckStat(p) \/ CheckVerify(p) \/ CheckSave(p) \/ CheckDone(p)
    \/ \E id \in Identity : Remove(id) \/ \E o \in Foreign \cup {AsPut(id)} : Damage(id, o)

Spec == Init /\ [][Next]_vars

-----------------------------------------------------------------------------
\* A row whose stat is that of the file tells whether the file verifies: stats and reads of
\* several processes and changes between them never leave a verdict that outlives its file.
RowsTellTheTruth ==
    \A id \in Identity :
        checks[id] # Absent /\ file[id] # Absent /\ checks[id].stamp = file[id].stamp =>
            checks[id].valid = Get(id, file[id])

\* What passed as proof was genuine at some moment of the check: neither forged content nor
\* another provenance counts, not by way of the table either.
ProofIsGenuine ==
    \A p \in Process : At(p, "answer") /\ doing[p].valid => doing[p].moments.genuine

\* What was refused was at some moment of the check not the object that was put: a verdict
\* against an object does not outlive its repair.
RefusedForCause ==
    \A p \in Process : At(p, "answer") /\ ~doing[p].valid => doing[p].moments.other

\* Every stored episode cites at least its own object, and that had been stored before it,
\* wherever a process dies: an episode may lose the object to others later but is never written
\* without it.  Nothing of the kind is true of the evidence its caller named.
EpisodesHaveEvidence == \A e \in episodes : e.own \in ever /\ e.own \in e.evidence

\* The store is well formed and no episode is in it before its own object.
EpisodesAreSound == TypeOK /\ EpisodesHaveEvidence
=============================================================================
