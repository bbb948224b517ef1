---- MODULE Lifecycle ----
(***************************************************************************)
(* The lifecycle of a memory: learning.py puts candidates into the vault,  *)
(* lifecycle.py lets a reviewer promote, revalidate and replace them, and  *)
(* healing.py heals, compacts and forgets them.                            *)
(*                                                                         *)
(* Every command but remember reads the index first and changes files in a *)
(* semantic transaction afterwards, with no lock in between.  So a command *)
(* is two steps of a process: Read..., which checks and remembers the rows *)
(* it saw, and an Apply..., which is the whole transaction and finds its   *)
(* notes by the paths it saw.  SemanticTransaction justifies that the      *)
(* second is one step and that one that fails changes nothing.             *)
(***************************************************************************)
EXTENDS FiniteSets

CONSTANTS
    Note,        \* memory identities
    Process,     \* kb commands running at the same time
    Perishable,  \* notes with invalidation rules: source hashes, paths, expiry, age
    Contradicts, \* pairs of notes with one claim key and different claim values
    Unauthorized, \* agent instructions nobody authorized
    Hypothesis,  \* notes of the type whose directory is the inbox's
    Trusting,    \* [security] allow_privileged_remember
    Edits        \* bound: what an owner's edit may leave in a note

Finding == {"clean", "secret", "injection"}

ASSUME LifecycleAssumption ==
    /\ Perishable \subseteq Note
    /\ Contradicts \subseteq Note \X Note
    /\ Unauthorized \subseteq Note
    /\ Hypothesis \subseteq Note
    /\ Trusting \in BOOLEAN
    /\ Edits \subseteq Finding

VARIABLES
    status,    \* of the note's file; "none" when there is no file
    place,     \* the directory its file is in, "memory" when there is none
    content,   \* what scan_content finds in it
    lapsed,    \* notes with an invalidation rule that does not hold any more
    retracted, \* notes whose last ledger operation is RETRACT
    job,       \* what each process has read and is about to apply
    reviewed,  \* ghost: notes a reviewer, or a trusted caller, has activated
    marked,    \* ghost: notes that heal has ever marked stale
    overtaken  \* ghost: of each pending command's notes, those whose status or
               \* place another step has changed since the command read them

vars == <<status, place, content, lapsed, retracted, job, reviewed, marked, overtaken>>

Reviewable == {"inbox", "conflicted"}
Retired == {"superseded", "archived", "quarantined"}
Status == Reviewable \cup Retired \cup {"active", "stale"}
Place == {"inbox", "memory", "archive", "quarantine"}
Command == {"idle", "promote", "revalidate", "replace", "archive", "delete",
            "compact", "heal"}

(* A pending command: the notes it retires, the notes it is about, those   *)
(* among them it will move out of the inbox, and where it saw each note.   *)
Idle == [cmd |-> "idle", retire |-> {}, subject |-> {}, move |-> {},
         at |-> [m \in Note |-> "memory"]]

TypeOK ==
    /\ status \in [Note -> Status \cup {"none"}]
    /\ place \in [Note -> Place]
    /\ content \in [Note -> Finding]
    /\ lapsed \subseteq Note
    /\ retracted \subseteq Note
    /\ job \in [Process -> [cmd : Command, retire : SUBSET Note, subject : SUBSET Note,
                            move : SUBSET Note, at : [Note -> Place]]]
    /\ reviewed \subseteq Note
    /\ marked \subseteq Note
    /\ overtaken \in [Process -> SUBSET Note]

Written(m) == status[m] # "none"

----------------------------------------------------------------------------
(* remember: one transaction that reads and writes.                        *)

\* _near_duplicate of kind "conflict".
Conflicts(m) ==
    \E n \in Note : /\ <<m, n>> \in Contradicts
                    /\ status[n] \in {"active", "inbox", "stale", "conflicted"}

\* Mutant: a candidate's own score and --force decide alone.
AdmissionsByScore(m, finding) ==
    IF finding = "injection" THEN {"quarantined"}
    ELSE IF Conflicts(m) THEN {"conflicted"} ELSE {"inbox", "active"}

\* The status of a candidate; reject_secrets has refused secret-bearing ones.
Admissions(m, finding) ==
    IF finding = "injection" THEN {"quarantined"}
    ELSE IF m \in Unauthorized THEN {"inbox"}
    ELSE IF Conflicts(m) THEN {"conflicted"}
    ELSE IF Trusting THEN {"inbox", "active"} ELSE {"inbox"}

\* directory_for_type; every other directory of a type is "memory".
HomeOf(m) == IF m \in Hypothesis THEN "inbox" ELSE "memory"

PlaceOf(m, s) ==
    IF s = "quarantined" THEN "quarantine"
    ELSE IF s \in Reviewable THEN "inbox" ELSE HomeOf(m)

(* What every step that changes the vault does to the ghost of the commands *)
(* that are still pending.                                                  *)
Overtake ==
    overtaken' = [p \in Process |->
        IF job'[p] = Idle THEN {}
        ELSE overtaken[p] \cup {m \in job[p].retire \cup job[p].subject :
                                   status'[m] # status[m] \/ place'[m] # place[m]}]

Remember(m) ==
    /\ ~Written(m)
    /\ \E finding \in Finding \ {"secret"} : \E s \in Admissions(m, finding) :
          /\ status' = [status EXCEPT ![m] = s]
          /\ place' = [place EXCEPT ![m] = PlaceOf(m, s)]
          /\ content' = [content EXCEPT ![m] = finding]
          /\ reviewed' = IF s = "active" /\ Trusting
                         THEN reviewed \cup {m} ELSE reviewed \ {m}
    /\ retracted' = retracted \ {m}
    /\ UNCHANGED <<lapsed, job, marked>>
    /\ Overtake

----------------------------------------------------------------------------
(* What a command reads, before it takes the lock.                         *)

\* Mutant: a conflicted memory is not moved out of the inbox.
ReadsMovingInbox(p, cmd, retire, subject) ==
    /\ job' = [job EXCEPT ![p] =
          [cmd |-> cmd, retire |-> retire, subject |-> subject,
           move |-> {m \in subject : status[m] = "inbox" /\ place[m] = "inbox"},
           at |-> [m \in Note |-> IF m \in retire \cup subject THEN place[m] ELSE "memory"]]]
    /\ UNCHANGED <<status, place, content, lapsed, retracted, reviewed, marked, overtaken>>

Reads(p, cmd, retire, subject) ==
    /\ job' = [job EXCEPT ![p] =
          [cmd |-> cmd, retire |-> retire, subject |-> subject,
           move |-> {m \in subject : cmd \in {"promote", "replace"}
                                        /\ status[m] \in Reviewable /\ place[m] = "inbox"},
           at |-> [m \in Note |-> IF m \in retire \cup subject THEN place[m] ELSE "memory"]]]
    /\ UNCHANGED <<status, place, content, lapsed, retracted, reviewed, marked, overtaken>>

\* _promotion_blockers, as far as content and authorization decide.
Blocked(m) == content[m] # "clean" \/ m \in Unauthorized

\* Mutant: every reviewable memory can be promoted.
ReadPromoteReviewable(p, m) ==
    /\ status[m] \in Reviewable
    /\ ~Blocked(m)
    /\ Reads(p, "promote", {}, {m})

ReadPromote(p, m) ==
    /\ status[m] = "inbox"
    /\ ~Blocked(m)
    /\ Reads(p, "promote", {}, {m})

ReadRevalidate(p, m) ==
    /\ Written(m)
    /\ status[m] \notin Retired
    /\ Reads(p, "revalidate", {}, {m})

\* Mutant: any memory can be the replacement.
ReadReplaceByAny(p, olds, news) ==
    /\ Cardinality(olds) = 1 \/ Cardinality(news) = 1
    /\ olds # {} /\ news # {} /\ olds \cap news = {}
    /\ \A m \in olds : Written(m) /\ status[m] \notin Retired
    /\ \A m \in news : Written(m) /\ (status[m] \in Reviewable => ~Blocked(m))
    /\ Reads(p, "replace", olds, news)

(* supersede (one by one), merge (many by one) and split (one by many).    *)
ReadReplace(p, olds, news) ==
    /\ Cardinality(olds) = 1 \/ Cardinality(news) = 1
    /\ olds # {} /\ news # {} /\ olds \cap news = {}
    /\ \A m \in olds : Written(m) /\ status[m] \notin Retired
    /\ \A m \in news :
          /\ Written(m)
          /\ status[m] \notin Retired \cup {"stale"}
          /\ status[m] \in Reviewable => ~Blocked(m)
    /\ Reads(p, "replace", olds, news)

ReadForget(p, m, hard) ==
    /\ Written(m)
    /\ Reads(p, IF hard THEN "delete" ELSE "archive", {}, {m})

(* Near-duplicates, unused stale or superseded notes, and notes not worth  *)
(* their keep: any notes of these statuses.                                *)
ReadCompact(p, candidates) ==
    /\ candidates # {}
    /\ \A m \in candidates : status[m] \in {"active", "inbox", "stale", "superseded"}
    /\ Reads(p, "compact", {}, candidates)

\* Validator.validate looks at every note, whatever its status.
Unsafe == {m \in Note : Written(m) /\ content[m] # "clean"}
Invalidated == {m \in lapsed : Written(m)}

(* plan: subject holds what will be quarantined, retire what will be marked *)
(* stale.                                                                   *)
ReadHeal(p) ==
    /\ Unsafe \cup Invalidated # {}
    /\ Reads(p, "heal", Invalidated, Unsafe)

----------------------------------------------------------------------------
(* The transactions.                                                       *)

\* Mutants: notes are looked for by their type's directory; a path needs no file.
FoundByType(p, m) == Written(m) /\ place[m] = "memory"
FoundByPath(p, m) == place[m] = job[p].at[m]

Found(p, m) == Written(m) /\ place[m] = job[p].at[m]

Finish(p) ==
    /\ job' = [job EXCEPT ![p] = Idle]
    /\ Overtake

ApplyPromote(p) ==
    /\ job[p].cmd = "promote"
    /\ \A m \in job[p].subject : Found(p, m)
    /\ status' = [m \in Note |-> IF m \in job[p].subject THEN "active" ELSE status[m]]
    /\ place' = [m \in Note |-> IF m \in job[p].move THEN HomeOf(m) ELSE place[m]]
    /\ reviewed' = reviewed \cup job[p].subject
    /\ retracted' = retracted \ job[p].subject
    /\ Finish(p)
    /\ UNCHANGED <<content, lapsed, marked>>

(* The rules hold again when the digests are rebound or the age restarts;  *)
(* a path pattern or an expiry date stays as it is.                        *)
ApplyRevalidate(p) ==
    /\ job[p].cmd = "revalidate"
    /\ \A m \in job[p].subject : Found(p, m)
    /\ status' = [m \in Note |-> IF m \in job[p].subject /\ status[m] = "stale"
                                 THEN "active" ELSE status[m]]
    /\ reviewed' = reviewed \cup {m \in job[p].subject : status[m] = "stale"}
    /\ lapsed' \in {lapsed, lapsed \ job[p].subject}
    /\ retracted' = retracted \ job[p].subject
    /\ UNCHANGED <<place, content, marked>>
    /\ Finish(p)

\* Mutant: successors that are not there are skipped.
ApplyReplaceSkipping(p) ==
    /\ job[p].cmd = "replace"
    /\ \A m \in job[p].retire : Found(p, m)
    /\ status' = [m \in Note |->
          IF m \in job[p].retire THEN "superseded"
          ELSE IF m \in job[p].subject /\ Found(p, m) THEN "active" ELSE status[m]]
    /\ place' = [m \in Note |-> IF m \in job[p].move /\ Found(p, m) THEN HomeOf(m) ELSE place[m]]
    /\ reviewed' = reviewed \cup job[p].subject
    /\ retracted' = retracted \ (job[p].retire \cup job[p].subject)
    /\ Finish(p)
    /\ UNCHANGED <<content, lapsed, marked>>

ApplyReplace(p) ==
    /\ job[p].cmd = "replace"
    /\ \A m \in job[p].retire \cup job[p].subject : Found(p, m)
    /\ status' = [m \in Note |->
          IF m \in job[p].retire THEN "superseded"
          ELSE IF m \in job[p].subject THEN "active" ELSE status[m]]
    /\ place' = [m \in Note |-> IF m \in job[p].move THEN HomeOf(m) ELSE place[m]]
    /\ reviewed' = reviewed \cup job[p].subject
    /\ retracted' = retracted \ (job[p].retire \cup job[p].subject)
    /\ Finish(p)
    /\ UNCHANGED <<content, lapsed, marked>>

\* _archive, of a note forgotten softly (which must be there) ...
Archive(ms) ==
    /\ status' = [m \in Note |-> IF m \in ms THEN "archived" ELSE status[m]]
    /\ place' = [m \in Note |-> IF m \in ms THEN "archive" ELSE place[m]]
    /\ retracted' = retracted \ ms
    /\ UNCHANGED <<content, lapsed, reviewed, marked>>

ApplyForget(p) ==
    /\ job[p].cmd = "archive"
    /\ \A m \in job[p].subject : Found(p, m)
    /\ Archive(job[p].subject)
    /\ Finish(p)

\* ... and of the compaction candidates that are still there.
ApplyCompact(p) ==
    /\ job[p].cmd = "compact"
    /\ Archive({m \in job[p].subject : Found(p, m)})
    /\ Finish(p)

(* forget --hard: unlink(missing_ok=True), then the RETRACT record.        *)
ApplyDelete(p) ==
    /\ job[p].cmd = "delete"
    /\ status' = [m \in Note |-> IF m \in job[p].subject /\ Found(p, m)
                                 THEN "none" ELSE status[m]]
    /\ place' = [m \in Note |-> IF m \in job[p].subject /\ Found(p, m)
                                THEN "memory" ELSE place[m]]
    /\ content' = [m \in Note |-> IF m \in job[p].subject /\ Found(p, m)
                                  THEN "clean" ELSE content[m]]
    /\ lapsed' = {m \in lapsed : m \in job[p].subject => ~Found(p, m)}
    /\ retracted' = retracted \cup job[p].subject
    /\ Finish(p)
    /\ UNCHANGED <<reviewed, marked>>

(* The quarantine actions come first, because the scan issues do; they     *)
(* move the note, unless it is in the quarantine directory already, and    *)
(* redact secrets: those in strings, so that one which the scan finds in   *)
(* the text of other metadata may be kept.  A mark-stale action finds only *)
(* notes not moved.                                                        *)
Quarantined(p) == {m \in job[p].subject : Found(p, m)}
MarkedStale(p) ==
    {m \in job[p].retire : Found(p, m) /\ (m \in Quarantined(p) => place[m] = "quarantine")}

ApplyHeal(p) ==
    /\ job[p].cmd = "heal"
    /\ status' = [m \in Note |->
          IF m \in MarkedStale(p) THEN "stale"
          ELSE IF m \in Quarantined(p) THEN "quarantined" ELSE status[m]]
    /\ place' = [m \in Note |-> IF m \in Quarantined(p) THEN "quarantine" ELSE place[m]]
    /\ \E redacted \in SUBSET Quarantined(p) :
          content' = [m \in Note |-> IF m \in redacted /\ content[m] = "secret"
                                     THEN "clean" ELSE content[m]]
    /\ retracted' = retracted \ (Quarantined(p) \cup MarkedStale(p))
    /\ marked' = marked \cup MarkedStale(p)
    /\ Finish(p)
    /\ UNCHANGED <<lapsed, reviewed>>

(* A note is not where it was read, or the transaction fails otherwise.    *)
Abort(p) ==
    /\ job[p] # Idle
    /\ UNCHANGED <<status, place, content, lapsed, retracted, reviewed, marked>>
    /\ Finish(p)

----------------------------------------------------------------------------
(* The world: sources change and time passes; an owner edits a note.       *)

Lapse(m) ==
    /\ m \in Perishable \ lapsed
    /\ Written(m)
    /\ lapsed' = lapsed \cup {m}
    /\ UNCHANGED <<status, place, content, retracted, job, reviewed, marked, overtaken>>

Edit(m, finding) ==
    /\ Written(m)
    /\ content' = [content EXCEPT ![m] = finding]
    /\ UNCHANGED <<status, place, lapsed, retracted, job, reviewed, marked, overtaken>>

----------------------------------------------------------------------------
Init ==
    /\ status = [m \in Note |-> "none"]
    /\ place = [m \in Note |-> "memory"]
    /\ content = [m \in Note |-> "clean"]
    /\ lapsed = {}
    /\ retracted = {}
    /\ job = [p \in Process |-> Idle]
    /\ reviewed = {}
    /\ marked = {}
    /\ overtaken = [p \in Process |-> {}]

Read(p) ==
    LET there == {m \in Note : Written(m)} IN
    /\ job[p] = Idle
    /\ \/ \E m \in there :
             \/ ReadPromote(p, m) \/ ReadRevalidate(p, m)
             \/ \E hard \in BOOLEAN : ReadForget(p, m, hard)
       \/ \E olds, news \in SUBSET there : ReadReplace(p, olds, news)
       \/ \E candidates \in SUBSET there : ReadCompact(p, candidates)
       \/ ReadHeal(p)

Apply(p) ==
    \/ ApplyPromote(p) \/ ApplyRevalidate(p) \/ ApplyReplace(p)
    \/ ApplyForget(p) \/ ApplyDelete(p) \/ ApplyCompact(p) \/ ApplyHeal(p)

Next ==
    \/ \E p \in Process : Read(p) \/ Apply(p) \/ Abort(p)
    \/ \E m \in Note :
          \/ Remember(m) \/ Lapse(m)
          \/ \E finding \in Edits : Edit(m, finding)

Spec == Init /\ [][Next]_vars

----------------------------------------------------------------------------
(* Properties.                                                             *)

\* The step that ends the command of p, which another step had overtaken on m.
OvertakenOn(p, m) == m \in overtaken[p] /\ job'[p] = Idle

\* The step in which p heals m, whose rule it had found broken.
HealedBy(p, m) == job[p].cmd = "heal" /\ m \in job[p].retire /\ job'[p] = Idle

(* Retirement is final: whatever is superseded, archived or quarantined is  *)
(* not made retrievable or reviewable again (RETIRED in _activate, _replace *)
(* and revalidate) but by a healer that had found its rule broken, or by a  *)
(* command that had read it before another step retired or moved it: no     *)
(* command checks again under the lock.                                     *)
RetiredStaysRetired ==
    [][\A m \in Note :
          status[m] \in Retired /\ status'[m] \notin Retired \cup {"none"} =>
              \E p \in Process : HealedBy(p, m) \/ OvertakenOn(p, m)]_vars

(* A contested memory stops being contested when it is retired or deleted,  *)
(* when it becomes active in a replacement that retires another for it      *)
(* (promote's message points to kb supersede), or when a healer that had    *)
(* found its rule broken marks it stale, after which revalidate can make it *)
(* active with nothing replaced.  Otherwise only by a command another step  *)
(* had overtaken.                                                           *)
ConflictOnlyLeftSo ==
    [][\A m \in Note :
          status[m] = "conflicted" /\ status'[m] \notin Retired \cup {"none", "conflicted"} =>
              \/ /\ status'[m] = "active"
                 /\ \E n \in Note : status'[n] = "superseded"
                       /\ \/ status[n] \notin Retired
                          \/ \E p \in Process : OvertakenOn(p, n)
              \/ /\ status'[m] = "stale"
                 /\ \E p \in Process : HealedBy(p, m)
              \/ \E p \in Process : OvertakenOn(p, m)]_vars

(* A memory whose last ledger operation is RETRACT is not in the vault,     *)
(* unless the forget --hard that recorded it had been overtaken: it deletes *)
(* the path it read before the lock, and the note was somewhere else.       *)
RetractedIsGone ==
    [][\A m \in Note :
          (m \in retracted /\ Written(m))' =>
              \/ m \in retracted /\ Written(m)
              \/ \E p \in Process : job[p].cmd = "delete" /\ OvertakenOn(p, m)]_vars

(* An active memory is in the directory of its type, where its owner reads  *)
(* it, and not in the archive, the quarantine or, but for hypotheses, the   *)
(* inbox, in whatever order commands that read earlier change the vault     *)
(* (_activate, _archive, move_into).  Said of memories that no healer has   *)
(* marked stale: those stay where they were, and revalidate activates them  *)
(* there.                                                                   *)
ActiveIsFiled ==
    \A m \in Note \ marked : status[m] = "active" => place[m] = HomeOf(m)

(* Whatever retrieval may deliver, active or stale, has been activated by a *)
(* reviewer or a trusted caller, or was marked stale by a healer, which     *)
(* does not ask whether it had been let in.                                 *)
RetrievableIsReviewed ==
    \A m \in Note :
        /\ status[m] = "active" => m \in reviewed
        /\ status[m] = "stale" => m \in marked

(* An agent instruction nobody authorized is not active, whichever command  *)
(* the reviewer tries (instruction_authorized, _raise_blockers), as long as *)
(* no healer has marked it stale: revalidate asks for no authorization.     *)
UnauthorizedStaysOut == \A m \in Unauthorized \ marked : status[m] # "active"

(* The two of them, for memories of the kinds the vault can hold: retrieval *)
(* is offered only what was let in, or what heal has marked stale because   *)
(* its rule was broken.                                                     *)
OnlyAdmitted ==
    TypeOK /\ RetrievableIsReviewed /\ UnauthorizedStaysOut /\ marked \subseteq Perishable

(* A memory that was hard-deleted while a command was about to change it    *)
(* does not come back through that command.                                 *)
ForgottenStaysForgotten ==
    [][\A m \in Note : ~Written(m) /\ Written(m)' => job' = job]_vars

(* No memory is superseded, merged or split without a successor that is     *)
(* active from that moment on, even when the successor was forgotten, moved *)
(* or quarantined after the command had read it (_replace).                 *)
ReplacedBySomething ==
    [][\A m \in Note : status[m] # "superseded" /\ status'[m] = "superseded" =>
          \E n \in Note \ {m} : status'[n] = "active"]_vars

(* The documents: a candidate "lands in the inbox and is not retrieved      *)
(* until a reviewer promotes it".                                           *)
RetrievedWasPromoted ==
    \A m \in Note : status[m] \in {"active", "stale"} => m \in reviewed

(* The message of promote: "only inbox memories can be promoted".           *)
OnlyInboxPromoted ==
    [][\A p \in Process, m \in Note :
          job[p].cmd = "promote" /\ m \in job[p].subject /\ status'[m] # status[m]
          /\ job'[p] = Idle
              => status[m] = "inbox"]_vars

====
