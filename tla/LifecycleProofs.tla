-------------------------- MODULE LifecycleProofs --------------------------
(***************************************************************************)
(* What holds of any number of memories and of any number of commands that *)
(* run at the same time.  First the types.  Then what activation rests on, *)
(* with the invariant IInv: how a memory is admitted and filed.  Then what *)
(* commands may do to notes they read before the lock, with the invariant  *)
(* Current: a pending command still finds as it read them those of its     *)
(* notes on which no other step has overtaken it.                          *)
(***************************************************************************)
EXTENDS Lifecycle, TLAPS

-----------------------------------------------------------------------------
(* The types.                                                              *)

Jobs == [cmd : Command, retire : SUBSET Note, subject : SUBSET Note,
         move : SUBSET Note, at : [Note -> Place]]

LEMMA IdleIsAJob == Idle \in Jobs
BY DEF Idle, Command, Place, Jobs

LEMMA InitType == Init => TypeOK
BY IdleIsAJob DEF Init, TypeOK, Status, Place, Finding, Jobs

LEMMA OvertakeType == ASSUME TypeOK, Overtake PROVE overtaken' \in [Process -> SUBSET Note]
BY DEF TypeOK, Overtake

\* A transaction ends its command: no other job changes.
LEMMA FinishType ==
    ASSUME TypeOK, NEW p \in Process, Finish(p)
    PROVE  /\ job' \in [Process -> Jobs] /\ overtaken' \in [Process -> SUBSET Note]
           /\ \A q \in Process : job'[q] = IF q = p THEN Idle ELSE job[q]
BY IdleIsAJob, OvertakeType DEF Finish, TypeOK, Jobs

\* What a command reads: its job is about the notes, with the places it saw.
LEMMA ReadsType ==
    ASSUME TypeOK, NEW p \in Process, NEW cmd \in Command, NEW retire \in SUBSET Note,
           NEW subject \in SUBSET Note, Reads(p, cmd, retire, subject)
    PROVE  /\ TypeOK'
           /\ UNCHANGED <<status, place, content, lapsed, retracted, reviewed, marked, overtaken>>
           /\ \A q \in Process : q # p => job'[q] = job[q]
           /\ job'[p].cmd = cmd /\ job'[p].retire = retire /\ job'[p].subject = subject
           /\ \A m \in retire \cup subject : job'[p].at[m] = place[m]
           /\ job'[p].move \subseteq subject
           /\ cmd \in {"promote", "replace"} =>
                 \A m \in subject :
                     m \in job'[p].move <=> status[m] \in Reviewable /\ place[m] = "inbox"
<1> DEFINE new == [cmd |-> cmd, retire |-> retire, subject |-> subject,
                   move |-> {m \in subject : cmd \in {"promote", "replace"}
                                                /\ status[m] \in Reviewable /\ place[m] = "inbox"},
                   at |-> [m \in Note |-> IF m \in retire \cup subject
                                          THEN place[m] ELSE "memory"]]
<1>1. /\ new \in Jobs
      /\ new.cmd = cmd /\ new.retire = retire /\ new.subject = subject
      /\ \A m \in retire \cup subject : new.at[m] = place[m]
      /\ new.move \subseteq subject
      /\ cmd \in {"promote", "replace"} =>
            \A m \in subject : m \in new.move <=> status[m] \in Reviewable /\ place[m] = "inbox"
    BY DEF TypeOK, Place, Jobs
<1>2. /\ job' = [job EXCEPT ![p] = new]
      /\ UNCHANGED <<status, place, content, lapsed, retracted, reviewed, marked, overtaken>>
    BY DEF Reads
<1> HIDE DEF new
<1>3. job' \in [Process -> Jobs] /\ \A q \in Process : job'[q] = IF q = p THEN new ELSE job[q]
    BY <1>1, <1>2 DEF TypeOK, Jobs
<1>4. TypeOK'
    BY <1>2, <1>3 DEF TypeOK, Jobs
<1> QED
    BY <1>1, <1>2, <1>3, <1>4

LEMMA ReadType == ASSUME TypeOK, NEW p \in Process, Read(p) PROVE TypeOK'
<1>1. ASSUME NEW m \in Note, ReadPromote(p, m) \/ ReadRevalidate(p, m) PROVE TypeOK'
    BY <1>1, ReadsType DEF ReadPromote, ReadRevalidate, Command
<1>2. ASSUME NEW m \in Note, NEW hard \in BOOLEAN, ReadForget(p, m, hard) PROVE TypeOK'
    <2>1. (IF hard THEN "delete" ELSE "archive") \in Command
        BY DEF Command
    <2> QED
        BY <1>2, <2>1, ReadsType DEF ReadForget
<1>3. ASSUME NEW olds \in SUBSET Note, NEW news \in SUBSET Note, ReadReplace(p, olds, news) PROVE TypeOK'
    BY <1>3, ReadsType DEF ReadReplace, Command
<1>4. ASSUME NEW candidates \in SUBSET Note, ReadCompact(p, candidates) PROVE TypeOK'
    BY <1>4, ReadsType DEF ReadCompact, Command
<1>5. ASSUME ReadHeal(p) PROVE TypeOK'
    <2>1. Reads(p, "heal", Invalidated, Unsafe) /\ Unsafe \in SUBSET Note /\ Invalidated \in SUBSET Note
        BY <1>5 DEF ReadHeal, Invalidated, Unsafe, TypeOK
    <2> QED
        BY <2>1, ReadsType DEF Command
<1> QED
    BY <1>1, <1>2, <1>3, <1>4, <1>5 DEF Read

LEMMA ApplyType == ASSUME TypeOK, NEW p \in Process, Apply(p) PROVE TypeOK'
<1> USE DEF TypeOK, Status, Place, Retired, Finding, HomeOf
<1>0. job[p] \in Jobs
    BY DEF Jobs
<1>1. ASSUME ApplyPromote(p) PROVE TypeOK'
    BY <1>0, <1>1, FinishType DEF ApplyPromote, Jobs
<1>2. ASSUME ApplyRevalidate(p) PROVE TypeOK'
    BY <1>0, <1>2, FinishType DEF ApplyRevalidate, Jobs
<1>3. ASSUME ApplyReplace(p) PROVE TypeOK'
    BY <1>0, <1>3, FinishType DEF ApplyReplace, Jobs
<1>4. ASSUME ApplyForget(p) PROVE TypeOK'
    BY <1>0, <1>4, FinishType DEF ApplyForget, Archive, Jobs
<1>5. ASSUME ApplyCompact(p) PROVE TypeOK'
    BY <1>0, <1>5, FinishType DEF ApplyCompact, Archive, Jobs
<1>6. ASSUME ApplyDelete(p) PROVE TypeOK'
    BY <1>0, <1>6, FinishType DEF ApplyDelete, Jobs
<1>7. ASSUME ApplyHeal(p) PROVE TypeOK'
    <2>1. MarkedStale(p) \subseteq Note
        BY <1>0 DEF MarkedStale, Jobs
    <2>2. content' \in [Note -> Finding]
        BY <1>7 DEF ApplyHeal
    <2> QED
        BY <1>7, <2>1, <2>2, FinishType DEF ApplyHeal, Jobs
<1> QED
    BY <1>1, <1>2, <1>3, <1>4, <1>5, <1>6, <1>7 DEF Apply

\* What remember writes.
LEMMA RememberWrites ==
    ASSUME TypeOK, NEW m \in Note, Remember(m)
    PROVE  \E s \in {"quarantined", "inbox", "conflicted", "active"}, finding \in Finding :
              /\ status' = [status EXCEPT ![m] = s]
              /\ place' = [place EXCEPT ![m] = PlaceOf(m, s)]
              /\ content' = [content EXCEPT ![m] = finding]
              /\ s = "active" => reviewed' = reviewed \cup {m} /\ m \notin Unauthorized
              /\ s # "active" => reviewed' = reviewed \ {m}
BY DEF Remember, Admissions

LEMMA RememberType == ASSUME TypeOK, NEW m \in Note, Remember(m) PROVE TypeOK'
<1>1. PICK s \in {"quarantined", "inbox", "conflicted", "active"}, finding \in Finding :
          /\ status' = [status EXCEPT ![m] = s]
          /\ place' = [place EXCEPT ![m] = PlaceOf(m, s)]
          /\ content' = [content EXCEPT ![m] = finding]
          /\ s = "active" => reviewed' = reviewed \cup {m} /\ m \notin Unauthorized
          /\ s # "active" => reviewed' = reviewed \ {m}
    BY RememberWrites
<1>2. s \in Status /\ PlaceOf(m, s) \in Place
    BY DEF Status, Retired, Reviewable, PlaceOf, HomeOf, Place
<1>3. reviewed' \subseteq Note
    BY <1>1 DEF TypeOK
<1> QED
    BY <1>1, <1>2, <1>3, OvertakeType DEF Remember, TypeOK

LEMMA TypeKeeps == ASSUME TypeOK, [Next]_vars PROVE TypeOK'
<1>1. ASSUME NEW p \in Process, Abort(p) PROVE TypeOK'
    BY <1>1, FinishType DEF Abort, TypeOK, Jobs
<1>2. ASSUME NEW m \in Note, Lapse(m) PROVE TypeOK'
    BY <1>2 DEF Lapse, TypeOK
<1>3. ASSUME NEW m \in Note, NEW finding \in Edits, Edit(m, finding) PROVE TypeOK'
    BY <1>3, LifecycleAssumption DEF Edit, TypeOK
<1>4. CASE UNCHANGED vars
    BY <1>4 DEF vars, TypeOK
<1> QED
    BY <1>1, <1>2, <1>3, <1>4, ReadType, ApplyType, RememberType DEF Next

-----------------------------------------------------------------------------
(* How a memory is admitted and filed.                                     *)

\* Only memories with invalidation rules become stale, and by a healer alone.
Healed ==
    /\ lapsed \subseteq Perishable
    /\ marked \subseteq Perishable
    /\ \A m \in Note : status[m] = "stale" => m \in marked
    /\ \A p \in Process : job[p].cmd = "heal" => job[p].retire \subseteq Perishable

\* What a pending command is about to activate was fit for it when it was read.
Fit(p) ==
    job[p].cmd \in {"promote", "replace"} =>
        /\ job[p].move \subseteq job[p].subject
        /\ \A m \in job[p].subject \ marked :
              /\ m \notin Unauthorized
              /\ job[p].at[m] = HomeOf(m) \/ (job[p].at[m] = "inbox" /\ m \in job[p].move)

\* A replacement has a successor, which it does not retire.
Succeeded(p) ==
    job[p].cmd = "replace" => job[p].subject # {} /\ job[p].subject \cap job[p].retire = {}

Filed ==
    \A m \in Note \ marked :
        /\ status[m] = "active" => place[m] = HomeOf(m)
        /\ status[m] \in Reviewable => place[m] = "inbox"

Admitted ==
    \A m \in Note :
        status[m] = "active" => m \in reviewed /\ (m \notin marked => m \notin Unauthorized)

IInv ==
    /\ TypeOK
    /\ Healed
    /\ Filed
    /\ Admitted
    /\ \A p \in Process : Fit(p) /\ Succeeded(p)

-----------------------------------------------------------------------------
\* The states in which commands start satisfy the invariant.
LEMMA InitInv == Init => IInv
<1> SUFFICES ASSUME Init PROVE IInv
    OBVIOUS
<1>1. Healed /\ \A p \in Process : Fit(p) /\ Succeeded(p)
    BY DEF Init, Healed, Fit, Succeeded, Idle
<1>2. Filed /\ Admitted
    BY DEF Init, Filed, Admitted, Reviewable
<1> QED BY <1>1, <1>2, InitType DEF IInv

\* A job that is read as the commands read it keeps the invariant.
LEMMA ReadingInv ==
    ASSUME IInv, NEW p \in Process, NEW cmd \in Command \ {"idle"},
           NEW retire \in SUBSET Note, NEW subject \in SUBSET Note,
           Reads(p, cmd, retire, subject),
           cmd = "heal" => retire \subseteq Perishable,
           cmd \in {"promote", "replace"} =>
               \A m \in subject \ marked :
                   m \notin Unauthorized /\ status[m] \in Reviewable \cup {"active"},
           cmd = "replace" => subject # {} /\ subject \cap retire = {}
    PROVE  IInv'
<1>1. /\ TypeOK'
      /\ UNCHANGED <<status, place, content, lapsed, retracted, reviewed, marked, overtaken>>
      /\ \A q \in Process : q # p => job'[q] = job[q]
      /\ job'[p].cmd = cmd /\ job'[p].retire = retire /\ job'[p].subject = subject
      /\ \A m \in retire \cup subject : job'[p].at[m] = place[m]
      /\ job'[p].move \subseteq subject
      /\ cmd \in {"promote", "replace"} =>
            \A m \in subject :
                m \in job'[p].move <=> status[m] \in Reviewable /\ place[m] = "inbox"
    BY ReadsType DEF IInv
<1>2. Healed' /\ Filed' /\ Admitted'
    BY <1>1 DEF IInv, Healed, Filed, Admitted
<1>3. ASSUME NEW q \in Process PROVE Fit(q)' /\ Succeeded(q)'
  <2>1. CASE q # p
    BY <1>1, <2>1 DEF IInv, Fit, Succeeded
  <2>2. CASE q = p
    <3>1. Succeeded(q)'
        BY <1>1, <2>2 DEF Succeeded
    <3>2. \A m \in subject \ marked : status[m] \in Reviewable \cup {"active"} =>
              place[m] = HomeOf(m) \/ (place[m] = "inbox" /\ status[m] \in Reviewable)
        BY DEF IInv, Filed
    <3>3. Fit(q)'
        BY <1>1, <2>2, <3>2 DEF Fit
    <3> QED BY <3>1, <3>3
  <2> QED BY <2>1, <2>2
<1> QED BY <1>1, <1>2, <1>3 DEF IInv

\* Each command reads so.
LEMMA ReadInv == ASSUME IInv, NEW p \in Process, Read(p) PROVE IInv'
<1>1. ASSUME NEW m \in Note, ReadPromote(p, m) PROVE IInv'
    BY <1>1, ReadingInv DEF ReadPromote, Blocked, Command, Reviewable
<1>2. ASSUME NEW m \in Note, ReadRevalidate(p, m) PROVE IInv'
    BY <1>2, ReadingInv DEF ReadRevalidate, Command
<1>3. ASSUME NEW m \in Note, NEW hard \in BOOLEAN, ReadForget(p, m, hard) PROVE IInv'
  <2>1. CASE hard
    BY <1>3, <2>1, ReadingInv DEF ReadForget, Command
  <2>2. CASE ~hard
    BY <1>3, <2>2, ReadingInv DEF ReadForget, Command
  <2> QED BY <2>1, <2>2
<1>4. ASSUME NEW olds \in SUBSET Note, NEW news \in SUBSET Note, ReadReplace(p, olds, news)
      PROVE IInv'
  <2>1. \A m \in news \ marked : m \notin Unauthorized /\ status[m] \in Reviewable \cup {"active"}
    BY <1>4 DEF ReadReplace, Blocked, Written, IInv, TypeOK, Admitted, Status, Retired, Reviewable
  <2>2. Reads(p, "replace", olds, news) /\ news # {} /\ news \cap olds = {}
    BY <1>4 DEF ReadReplace
  <2> QED BY <2>1, <2>2, ReadingInv DEF Command
<1>5. ASSUME NEW candidates \in SUBSET Note, ReadCompact(p, candidates) PROVE IInv'
    BY <1>5, ReadingInv DEF ReadCompact, Command
<1>6. ASSUME ReadHeal(p) PROVE IInv'
  <2>1. /\ Reads(p, "heal", Invalidated, Unsafe) /\ Unsafe \in SUBSET Note
        /\ Invalidated \in SUBSET Note /\ Invalidated \subseteq Perishable
    BY <1>6 DEF ReadHeal, Invalidated, Unsafe, IInv, TypeOK, Healed
  <2> QED BY <2>1, ReadingInv DEF Command
<1> QED BY <1>1, <1>2, <1>3, <1>4, <1>5, <1>6 DEF Read

-----------------------------------------------------------------------------
\* What remains known of the other commands when one ends.
LEMMA FinishInv ==
    ASSUME IInv, NEW p \in Process, Finish(p), marked \subseteq marked'
    PROVE  /\ \A q \in Process : job'[q].cmd = "heal" => job'[q].retire \subseteq Perishable
           /\ \A q \in Process : Fit(q)' /\ Succeeded(q)'
<1>1. \A q \in Process : job'[q] = IF q = p THEN Idle ELSE job[q]
    BY FinishType DEF IInv
<1>2. Idle.cmd = "idle"
    BY DEF Idle
<1>3. \A q \in Process : job'[q].cmd = "heal" => job'[q].retire \subseteq Perishable
    BY <1>1, <1>2 DEF IInv, Healed
<1>4. ASSUME NEW q \in Process PROVE Fit(q)' /\ Succeeded(q)'
    BY <1>1, <1>2 DEF IInv, Fit, Succeeded
<1> QED BY <1>3, <1>4

\* What a command found where it had seen it is fit to be active and filed by its move.
LEMMA FoundIsFit ==
    ASSUME IInv, NEW p \in Process, job[p].cmd \in {"promote", "replace"},
           NEW m \in job[p].subject \ marked, Found(p, m)
    PROVE  /\ m \in Note /\ m \notin Unauthorized
           /\ m \notin job[p].move => place[m] = HomeOf(m)
BY DEF IInv, TypeOK, Fit, Found

LEMMA PromoteInv == ASSUME IInv, NEW p \in Process, ApplyPromote(p) PROVE IInv'
<1>1. Finish(p) /\ job[p].cmd = "promote" /\ \A m \in job[p].subject : Found(p, m)
    BY DEF ApplyPromote
<1>2. /\ \A m \in job[p].subject \ marked :
            m \notin Unauthorized /\ (m \notin job[p].move => place[m] = HomeOf(m))
      /\ job[p].subject \subseteq Note /\ job[p].move \subseteq job[p].subject
    BY <1>1, FoundIsFit DEF IInv, TypeOK, Fit
<1>3. TypeOK' /\ marked' = marked
    BY ApplyType DEF Apply, IInv, ApplyPromote
<1>4. Healed'
    BY <1>1, <1>3, FinishInv DEF ApplyPromote, IInv, Healed
<1>5. Admitted'
    BY <1>2 DEF ApplyPromote, IInv, Admitted
<1>6. Filed'
    BY <1>2 DEF ApplyPromote, IInv, Filed, Reviewable
<1> QED BY <1>1, <1>3, <1>4, <1>5, <1>6, FinishInv DEF IInv

LEMMA ReplaceInv == ASSUME IInv, NEW p \in Process, ApplyReplace(p) PROVE IInv'
<1>1. /\ Finish(p) /\ job[p].cmd = "replace"
      /\ \A m \in job[p].retire \cup job[p].subject : Found(p, m)
    BY DEF ApplyReplace
<1>2. /\ \A m \in job[p].subject \ marked :
            m \notin Unauthorized /\ (m \notin job[p].move => place[m] = HomeOf(m))
      /\ job[p].subject \subseteq Note /\ job[p].move \subseteq job[p].subject
      /\ job[p].subject \cap job[p].retire = {}
    BY <1>1, FoundIsFit DEF IInv, TypeOK, Fit, Succeeded
<1>3. TypeOK' /\ marked' = marked
    BY ApplyType DEF Apply, IInv, ApplyReplace
<1>4. Healed'
    BY <1>1, <1>3, FinishInv DEF ApplyReplace, IInv, Healed
<1>5. Admitted'
    BY <1>2 DEF ApplyReplace, IInv, Admitted
<1>6. Filed'
    BY <1>2 DEF ApplyReplace, IInv, Filed, Reviewable
<1> QED BY <1>1, <1>3, <1>4, <1>5, <1>6, FinishInv DEF IInv

\* revalidate activates stale memories, which a healer has marked.
LEMMA RevalidateInv == ASSUME IInv, NEW p \in Process, ApplyRevalidate(p) PROVE IInv'
<1>1. Finish(p) /\ TypeOK' /\ marked' = marked /\ lapsed' \subseteq lapsed /\ place' = place
    BY ApplyType DEF Apply, IInv, ApplyRevalidate
<1>2. /\ \A m \in Note \ marked : status'[m] = status[m]
      /\ \A m \in Note : status'[m] # status[m] =>
            status'[m] = "active" /\ m \in reviewed' /\ m \in marked
      /\ reviewed \subseteq reviewed'
    BY DEF ApplyRevalidate, IInv, TypeOK, Healed
<1>3. Healed' /\ Admitted' /\ Filed'
    BY <1>1, <1>2, FinishInv DEF IInv, Healed, Admitted, Filed
<1> QED BY <1>1, <1>3, FinishInv DEF IInv

\* forget and compact archive some memories.
LEMMA ArchiveInv ==
    ASSUME IInv, NEW p \in Process, NEW ms \in SUBSET Note, Archive(ms), Finish(p), TypeOK'
    PROVE  IInv'
<1>1. Healed' /\ marked' = marked
    BY FinishInv DEF Archive, IInv, Healed
<1>2. Admitted'
    BY DEF Archive, IInv, Admitted
<1>3. Filed'
    BY DEF Archive, IInv, Filed, Reviewable
<1> QED BY <1>1, <1>2, <1>3, FinishInv DEF IInv

LEMMA DeleteInv == ASSUME IInv, NEW p \in Process, ApplyDelete(p) PROVE IInv'
<1>1. Finish(p) /\ TypeOK' /\ marked' = marked
    BY ApplyType DEF Apply, IInv, ApplyDelete
<1>2. Healed'
    BY <1>1, FinishInv DEF ApplyDelete, IInv, Healed
<1>3. Admitted'
    BY DEF ApplyDelete, IInv, Admitted
<1>4. Filed'
    BY DEF ApplyDelete, IInv, Filed, Reviewable
<1> QED BY <1>1, <1>2, <1>3, <1>4, FinishInv DEF IInv

LEMMA HealInv == ASSUME IInv, NEW p \in Process, ApplyHeal(p) PROVE IInv'
<1>1. Finish(p) /\ TypeOK' /\ marked' = marked \cup MarkedStale(p)
    BY ApplyType DEF Apply, IInv, ApplyHeal
<1>2. MarkedStale(p) \subseteq Perishable
    BY DEF ApplyHeal, IInv, Healed, MarkedStale
<1>3. Healed'
    BY <1>1, <1>2, FinishInv DEF ApplyHeal, IInv, Healed
<1>4. Admitted'
    BY <1>1 DEF ApplyHeal, IInv, Admitted
<1>5. Filed'
    BY <1>1 DEF ApplyHeal, IInv, Filed, Reviewable
<1> QED BY <1>1, <1>3, <1>4, <1>5, FinishInv DEF IInv

LEMMA ApplyInv == ASSUME IInv, NEW p \in Process, Apply(p) PROVE IInv'
<1>0. TypeOK'
    BY ApplyType DEF IInv
<1>1. ASSUME ApplyForget(p) PROVE IInv'
    BY <1>0, <1>1, ArchiveInv DEF ApplyForget, IInv, TypeOK
<1>2. ASSUME ApplyCompact(p) PROVE IInv'
  <2> DEFINE ms == {m \in job[p].subject : Found(p, m)}
  <2>1. ms \in SUBSET Note
    BY DEF IInv, TypeOK
  <2>2. Archive(ms) /\ Finish(p)
    BY <1>2 DEF ApplyCompact
  <2> HIDE DEF ms
  <2> QED BY <1>0, <2>1, <2>2, ArchiveInv
<1> QED BY <1>1, <1>2, PromoteInv, ReplaceInv, RevalidateInv, DeleteInv, HealInv DEF Apply

LEMMA RememberInv == ASSUME IInv, NEW m \in Note, Remember(m) PROVE IInv'
<1>1. PICK s \in {"quarantined", "inbox", "conflicted", "active"}, finding \in Finding :
          /\ status' = [status EXCEPT ![m] = s]
          /\ place' = [place EXCEPT ![m] = PlaceOf(m, s)]
          /\ content' = [content EXCEPT ![m] = finding]
          /\ s = "active" => reviewed' = reviewed \cup {m} /\ m \notin Unauthorized
          /\ s # "active" => reviewed' = reviewed \ {m}
    BY RememberWrites DEF IInv
<1>2. /\ s = "active" => PlaceOf(m, s) = HomeOf(m)
      /\ s \in Reviewable => PlaceOf(m, s) = "inbox"
    BY DEF PlaceOf, Reviewable
<1>3. TypeOK' /\ UNCHANGED <<lapsed, job, marked>>
    BY RememberType DEF IInv, Remember
<1>4. Healed' /\ Admitted'
    BY <1>1, <1>3 DEF IInv, Healed, Admitted, TypeOK
<1>5. Filed'
    BY <1>1, <1>2, <1>3 DEF IInv, Filed, TypeOK
<1>6. \A p \in Process : Fit(p)' /\ Succeeded(p)'
    BY <1>3 DEF IInv, Fit, Succeeded
<1> QED BY <1>3, <1>4, <1>5, <1>6 DEF IInv

\* Every step keeps the invariant.
LEMMA NextInv == ASSUME IInv, [Next]_vars PROVE IInv'
<1>0. TypeOK'
    BY TypeKeeps DEF IInv
<1>1. ASSUME NEW p \in Process, Abort(p) PROVE IInv'
    BY <1>0, <1>1, FinishInv DEF Abort, IInv, Healed, Filed, Admitted
<1>2. ASSUME NEW m \in Note, Lapse(m) PROVE IInv'
    BY <1>0, <1>2 DEF Lapse, IInv, Healed, Filed, Admitted, Fit, Succeeded
<1>3. ASSUME NEW m \in Note, NEW finding \in Edits, Edit(m, finding) PROVE IInv'
    BY <1>0, <1>3 DEF Edit, IInv, Healed, Filed, Admitted, Fit, Succeeded
<1>4. CASE UNCHANGED vars
    BY <1>0, <1>4 DEF vars, IInv, Healed, Filed, Admitted, Fit, Succeeded
<1> QED BY <1>1, <1>2, <1>3, <1>4, ReadInv, ApplyInv, RememberInv DEF Next

\* The invariant holds of every behaviour.
LEMMA Invariance == Spec => []IInv
<1>1. Init => IInv
    BY InitInv
<1>2. IInv /\ [Next]_vars => IInv'
    BY NextInv
<1> QED BY <1>1, <1>2, PTL DEF Spec

-----------------------------------------------------------------------------
(* Retrieval is offered, active or stale, only what a reviewer or a trusted *)
(* caller let in or what a healer marked stale because its rule was broken, *)
(* and no instruction that nobody authorized is active but after such a     *)
(* mark, whatever reviewers, healers and callers do at the same time        *)
(* (learning.py _decide, lifecycle.py _activate and _raise_blockers).       *)
THEOREM AdmissionTheorem == Spec => []OnlyAdmitted
<1>1. ASSUME IInv PROVE OnlyAdmitted
  <2>1. TypeOK /\ marked \subseteq Perishable
    BY <1>1 DEF IInv, Healed
  <2>2. RetrievableIsReviewed
    BY <1>1 DEF IInv, Healed, Admitted, RetrievableIsReviewed
  <2>3. UnauthorizedStaysOut
    BY <1>1, LifecycleAssumption DEF IInv, Admitted, UnauthorizedStaysOut
  <2> QED BY <2>1, <2>2, <2>3 DEF OnlyAdmitted
<1> QED BY <1>1, Invariance, PTL

(* An active memory that no healer has marked stale is in the directory of  *)
(* its type, in whatever order commands that read earlier change the vault  *)
(* (_activate, move_into).                                                  *)
THEOREM FiledTheorem == Spec => []ActiveIsFiled
<1>1. IInv => ActiveIsFiled
    BY DEF IInv, Filed, ActiveIsFiled
<1> QED BY <1>1, Invariance, PTL

(* A memory without invalidation rules is never stale, and when active it   *)
(* was let in, is authorized, and is in the directory of its type: no other *)
(* memory's rules change this.                                              *)
THEOREM DurableTheorem ==
    Spec => [](\A m \in Note \ Perishable :
                   /\ status[m] # "stale"
                   /\ status[m] = "active" =>
                         m \in reviewed /\ m \notin Unauthorized /\ place[m] = HomeOf(m))
<1>1. IInv => \A m \in Note \ Perishable :
                   /\ status[m] # "stale"
                   /\ status[m] = "active" =>
                         m \in reviewed /\ m \notin Unauthorized /\ place[m] = HomeOf(m)
    BY DEF IInv, Healed, Filed, Admitted
<1> QED BY <1>1, Invariance, PTL

(* Only remember writes a memory that is not in the vault: no command       *)
(* brings back what was deleted after it had read it (_find by path).       *)
THEOREM ForgottenTheorem == Spec => ForgottenStaysForgotten
<1>1. ASSUME [Next]_vars
      PROVE  [\A m \in Note : ~Written(m) /\ Written(m)' => job' = job]_vars
  <2> SUFFICES ASSUME NEW m \in Note, ~Written(m), Written(m)' PROVE job' = job
    BY <1>1
  <2>1. ASSUME NEW p \in Process, Apply(p) PROVE FALSE
    <3>1. ASSUME ApplyPromote(p) PROVE FALSE
        BY <3>1 DEF ApplyPromote, Written, Found
    <3>2. ASSUME ApplyRevalidate(p) PROVE FALSE
        BY <3>2 DEF ApplyRevalidate, Written, Found
    <3>3. ASSUME ApplyReplace(p) PROVE FALSE
        BY <3>3 DEF ApplyReplace, Written, Found
    <3>4. ASSUME ApplyForget(p) PROVE FALSE
        BY <3>4 DEF ApplyForget, Archive, Written, Found
    <3>5. ASSUME ApplyDelete(p) PROVE FALSE
        BY <3>5 DEF ApplyDelete, Written, Found
    <3>6. ASSUME ApplyCompact(p) PROVE FALSE
        BY <3>6 DEF ApplyCompact, Archive, Written, Found
    <3>7. ASSUME ApplyHeal(p) PROVE FALSE
        BY <3>7 DEF ApplyHeal, MarkedStale, Quarantined, Written, Found
    <3> QED BY <2>1, <3>1, <3>2, <3>3, <3>4, <3>5, <3>6, <3>7 DEF Apply
  <2>2. ASSUME NEW p \in Process, Read(p) PROVE FALSE
    BY <2>2 DEF Read, ReadPromote, ReadRevalidate, ReadForget, ReadReplace, ReadCompact, ReadHeal,
                Reads, Written
  <2>3. ASSUME NEW p \in Process, Abort(p) PROVE FALSE
    BY <2>3 DEF Abort, Written
  <2>4. ASSUME NEW n \in Note, Remember(n) \/ Lapse(n) \/ \E finding \in Edits : Edit(n, finding)
        PROVE job' = job
    BY <2>4 DEF Remember, Lapse, Edit
  <2> QED BY <1>1, <2>1, <2>2, <2>3, <2>4 DEF Next, vars, Written
<1> QED BY <1>1, PTL DEF Spec, ForgottenStaysForgotten

(* No memory is superseded, merged or split without a successor that is     *)
(* active from that moment on (lifecycle.py _replace).                      *)
THEOREM ReplacedTheorem == Spec => ReplacedBySomething
<1>1. ASSUME IInv, [Next]_vars
      PROVE  [\A m \in Note : status[m] # "superseded" /\ status'[m] = "superseded" =>
                 \E n \in Note \ {m} : status'[n] = "active"]_vars
  <2> SUFFICES ASSUME NEW m \in Note, status[m] # "superseded", status'[m] = "superseded"
               PROVE  \E n \in Note \ {m} : status'[n] = "active"
    BY <1>1
  <2>1. ASSUME NEW p \in Process, ApplyReplace(p)
        PROVE  \E n \in Note \ {m} : status'[n] = "active"
    <3>1. m \in job[p].retire
        BY <2>1 DEF ApplyReplace
    <3>2. PICK n \in job[p].subject : n \notin job[p].retire
        BY <1>1, <2>1 DEF ApplyReplace, IInv, Succeeded
    <3>3. n \in Note \ {m}
        BY <1>1, <3>1, <3>2 DEF IInv, TypeOK
    <3>4. status'[n] = "active"
        BY <2>1, <3>2, <3>3 DEF ApplyReplace
    <3> QED BY <3>3, <3>4
  <2>2. ASSUME NEW p \in Process, Apply(p), ~ApplyReplace(p) PROVE FALSE
    BY <2>2 DEF Apply, ApplyPromote, ApplyRevalidate, ApplyForget, ApplyDelete, ApplyCompact,
                ApplyHeal, Archive
  <2>3. ASSUME NEW p \in Process, Read(p) \/ Abort(p) PROVE FALSE
    BY <2>3 DEF Read, ReadPromote, ReadRevalidate, ReadForget, ReadReplace, ReadCompact, ReadHeal,
                Reads, Abort
  <2>4. ASSUME NEW n \in Note, Remember(n) PROVE FALSE
    BY <1>1, <2>4 DEF Remember, Admissions, IInv, TypeOK
  <2>5. ASSUME NEW n \in Note, Lapse(n) \/ \E finding \in Edits : Edit(n, finding) PROVE FALSE
    BY <2>5 DEF Lapse, Edit
  <2> QED BY <1>1, <2>1, <2>2, <2>3, <2>4, <2>5 DEF Next, vars
<1> QED BY <1>1, Invariance, PTL DEF Spec, ReplacedBySomething

-----------------------------------------------------------------------------
(* What commands do to the notes they read before the lock.                *)

(* A pending command finds as it read them the notes on which no other step *)
(* has overtaken it: they are where they were, and of the status it asked.  *)
Current(p) ==
    /\ overtaken[p] \subseteq job[p].retire \cup job[p].subject
    /\ \A m \in (job[p].retire \cup job[p].subject) \ overtaken[p] :
          /\ Found(p, m)
          /\ job[p].cmd = "promote" => status[m] = "inbox"
          /\ job[p].cmd = "replace" => status[m] \notin Retired
    /\ job[p].cmd = "replace" => job[p].retire # {}

AllCurrent == TypeOK /\ \A p \in Process : Current(p)

\* What another step changes it overtakes, and what it does not change stays current.
LEMMA OvertakeCurrent ==
    ASSUME TypeOK, NEW q \in Process, Current(q), Overtake, job'[q] = job[q]
    PROVE  Current(q)'
<1>1. CASE job[q] = Idle
    BY <1>1 DEF Current, Idle, Overtake
<1>2. CASE job[q] # Idle
  <2>1. overtaken'[q] = overtaken[q] \cup {m \in job[q].retire \cup job[q].subject :
                                       status'[m] # status[m] \/ place'[m] # place[m]}
    BY <1>2 DEF Overtake
  <2>2. \A m \in (job[q].retire \cup job[q].subject) \ overtaken'[q] :
            m \notin overtaken[q] /\ status'[m] = status[m] /\ place'[m] = place[m]
    BY <2>1
  <2> QED BY <2>1, <2>2 DEF Current, Found, Written
<1> QED BY <1>1, <1>2

LEMMA FinishCurrent ==
    ASSUME AllCurrent, NEW p \in Process, Finish(p)
    PROVE  \A q \in Process : Current(q)'
<1>1. ASSUME NEW q \in Process, q # p PROVE Current(q)'
    BY <1>1, FinishType, OvertakeCurrent DEF AllCurrent, Finish
<1>2. job'[p] = Idle /\ overtaken'[p] = {}
    BY FinishType DEF AllCurrent, Finish, Overtake
<1>3. Current(p)'
    BY <1>2 DEF Current, Idle
<1> QED BY <1>1, <1>3

\* A command reads notes that are there and of the status it asks for.
LEMMA ReadsCurrent ==
    ASSUME AllCurrent, NEW p \in Process, NEW cmd \in Command,
           NEW retire \in SUBSET Note, NEW subject \in SUBSET Note,
           job[p] = Idle, Reads(p, cmd, retire, subject),
           \A m \in retire \cup subject : Written(m),
           cmd = "promote" => \A m \in retire \cup subject : status[m] = "inbox",
           cmd = "replace" => retire # {} /\ \A m \in retire \cup subject : status[m] \notin Retired
    PROVE  AllCurrent'
<1>0. TypeOK
    BY DEF AllCurrent
<1>1. /\ TypeOK'
      /\ UNCHANGED <<status, place, content, lapsed, retracted, reviewed, marked, overtaken>>
      /\ \A q \in Process : q # p => job'[q] = job[q]
      /\ job'[p].cmd = cmd /\ job'[p].retire = retire /\ job'[p].subject = subject
      /\ \A m \in retire \cup subject : job'[p].at[m] = place[m]
    BY <1>0, ReadsType
<1>2. overtaken[p] = {}
    BY DEF AllCurrent, Current, Idle
<1>3. Current(p)'
    BY <1>1, <1>2 DEF Current, Found, Written
<1>4. ASSUME NEW q \in Process, q # p PROVE Current(q)'
    BY <1>1, <1>4 DEF AllCurrent, Current, Found, Written
<1> QED BY <1>1, <1>3, <1>4 DEF AllCurrent

LEMMA ReadCurrent == ASSUME AllCurrent, NEW p \in Process, Read(p) PROVE AllCurrent'
<1> job[p] = Idle
    BY DEF Read
<1>1. ASSUME NEW m \in Note, ReadPromote(p, m) PROVE AllCurrent'
    BY <1>1, ReadsCurrent DEF ReadPromote, Command, Written
<1>2. ASSUME NEW m \in Note, ReadRevalidate(p, m) PROVE AllCurrent'
    BY <1>2, ReadsCurrent DEF ReadRevalidate, Command
<1>3. ASSUME NEW m \in Note, NEW hard \in BOOLEAN, ReadForget(p, m, hard) PROVE AllCurrent'
    <2>1. (IF hard THEN "delete" ELSE "archive") \in Command \ {"promote", "replace"}
        BY DEF Command
    <2> QED
        BY <1>3, <2>1, ReadsCurrent DEF ReadForget
<1>4. ASSUME NEW olds \in SUBSET Note, NEW news \in SUBSET Note, ReadReplace(p, olds, news)
      PROVE  AllCurrent'
    BY <1>4, ReadsCurrent DEF ReadReplace, Command
<1>5. ASSUME NEW candidates \in SUBSET Note, ReadCompact(p, candidates) PROVE AllCurrent'
    BY <1>5, ReadsCurrent DEF ReadCompact, Command, Written
<1>6. ASSUME ReadHeal(p) PROVE AllCurrent'
    <2>1. /\ Reads(p, "heal", Invalidated, Unsafe) /\ Unsafe \in SUBSET Note /\ Invalidated \in SUBSET Note
          /\ \A m \in Invalidated \cup Unsafe : Written(m)
        BY <1>6 DEF ReadHeal, Invalidated, Unsafe, AllCurrent, TypeOK
    <2> QED
        BY <2>1, ReadsCurrent DEF Command
<1> QED
    BY <1>1, <1>2, <1>3, <1>4, <1>5, <1>6 DEF Read

LEMMA CurrentKeeps == ASSUME AllCurrent, [Next]_vars PROVE AllCurrent'
<1>0. TypeOK'
    BY TypeKeeps DEF AllCurrent
<1>1. ASSUME NEW p \in Process, Apply(p) \/ Abort(p) PROVE AllCurrent'
    <2>1. Finish(p)
        BY <1>1 DEF Apply, ApplyPromote, ApplyRevalidate, ApplyReplace, ApplyForget, ApplyDelete,
                    ApplyCompact, ApplyHeal, Abort
    <2> QED
        BY <1>0, <2>1, FinishCurrent DEF AllCurrent
<1>2. ASSUME NEW m \in Note, Remember(m) PROVE AllCurrent'
    BY <1>0, <1>2, OvertakeCurrent DEF Remember, AllCurrent
<1>3. CASE UNCHANGED <<status, place, job, overtaken>>
    BY <1>0, <1>3 DEF AllCurrent, Current, Found, Written
<1>4. ASSUME NEW m \in Note, Lapse(m) \/ \E finding \in Edits : Edit(m, finding) PROVE AllCurrent'
    BY <1>3, <1>4 DEF Lapse, Edit
<1> QED
    BY <1>1, <1>2, <1>3, <1>4, ReadCurrent DEF Next, vars

LEMMA CurrentInvariance == Spec => []AllCurrent
<1>1. Init => AllCurrent
    BY InitType DEF Init, AllCurrent, Current, Idle
<1>2. AllCurrent /\ [Next]_vars => AllCurrent'
    BY CurrentKeeps
<1> QED
    BY <1>1, <1>2, PTL DEF Spec

\* A note changes its status only when a command ends or when remember writes it anew.
LEMMA WhoChanges ==
    ASSUME TypeOK, [Next]_vars, NEW m \in Note, status'[m] # status[m]
    PROVE  \/ Remember(m)
           \/ \E p \in Process : Apply(p) /\ job'[p] = Idle
<1>1. ASSUME NEW p \in Process, Read(p) \/ Abort(p) PROVE FALSE
    BY <1>1 DEF Read, ReadPromote, ReadRevalidate, ReadForget, ReadReplace, ReadCompact, ReadHeal,
                Reads, Abort
<1>2. ASSUME NEW n \in Note, Remember(n), n # m PROVE FALSE
    BY <1>2, RememberWrites DEF TypeOK
<1>3. ASSUME NEW n \in Note, Lapse(n) \/ \E finding \in Edits : Edit(n, finding) PROVE FALSE
    BY <1>3 DEF Lapse, Edit
<1>4. ASSUME NEW p \in Process, Apply(p) PROVE job'[p] = Idle
    BY <1>4 DEF Apply, ApplyPromote, ApplyRevalidate, ApplyReplace, ApplyForget, ApplyDelete,
                ApplyCompact, ApplyHeal, Finish, TypeOK
<1> QED
    BY <1>1, <1>2, <1>3, <1>4 DEF Next, vars

(* Retirement is final, but for a healer that had found a rule broken and   *)
(* for a command that another step overtook between its reading and its     *)
(* transaction: RETIRED is checked before the lock and nowhere else.        *)
THEOREM RetirementTheorem == Spec => RetiredStaysRetired
<1>1. ASSUME AllCurrent, [Next]_vars
      PROVE  [\A m \in Note :
                 status[m] \in Retired /\ status'[m] \notin Retired \cup {"none"} =>
                     \E p \in Process : HealedBy(p, m) \/ OvertakenOn(p, m)]_vars
    <2> SUFFICES ASSUME NEW m \in Note, status[m] \in Retired, status'[m] \notin Retired \cup {"none"}
                 PROVE  \E p \in Process : HealedBy(p, m) \/ OvertakenOn(p, m)
        OBVIOUS
    <2>0. status[m] \notin {"inbox", "active", "stale", "none"} /\ Retired = {"superseded", "archived", "quarantined"}
        BY DEF Retired
    <2>1. ~Remember(m)
        BY <2>0 DEF Remember, Written
    <2>2. PICK p \in Process : Apply(p) /\ job'[p] = Idle
        BY <1>1, <2>1, WhoChanges DEF AllCurrent
    <2>3. ASSUME m \notin overtaken[p] PROVE HealedBy(p, m)
        <3>0. Current(p)
            BY <1>1 DEF AllCurrent
        <3>1. ASSUME ApplyPromote(p) PROVE FALSE
            BY <2>0, <2>3, <3>0, <3>1 DEF ApplyPromote, Current
        <3>2. ASSUME ApplyRevalidate(p) PROVE FALSE
            BY <2>0, <3>2 DEF ApplyRevalidate
        <3>3. ASSUME ApplyReplace(p) PROVE FALSE
            BY <2>0, <2>3, <3>0, <3>3 DEF ApplyReplace, Current
        <3>4. ASSUME ApplyForget(p) \/ ApplyCompact(p) PROVE FALSE
            BY <2>0, <3>4 DEF ApplyForget, ApplyCompact, Archive
        <3>5. ASSUME ApplyDelete(p) PROVE FALSE
            BY <2>0, <3>5 DEF ApplyDelete
        <3>6. ASSUME ApplyHeal(p) PROVE HealedBy(p, m)
            BY <2>0, <2>2, <3>6 DEF ApplyHeal, MarkedStale, HealedBy
        <3> QED
            BY <2>2, <3>1, <3>2, <3>3, <3>4, <3>5, <3>6 DEF Apply
    <2> QED
        BY <2>2, <2>3 DEF OvertakenOn
<1> QED
    BY <1>1, CurrentInvariance, PTL DEF Spec, RetiredStaysRetired

(* A contested memory leaves that status by retirement, deletion, a         *)
(* replacement that retires another for it, or a healer that had found its  *)
(* rule broken; otherwise a step had overtaken the command.                 *)
THEOREM ConflictTheorem == Spec => ConflictOnlyLeftSo
<1>1. ASSUME AllCurrent, [Next]_vars
      PROVE  [\A m \in Note :
                 status[m] = "conflicted" /\ status'[m] \notin Retired \cup {"none", "conflicted"} =>
                     \/ /\ status'[m] = "active"
                        /\ \E n \in Note : status'[n] = "superseded"
                              /\ \/ status[n] \notin Retired
                                 \/ \E p \in Process : OvertakenOn(p, n)
                     \/ /\ status'[m] = "stale"
                        /\ \E p \in Process : HealedBy(p, m)
                     \/ \E p \in Process : OvertakenOn(p, m)]_vars
    <2> DEFINE Replaced(m) ==
            /\ status'[m] = "active"
            /\ \E n \in Note : status'[n] = "superseded"
                  /\ \/ status[n] \notin Retired
                     \/ \E p \in Process : OvertakenOn(p, n)
    <2> DEFINE Goal(m) ==
            \/ Replaced(m)
            \/ status'[m] = "stale" /\ \E p \in Process : HealedBy(p, m)
            \/ \E p \in Process : OvertakenOn(p, m)
    <2> SUFFICES ASSUME NEW m \in Note, status[m] = "conflicted",
                        status'[m] \notin Retired \cup {"none", "conflicted"}
                 PROVE  Goal(m)
        OBVIOUS
    <2>0. Retired = {"superseded", "archived", "quarantined"}
        BY DEF Retired
    <2>1. ~Remember(m)
        BY DEF Remember, Written
    <2>2. PICK p \in Process : Apply(p) /\ job'[p] = Idle
        BY <1>1, <2>1, WhoChanges DEF AllCurrent
    <2>3. CASE m \in overtaken[p]
        BY <2>2, <2>3 DEF OvertakenOn
    <2>4. ASSUME m \notin overtaken[p] PROVE Goal(m)
        <3>0. Current(p) /\ job[p].retire \subseteq Note
            BY <1>1 DEF AllCurrent, TypeOK
        <3>1. ASSUME ApplyPromote(p) PROVE FALSE
            BY <2>4, <3>0, <3>1 DEF ApplyPromote, Current
        <3>2. ASSUME ApplyRevalidate(p) PROVE FALSE
            BY <3>2 DEF ApplyRevalidate
        <3>3. ASSUME ApplyReplace(p) PROVE Replaced(m)
            <4>1. PICK n \in job[p].retire : TRUE
                BY <3>0, <3>3 DEF ApplyReplace, Current
            <4>2. n \in Note /\ status'[n] = "superseded"
                BY <3>0, <3>3, <4>1 DEF ApplyReplace
            <4>3. status[n] \notin Retired \/ OvertakenOn(p, n)
                BY <2>2, <3>0, <3>3, <4>1 DEF ApplyReplace, Current, OvertakenOn
            <4>4. status'[m] = "active"
                BY <2>0, <3>3 DEF ApplyReplace
            <4> QED
                BY <4>2, <4>3, <4>4
        <3>4. ASSUME ApplyForget(p) \/ ApplyCompact(p) PROVE FALSE
            BY <2>0, <3>4 DEF ApplyForget, ApplyCompact, Archive
        <3>5. ASSUME ApplyDelete(p) PROVE FALSE
            BY <3>5 DEF ApplyDelete
        <3>6. ASSUME ApplyHeal(p) PROVE status'[m] = "stale" /\ HealedBy(p, m)
            BY <2>0, <2>2, <3>6 DEF ApplyHeal, MarkedStale, HealedBy
        <3> QED
            BY <2>2, <3>1, <3>2, <3>3, <3>4, <3>5, <3>6 DEF Apply
    <2> QED
        BY <2>3, <2>4
<1> QED
    BY <1>1, CurrentInvariance, PTL DEF Spec, ConflictOnlyLeftSo

(* A memory whose last ledger operation is RETRACT is gone from the vault,  *)
(* unless a step had overtaken the forget --hard that recorded it.          *)
THEOREM RetractedTheorem == Spec => RetractedIsGone
<1>1. ASSUME AllCurrent, [Next]_vars
      PROVE  [\A m \in Note :
                 (m \in retracted /\ Written(m))' =>
                     \/ m \in retracted /\ Written(m)
                     \/ \E p \in Process : job[p].cmd = "delete" /\ OvertakenOn(p, m)]_vars
    <2> SUFFICES ASSUME NEW m \in Note, m \in retracted', Written(m)', ~(m \in retracted /\ Written(m)),
                        vars' # vars
                 PROVE  \E p \in Process : job[p].cmd = "delete" /\ OvertakenOn(p, m)
        OBVIOUS
    <2>1. ASSUME NEW p \in Process, ApplyDelete(p)
          PROVE  job[p].cmd = "delete" /\ OvertakenOn(p, m)
        <3>1. job'[p] = Idle
            BY <1>1, <2>1 DEF ApplyDelete, Finish, AllCurrent, TypeOK
        <3>2. m \in job[p].subject
            BY <2>1 DEF ApplyDelete, Written
        <3>3. ~Found(p, m)
            BY <2>1, <3>2 DEF ApplyDelete, Written
        <3> QED
            BY <1>1, <2>1, <3>1, <3>2, <3>3 DEF ApplyDelete, AllCurrent, Current, OvertakenOn
    <2>2. ASSUME NEW p \in Process, Apply(p), ~ApplyDelete(p) PROVE FALSE
        <3>1. ASSUME ApplyPromote(p) PROVE FALSE
            BY <3>1 DEF ApplyPromote, Written
        <3>2. ASSUME ApplyRevalidate(p) PROVE FALSE
            BY <3>2 DEF ApplyRevalidate, Written
        <3>3. ASSUME ApplyReplace(p) PROVE FALSE
            BY <3>3 DEF ApplyReplace, Written
        <3>4. ASSUME ApplyForget(p) PROVE FALSE
            BY <3>4 DEF ApplyForget, Archive, Written
        <3>5. ASSUME ApplyCompact(p) PROVE FALSE
            BY <3>5 DEF ApplyCompact, Archive, Written
        <3>6. ASSUME ApplyHeal(p) PROVE FALSE
            BY <3>6 DEF ApplyHeal, Written
        <3> QED
            BY <2>2, <3>1, <3>2, <3>3, <3>4, <3>5, <3>6 DEF Apply
    <2>3. ASSUME NEW p \in Process, Read(p) \/ Abort(p) PROVE FALSE
        BY <2>3 DEF Read, ReadPromote, ReadRevalidate, ReadForget, ReadReplace, ReadCompact, ReadHeal,
                    Reads, Abort, Written
    <2>4. ASSUME NEW n \in Note, Remember(n) PROVE FALSE
        <3>1. n # m => status'[m] = status[m]
            BY <1>1, <2>4, RememberWrites DEF AllCurrent, TypeOK
        <3> QED
            BY <2>4, <3>1 DEF Remember, Written
    <2>5. ASSUME NEW n \in Note, Lapse(n) \/ \E finding \in Edits : Edit(n, finding) PROVE FALSE
        BY <2>5 DEF Lapse, Edit, Written
    <2> QED
        BY <1>1, <2>1, <2>2, <2>3, <2>4, <2>5 DEF Next
<1> QED
    BY <1>1, CurrentInvariance, PTL DEF Spec, RetractedIsGone
=============================================================================
