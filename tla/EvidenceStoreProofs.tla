------------------------ MODULE EvidenceStoreProofs ------------------------
(***************************************************************************)
(* What the table of verdicts and the checks of evidence tell is true of   *)
(* any number of processes, identities and changes of files.               *)
(***************************************************************************)
EXTENDS EvidenceStore, TLAPS

Calls == Puts \cup Checking \cup {Idle}

\* No stamp is later than the last change of a file.
Past(p) ==
    doing[p].call = "check" =>
        /\ doing[p].key =< changes
        /\ doing[p].row # Absent => doing[p].row.stamp =< changes
        /\ doing[p].step \in {"verify", "save"} => doing[p].key # 0

RowsArePast == \A id \in Identity : checks[id] # Absent => checks[id].stamp =< changes

\* The row that was read, and the verdict that will be saved, tell of the file with their stat.
RowRead(p) ==
    doing[p].call = "check" =>
        LET f == file[doing[p].id] IN
        f # Absent /\ doing[p].row # Absent /\ doing[p].row.stamp = f.stamp =>
            doing[p].row.valid = Get(doing[p].id, f)

Verified(p) ==
    At(p, "save") =>
        LET f == file[doing[p].id] IN
        f # Absent /\ doing[p].key = f.stamp => doing[p].valid = Get(doing[p].id, f)

\* What the file is has been seen, and the verdict is what was seen.
Watched(p) ==
    doing[p].call = "check" =>
        LET f == file[doing[p].id] IN
        /\ Genuine(doing[p].id, f) => doing[p].moments.genuine
        /\ f = Absent \/ f.object # AsPut(doing[p].id) => doing[p].moments.other

Judged(p) ==
    doing[p].call = "check" /\ doing[p].step \in {"save", "answer"} =>
        /\ doing[p].valid => doing[p].moments.genuine
        /\ ~doing[p].valid => doing[p].moments.other

Citing(p) == doing[p].call = "put" /\ doing[p].step = "cite" => doing[p].id \in ever

Stored == \A id \in Identity : file[id] # Absent => id \in ever

Sound(p) == Past(p) /\ RowRead(p) /\ Verified(p) /\ Watched(p) /\ Judged(p) /\ Citing(p)

IInv ==
    /\ EpisodesAreSound
    /\ RowsTellTheTruth
    /\ RowsArePast
    /\ Stored
    /\ \A p \in Process : Sound(p)

-----------------------------------------------------------------------------
LEMMA Kinds ==
    ASSUME NEW c \in Calls
    PROVE  /\ c.call \in {"idle", "put", "check"}
           /\ c.call = "idle" => c = Idle
           /\ c.call = "put" => c \in Puts /\ c.id \in Identity
           /\ c.call = "check" => c \in Checking /\ c.id \in Identity
BY DEF Calls, Idle, Puts, Checking

LEMMA CheckingKinds ==
    ASSUME NEW c \in Checking
    PROVE  /\ c.call = "check" /\ c.id \in Identity
           /\ c.step \in {"look", "stat", "verify", "save", "answer"}
           /\ c.row \in {Absent} \cup [stamp : 1 .. MaxChanges, valid : BOOLEAN]
           /\ c.key \in 0 .. MaxChanges /\ c.valid \in BOOLEAN
           /\ c.moments \in Moments
BY DEF Checking

\* get accepts what is genuine, and the object that put writes.
LEMMA Accepting ==
    ASSUME NEW id \in Identity, NEW f \in Stamped \cup {Absent}
    PROVE  /\ Get(id, f) \in BOOLEAN
           /\ Get(id, f) => Genuine(id, f)
           /\ ~Get(id, f) => f = Absent \/ f.object # AsPut(id)
<1>1. id = <<id[1], id[2]>>
    BY EvidenceAssumption
<1>2. Get(id, f) => Genuine(id, f)
    BY <1>1 DEF Get, Genuine
<1>3. ASSUME f # Absent, f.object = AsPut(id)
      PROVE  Get(id, f)
    BY <1>1, <1>3 DEF Get, AsPut
<1> QED BY <1>2, <1>3 DEF Get

\* What is put is an object.
LEMMA PutIsObject == ASSUME NEW id \in Identity PROVE AsPut(id) \in Object
BY EvidenceAssumption DEF AsPut, Object

-----------------------------------------------------------------------------
\* A process takes a step that leaves the files alone: the other calls are as they were.
LEMMA Others ==
    ASSUME IInv, NEW q \in Process, doing'[q] = doing[q], file' = file, changes' = changes, ever' = ever
    PROVE  Sound(q)'
BY DEF IInv, Sound, Past, RowRead, Verified, Watched, Judged, Citing, At

\* The step of one process, from the soundness of the call it leaves behind.
LEMMA Proceeds ==
    ASSUME IInv, NEW p \in Process, NEW c \in Calls, doing' = [doing EXCEPT ![p] = c],
           UNCHANGED <<file, changes, ever>>,
           Sound(p)'
    PROVE  /\ doing' \in [Process -> Calls]
           /\ \A q \in Process : Sound(q)'
           /\ Stored'
<1>1. doing' \in [Process -> Calls] /\ \A q \in Process \ {p} : doing'[q] = doing[q]
    BY DEF IInv, EpisodesAreSound, TypeOK, Calls
<1>2. \A q \in Process \ {p} : Sound(q)'
    BY <1>1, Others
<1>3. Stored'
    BY DEF IInv, Stored
<1> QED BY <1>1, <1>2, <1>3

\* The same, where neither the table nor the episodes change.
LEMMA Keeps ==
    ASSUME IInv, NEW p \in Process, NEW c \in Calls, doing' = [doing EXCEPT ![p] = c],
           UNCHANGED <<file, changes, checks, episodes, ever>>,
           Sound(p)'
    PROVE  IInv'
<1>1. /\ doing' \in [Process -> Calls]
      /\ \A q \in Process : Sound(q)'
      /\ Stored'
    BY Proceeds
<1>2. TypeOK'
    BY <1>1 DEF IInv, EpisodesAreSound, TypeOK, Calls
<1>3. EpisodesHaveEvidence' /\ RowsTellTheTruth' /\ RowsArePast'
    BY DEF IInv, EpisodesAreSound, EpisodesHaveEvidence, RowsTellTheTruth, RowsArePast
<1> QED BY <1>1, <1>2, <1>3 DEF IInv, EpisodesAreSound

-----------------------------------------------------------------------------
(* put and the end of a call.                                              *)

LEMMA PutsOrNothing ==
    ASSUME IInv, NEW p \in Process, NEW c \in Puts \cup {Idle}, doing' = [doing EXCEPT ![p] = c],
           UNCHANGED <<file, changes, checks, episodes, ever>>,
           c.call = "put" /\ c.step = "cite" => c.id \in ever
    PROVE  IInv'
<1>1. c \in Calls /\ c.call # "check"
    BY DEF Calls, Puts, Idle
<1>2. doing'[p] = c
    BY DEF IInv, EpisodesAreSound, TypeOK
<1>3. Sound(p)'
    BY <1>1, <1>2 DEF Sound, Past, RowRead, Verified, Watched, Judged, Citing, At
<1> QED BY <1>1, <1>3, Keeps

LEMMA PutStartKeeps ==
    ASSUME IInv, NEW p \in Process, NEW id \in Identity, NEW e \in BOOLEAN, NEW named \in Citation,
           PutStart(p, id, e, named)
    PROVE  IInv'
<1> DEFINE c == [call |-> "put", id |-> id, episode |-> e, named |-> named, step |-> "look"]
<1>1. c \in Puts /\ c.step # "cite"
    BY DEF Puts
<1> QED BY <1>1, PutsOrNothing DEF PutStart

LEMMA PutLookKeeps ==
    ASSUME IInv, NEW p \in Process, PutLook(p)
    PROVE  IInv'
<1> DEFINE d == doing[p]
<1>1. d \in Puts /\ d.id \in Identity
    BY Kinds DEF PutLook, IInv, EpisodesAreSound, TypeOK, Calls
<1>2. CASE file[d.id] = Absent
  <2>1. [d EXCEPT !.step = "write"] \in Puts /\ [d EXCEPT !.step = "write"].step = "write"
      BY <1>1 DEF Puts
  <2>2. doing' = [doing EXCEPT ![p] = [d EXCEPT !.step = "write"]]
      BY <1>2 DEF PutLook
  <2> QED BY <2>1, <2>2, PutsOrNothing DEF PutLook
<1>3. CASE file[d.id] # Absent /\ d.episode
  <2>1. [d EXCEPT !.step = "cite"] \in Puts /\ [d EXCEPT !.step = "cite"].id = d.id
      BY <1>1 DEF Puts
  <2>2. doing' = [doing EXCEPT ![p] = [d EXCEPT !.step = "cite"]]
      BY <1>3 DEF PutLook
  <2>3. d.id \in ever
      BY <1>1, <1>3 DEF IInv, Stored
  <2> QED BY <2>1, <2>2, <2>3, PutsOrNothing DEF PutLook
<1>4. CASE file[d.id] # Absent /\ ~d.episode
  <2>1. doing' = [doing EXCEPT ![p] = Idle]
      BY <1>4 DEF PutLook
  <2> QED BY <2>1, PutsOrNothing DEF PutLook, Idle
<1> QED BY <1>2, <1>3, <1>4

LEMMA CiteKeeps ==
    ASSUME IInv, NEW p \in Process, Cite(p)
    PROVE  IInv'
<1> DEFINE d == doing[p]
<1>1. d \in Puts /\ d.id \in Identity /\ d.id \in ever
    BY Kinds DEF Cite, IInv, EpisodesAreSound, TypeOK, Calls, Sound, Citing
<1>2. doing'[p] = Idle
    BY DEF Cite, IInv, EpisodesAreSound, TypeOK
<1>3. Sound(p)'
    BY <1>2 DEF Sound, Past, RowRead, Verified, Watched, Judged, Citing, At, Idle
<1>4. /\ doing' \in [Process -> Calls]
      /\ \A q \in Process : Sound(q)'
      /\ Stored'
    BY <1>3, Proceeds DEF Cite, Calls
<1> DEFINE stored == [own |-> d.id, evidence |-> d.named \cup {d.id}]
<1>5. stored \in Episode /\ stored.own = d.id /\ d.id \in stored.evidence
    BY <1>1, EvidenceAssumption DEF Puts, Episode
<1>6. episodes' = episodes \cup {stored} /\ UNCHANGED <<file, changes, checks, ever>>
    BY DEF Cite
<1> HIDE DEF stored
<1>7. TypeOK'
    BY <1>4, <1>5, <1>6 DEF IInv, EpisodesAreSound, TypeOK, Calls
<1>8. EpisodesHaveEvidence' /\ RowsTellTheTruth' /\ RowsArePast'
    BY <1>1, <1>5, <1>6 DEF IInv, EpisodesAreSound, EpisodesHaveEvidence, RowsTellTheTruth, RowsArePast
<1> QED BY <1>4, <1>7, <1>8 DEF IInv, EpisodesAreSound

LEMMA EndKeeps ==
    ASSUME IInv, NEW p \in Process, Die(p) \/ CheckDone(p)
    PROVE  IInv'
<1>1. doing' = [doing EXCEPT ![p] = Idle] /\ UNCHANGED <<file, changes, checks, episodes, ever>>
    BY DEF Die, CheckDone
<1> QED BY <1>1, PutsOrNothing DEF Idle

-----------------------------------------------------------------------------
(* evidence_valid.                                                         *)

LEMMA CheckStartKeeps ==
    ASSUME IInv, NEW p \in Process, NEW id \in Identity, CheckStart(p, id)
    PROVE  IInv'
<1> DEFINE seen == Observe([genuine |-> FALSE, other |-> FALSE], id, file[id])
           c == [call |-> "check", id |-> id, step |-> "look", row |-> Absent, key |-> 0,
                 valid |-> FALSE, moments |-> seen]
<1>1. /\ seen \in Moments
      /\ Genuine(id, file[id]) => seen.genuine
      /\ file[id] = Absent \/ file[id].object # AsPut(id) => seen.other
    BY DEF Observe, Moments
<1> HIDE DEF seen
<1>2. changes \in Nat /\ MaxChanges \in Nat
    BY EvidenceAssumption DEF IInv, EpisodesAreSound, TypeOK
<1>3. c \in Checking
    BY <1>1, <1>2 DEF Checking
<1>4. doing' = [doing EXCEPT ![p] = c] /\ UNCHANGED <<file, changes, checks, episodes, ever>>
    BY DEF CheckStart, seen
<1>5. doing'[p] = c
    BY <1>4 DEF IInv, EpisodesAreSound, TypeOK
<1>6. Sound(p)'
    BY <1>1, <1>2, <1>4, <1>5 DEF Sound, Past, RowRead, Verified, Watched, Judged, Citing, At
<1> QED BY <1>3, <1>4, <1>6, Keeps DEF Calls

\* A check goes on to another step: what it has is in order.
LEMMA ChecksOn ==
    ASSUME IInv, NEW p \in Process, doing[p].call = "check",
           NEW c \in Checking, doing' = [doing EXCEPT ![p] = c],
           UNCHANGED <<file, changes, ever>>,
           c.id = doing[p].id, c.moments = doing[p].moments,
           c.key =< changes, c.row # Absent => c.row.stamp =< changes,
           c.step \in {"verify", "save"} => c.key # 0,
           file[c.id] # Absent /\ c.row # Absent /\ c.row.stamp = file[c.id].stamp =>
               c.row.valid = Get(c.id, file[c.id]),
           c.step = "save" /\ file[c.id] # Absent /\ c.key = file[c.id].stamp =>
               c.valid = Get(c.id, file[c.id]),
           c.step \in {"save", "answer"} =>
               (c.valid => c.moments.genuine) /\ (~c.valid => c.moments.other)
    PROVE  Sound(p)'
<1>1. doing'[p] = c /\ c.call = "check"
    BY CheckingKinds DEF IInv, EpisodesAreSound, TypeOK
<1>2. Watched(p)'
    BY <1>1 DEF IInv, Sound, Watched
<1>3. Past(p)' /\ RowRead(p)' /\ Verified(p)' /\ Judged(p)' /\ Citing(p)'
    BY <1>1 DEF Past, RowRead, Verified, Judged, Citing, At
<1> QED BY <1>2, <1>3 DEF Sound

LEMMA CheckLookKeeps ==
    ASSUME IInv, NEW p \in Process, CheckLook(p)
    PROVE  IInv'
<1> DEFINE d == doing[p]
           c == [d EXCEPT !.row = checks[d.id], !.step = "stat"]
<1>1. d \in Checking /\ d.id \in Identity
    BY Kinds DEF CheckLook, At, IInv, EpisodesAreSound, TypeOK, Calls
<1>2. checks[d.id] \in {Absent} \cup [stamp : 1 .. MaxChanges, valid : BOOLEAN]
    BY <1>1 DEF IInv, EpisodesAreSound, TypeOK
<1>3. c \in Checking /\ c.row = checks[d.id] /\ c.step = "stat" /\ c.id = d.id
      /\ c.moments = d.moments /\ c.key = d.key
    BY <1>1, <1>2 DEF Checking
<1>4. doing' = [doing EXCEPT ![p] = c] /\ UNCHANGED <<file, changes, checks, episodes, ever>>
    BY DEF CheckLook
<1>5. d.key =< changes /\ (checks[d.id] # Absent => checks[d.id].stamp =< changes)
    BY <1>1 DEF IInv, Sound, Past, RowsArePast, CheckLook, At
<1>6. file[d.id] # Absent /\ checks[d.id] # Absent /\ checks[d.id].stamp = file[d.id].stamp =>
          checks[d.id].valid = Get(d.id, file[d.id])
    BY <1>1 DEF IInv, RowsTellTheTruth
<1> HIDE DEF c
<1>7. Sound(p)'
    BY <1>3, <1>4, <1>5, <1>6, ChecksOn DEF CheckLook, At
<1> QED BY <1>3, <1>4, <1>7, Keeps DEF Calls

LEMMA CheckStatKeeps ==
    ASSUME IInv, NEW p \in Process, CheckStat(p)
    PROVE  IInv'
<1> DEFINE d == doing[p]
           f == file[d.id]
<1>1. d \in Checking /\ d.id \in Identity /\ d.step = "stat"
    BY Kinds DEF CheckStat, At, IInv, EpisodesAreSound, TypeOK, Calls
<1>2. f \in Stamped \cup {Absent} /\ (f # Absent => f.stamp =< changes /\ f.stamp \in 1 .. MaxChanges)
    BY <1>1 DEF IInv, EpisodesAreSound, TypeOK, Stamped
<1>3. /\ d.key =< changes
      /\ d.row # Absent => d.row.stamp =< changes
      /\ f # Absent /\ d.row # Absent /\ d.row.stamp = f.stamp => d.row.valid = Get(d.id, f)
      /\ Genuine(d.id, f) => d.moments.genuine
      /\ f = Absent \/ f.object # AsPut(d.id) => d.moments.other
    BY <1>1 DEF IInv, Sound, Past, RowRead, Watched, CheckStat, At
<1>4. UNCHANGED <<file, changes, checks, episodes, ever>> /\ d.call = "check"
    BY DEF CheckStat, At
<1>5. CASE f = Absent
  <2> DEFINE c == [d EXCEPT !.valid = FALSE, !.step = "answer"]
  <2>1. /\ c \in Checking /\ c.step = "answer" /\ c.id = d.id /\ c.row = d.row /\ c.key = d.key
        /\ c.moments = d.moments /\ ~c.valid
      BY <1>1 DEF Checking
  <2>2. doing' = [doing EXCEPT ![p] = c]
      BY <1>5 DEF CheckStat
  <2> HIDE DEF c
  <2>3. Sound(p)'
      BY <1>3, <1>4, <1>5, <2>1, <2>2, ChecksOn
  <2> QED BY <1>4, <2>1, <2>2, <2>3, Keeps DEF Calls
<1>6. CASE f # Absent /\ d.row # Absent /\ d.row.stamp = f.stamp
  <2> DEFINE c == [d EXCEPT !.valid = d.row.valid, !.step = "answer"]
  <2>1. d.row.valid \in BOOLEAN
      BY <1>1, <1>6, CheckingKinds
  <2>2. /\ c \in Checking /\ c.step = "answer" /\ c.id = d.id /\ c.row = d.row /\ c.key = d.key
        /\ c.moments = d.moments /\ c.valid = d.row.valid
      BY <1>1, <2>1 DEF Checking
  <2>3. doing' = [doing EXCEPT ![p] = c]
      BY <1>6 DEF CheckStat
  <2>4. (d.row.valid => d.moments.genuine) /\ (~d.row.valid => d.moments.other)
      BY <1>1, <1>2, <1>3, <1>6, Accepting
  <2> HIDE DEF c
  <2>5. Sound(p)'
      BY <1>3, <1>4, <1>6, <2>2, <2>3, <2>4, ChecksOn
  <2> QED BY <1>4, <2>2, <2>3, <2>5, Keeps DEF Calls
<1>7. CASE f # Absent /\ ~(d.row # Absent /\ d.row.stamp = f.stamp)
  <2> DEFINE c == [d EXCEPT !.key = f.stamp, !.step = "verify"]
  <2>1. /\ c \in Checking /\ c.step = "verify" /\ c.id = d.id /\ c.row = d.row
        /\ c.key = f.stamp /\ c.moments = d.moments
    <3> DEFINE stamp == f.stamp
    <3>1. stamp \in 0 .. MaxChanges
        BY <1>2, <1>7, EvidenceAssumption
    <3> HIDE DEF stamp
    <3>2. /\ [d EXCEPT !.key = stamp, !.step = "verify"] \in Checking
          /\ [d EXCEPT !.key = stamp, !.step = "verify"].key = stamp
        BY <1>1, <3>1 DEF Checking
    <3> QED BY <1>1, <3>2 DEF stamp, Checking
  <2>2. doing' = [doing EXCEPT ![p] = c]
      BY <1>7 DEF CheckStat
  <2>3. f.stamp # 0 /\ f.stamp =< changes
      BY <1>2, <1>7
  <2> HIDE DEF c
  <2>4. Sound(p)'
      BY <1>3, <1>4, <2>1, <2>2, <2>3, ChecksOn
  <2> QED BY <1>4, <2>1, <2>2, <2>4, Keeps DEF Calls
<1> QED BY <1>5, <1>6, <1>7

LEMMA CheckVerifyKeeps ==
    ASSUME IInv, NEW p \in Process, CheckVerify(p)
    PROVE  IInv'
<1> DEFINE d == doing[p]
           f == file[d.id]
           verdict == Get(d.id, f)
           c == [d EXCEPT !.valid = verdict, !.step = "save"]
<1>1. d \in Checking /\ d.id \in Identity /\ d.step = "verify" /\ d.call = "check"
    BY Kinds DEF CheckVerify, At, IInv, EpisodesAreSound, TypeOK, Calls
<1>2. f \in Stamped \cup {Absent}
    BY <1>1 DEF IInv, EpisodesAreSound, TypeOK
<1>3. /\ verdict \in BOOLEAN
      /\ verdict => Genuine(d.id, f)
      /\ ~verdict => f = Absent \/ f.object # AsPut(d.id)
    BY <1>1, <1>2, Accepting
<1>4. doing' = [doing EXCEPT ![p] = c] /\ UNCHANGED <<file, changes, checks, episodes, ever>>
    BY DEF CheckVerify
<1>5. /\ d.key =< changes /\ d.key # 0
      /\ d.row # Absent => d.row.stamp =< changes
      /\ f # Absent /\ d.row # Absent /\ d.row.stamp = f.stamp => d.row.valid = Get(d.id, f)
      /\ Genuine(d.id, f) => d.moments.genuine
      /\ f = Absent \/ f.object # AsPut(d.id) => d.moments.other
    BY <1>1 DEF IInv, Sound, Past, RowRead, Watched
<1>6. verdict = Get(d.id, f)
    OBVIOUS
<1> HIDE DEF verdict
<1>7. /\ c \in Checking /\ c.step = "save" /\ c.id = d.id /\ c.row = d.row /\ c.key = d.key
      /\ c.moments = d.moments /\ c.valid = verdict
    BY <1>1, <1>3 DEF Checking
<1> HIDE DEF c
<1>8. (c.valid => c.moments.genuine) /\ (~c.valid => c.moments.other)
    BY <1>3, <1>5, <1>7
<1>9. Sound(p)'
    BY <1>1, <1>4, <1>5, <1>6, <1>7, <1>8, ChecksOn
<1> QED BY <1>4, <1>7, <1>9, Keeps DEF Calls

LEMMA CheckSaveKeeps ==
    ASSUME IInv, NEW p \in Process, CheckSave(p)
    PROVE  IInv'
<1> DEFINE d == doing[p]
           f == file[d.id]
           c == [d EXCEPT !.step = "answer"]
           saved == [stamp |-> d.key, valid |-> d.valid]
<1>1. d \in Checking /\ d.id \in Identity /\ d.step = "save" /\ d.call = "check"
    BY Kinds DEF CheckSave, At, IInv, EpisodesAreSound, TypeOK, Calls
<1>2. /\ d.key =< changes /\ d.key # 0
      /\ d.row # Absent => d.row.stamp =< changes
      /\ f # Absent /\ d.row # Absent /\ d.row.stamp = f.stamp => d.row.valid = Get(d.id, f)
      /\ f # Absent /\ d.key = f.stamp => d.valid = Get(d.id, f)
      /\ d.valid => d.moments.genuine
      /\ ~d.valid => d.moments.other
    BY <1>1 DEF IInv, Sound, Past, RowRead, Verified, Judged, At
<1>3. doing' = [doing EXCEPT ![p] = c] /\ UNCHANGED <<file, changes, episodes, ever>>
      /\ checks' = [checks EXCEPT ![d.id] = saved]
    BY DEF CheckSave
<1>4. saved \in [stamp : 1 .. MaxChanges, valid : BOOLEAN]
      /\ saved.stamp = d.key /\ saved.valid = d.valid
    BY <1>1, <1>2, CheckingKinds, EvidenceAssumption
<1>5. /\ c \in Checking /\ c.step = "answer" /\ c.id = d.id /\ c.row = d.row /\ c.key = d.key
      /\ c.moments = d.moments /\ c.valid = d.valid
    BY <1>1 DEF Checking
<1> HIDE DEF c, saved
<1>6. Sound(p)'
    BY <1>1, <1>2, <1>3, <1>5, ChecksOn
<1>7. /\ doing' \in [Process -> Calls]
      /\ \A q \in Process : Sound(q)'
      /\ Stored'
    BY <1>3, <1>5, <1>6, Proceeds DEF Calls
<1>8. checks \in [Identity -> [stamp : 1 .. MaxChanges, valid : BOOLEAN] \cup {Absent}]
    BY DEF IInv, EpisodesAreSound, TypeOK
<1>9. /\ checks' \in [Identity -> [stamp : 1 .. MaxChanges, valid : BOOLEAN] \cup {Absent}]
      /\ checks'[d.id] = saved /\ \A id \in Identity \ {d.id} : checks'[id] = checks[id]
    BY <1>1, <1>3, <1>4, <1>8
<1>10. TypeOK'
    BY <1>3, <1>7, <1>9 DEF IInv, EpisodesAreSound, TypeOK, Calls
<1>11. RowsTellTheTruth'
    BY <1>2, <1>3, <1>4, <1>9 DEF IInv, RowsTellTheTruth
<1>12. RowsArePast' /\ EpisodesHaveEvidence'
    BY <1>2, <1>3, <1>4, <1>9 DEF IInv, RowsArePast, EpisodesAreSound, EpisodesHaveEvidence
<1> QED BY <1>7, <1>10, <1>11, <1>12 DEF IInv, EpisodesAreSound

-----------------------------------------------------------------------------
(* Changes of files: a new stamp is later than every row and every key.    *)

\* A check sees the change, whichever step it is in.
LEMMA Sees ==
    ASSUME IInv, NEW q \in Process, NEW id \in Identity, NEW f \in Stamped \cup {Absent},
           changes < MaxChanges, Becomes(id, f), f # Absent => f.stamp = changes + 1,
           NEW d \in Calls,
           d.call = "check" => d = doing[q],
           d.call = "put" /\ d.step = "cite" => d.id \in ever',
           doing'[q] = Seeing([doing EXCEPT ![q] = d])[q]
    PROVE  doing'[q] \in Calls /\ Sound(q)'
<1>1. /\ file' \in [Identity -> Stamped \cup {Absent}]
      /\ file'[id] = f /\ \A i \in Identity \ {id} : file'[i] = file[i]
      /\ changes \in Nat /\ MaxChanges \in Nat /\ changes' = changes + 1
      /\ doing \in [Process -> Calls]
    BY EvidenceAssumption DEF Becomes, IInv, EpisodesAreSound, TypeOK, Calls
<1>2. CASE d.call # "check"
  <2>1. doing'[q] = d
      BY <1>1, <1>2 DEF Seeing
  <2> QED BY <1>2, <2>1 DEF Sound, Past, RowRead, Verified, Watched, Judged, Citing, At
<1>3. CASE d.call = "check"
  <2> DEFINE seen == Observe(d.moments, d.id, file'[d.id])
             c == [d EXCEPT !.moments = seen]
  <2>1. d \in Checking /\ d.id \in Identity /\ d.moments \in Moments
      BY <1>3, Kinds, CheckingKinds
  <2>2. doing'[q] = c
      BY <1>1, <1>3 DEF Seeing
  <2>3. /\ seen \in Moments
        /\ d.moments.genuine \/ Genuine(d.id, file'[d.id]) => seen.genuine
        /\ d.moments.other \/ file'[d.id] = Absent \/ file'[d.id].object # AsPut(d.id) => seen.other
      BY DEF Observe, Moments
  <2> HIDE DEF seen
  <2>4. /\ c \in Checking /\ c.call = "check" /\ c.id = d.id /\ c.step = d.step /\ c.row = d.row
        /\ c.key = d.key /\ c.valid = d.valid /\ c.moments = seen
      BY <1>3, <2>1, <2>3 DEF Checking
  <2> HIDE DEF c
  <2>5. /\ d.key =< changes
        /\ d.row # Absent => d.row.stamp =< changes
        /\ d.step \in {"verify", "save"} => d.key # 0
        /\ d.key \in Nat /\ (d.row # Absent => d.row.stamp \in Nat)
      BY <1>1, <1>3, <2>1, CheckingKinds DEF IInv, Sound, Past
  <2>6. Past(q)'
      BY <1>1, <2>2, <2>4, <2>5 DEF Past
  <2>7. file'[d.id] # Absent =>
           \/ d.id # id /\ file'[d.id] = file[d.id]
           \/ d.id = id /\ file'[d.id].stamp = changes + 1
      BY <1>1, <2>1
  <2>8. RowRead(q)'
      BY <1>1, <1>3, <2>2, <2>4, <2>5, <2>7 DEF IInv, Sound, RowRead
  <2>9. Verified(q)'
      BY <1>1, <1>3, <2>2, <2>4, <2>5, <2>7 DEF IInv, Sound, Verified, At
  <2>10. Watched(q)'
      BY <2>2, <2>3, <2>4 DEF Watched
  <2>11. Judged(q)'
      BY <1>3, <2>2, <2>3, <2>4 DEF IInv, Sound, Judged
  <2>12. Citing(q)'
      BY <2>2, <2>4 DEF Citing
  <2> QED BY <2>2, <2>4, <2>6, <2>8, <2>9, <2>10, <2>11, <2>12 DEF Sound, Calls
<1> QED BY <1>2, <1>3

LEMMA Changes ==
    ASSUME IInv, NEW id \in Identity, NEW f \in Stamped \cup {Absent},
           changes < MaxChanges, Becomes(id, f), f # Absent => f.stamp = changes + 1,
           UNCHANGED <<checks, episodes>>,
           doing' \in [Process -> Calls], \A q \in Process : Sound(q)'
    PROVE  IInv'
<1>1. /\ file' \in [Identity -> Stamped \cup {Absent}]
      /\ file'[id] = f /\ \A i \in Identity \ {id} : file'[i] = file[i]
      /\ changes \in Nat /\ MaxChanges \in Nat /\ changes' = changes + 1
      /\ ever' = ever \cup {id}
    BY EvidenceAssumption DEF Becomes, IInv, EpisodesAreSound, TypeOK
<1>2. \A i \in Identity : file'[i] # Absent => file'[i].stamp =< changes'
  <2> SUFFICES ASSUME NEW i \in Identity, file'[i] # Absent PROVE file'[i].stamp =< changes'
      OBVIOUS
  <2>1. file[i] # Absent => file[i].stamp =< changes /\ file[i].stamp \in Nat
      BY DEF IInv, EpisodesAreSound, TypeOK, Stamped
  <2> QED BY <1>1, <2>1
<1>3. TypeOK'
    BY <1>1, <1>2 DEF IInv, EpisodesAreSound, TypeOK, Calls
<1>4. \A i \in Identity : checks[i] # Absent => checks[i].stamp =< changes /\ checks[i].stamp \in Nat
    BY DEF IInv, RowsArePast, EpisodesAreSound, TypeOK
<1>5. RowsArePast'
    BY <1>1, <1>4 DEF RowsArePast
<1>6. RowsTellTheTruth'
    BY <1>1, <1>4 DEF IInv, RowsTellTheTruth
<1>7. EpisodesHaveEvidence' /\ Stored'
    BY <1>1 DEF IInv, EpisodesAreSound, EpisodesHaveEvidence, Stored
<1> QED BY <1>3, <1>5, <1>6, <1>7 DEF IInv, EpisodesAreSound

LEMMA PutWriteKeeps ==
    ASSUME IInv, NEW p \in Process, PutWrite(p)
    PROVE  IInv'
<1> DEFINE d == doing[p]
           f == [object |-> AsPut(d.id), stamp |-> changes + 1]
           c == IF d.episode THEN [d EXCEPT !.step = "cite"] ELSE Idle
<1>1. d \in Puts /\ d.id \in Identity /\ doing \in [Process -> Calls]
    BY Kinds DEF PutWrite, IInv, EpisodesAreSound, TypeOK, Calls
<1>2. changes < MaxChanges /\ changes \in Nat /\ MaxChanges \in Nat
    BY EvidenceAssumption DEF PutWrite, IInv, EpisodesAreSound, TypeOK
<1>3. f \in Stamped /\ f.stamp = changes + 1
    BY <1>1, <1>2, PutIsObject DEF Stamped
<1>4. c \in Puts \cup {Idle} /\ c.call # "check" /\ (c.call = "put" => c.id = d.id) /\ c \in Calls
    BY <1>1 DEF Puts, Idle, Calls
<1>5. /\ Becomes(d.id, f) /\ UNCHANGED <<checks, episodes>>
      /\ doing' = Seeing([doing EXCEPT ![p] = c])
    BY DEF PutWrite
<1> HIDE DEF f, c
<1>6. d.id \in ever'
    BY <1>5 DEF Becomes
<1>7. doing'[p] \in Calls /\ Sound(p)'
    BY <1>1, <1>2, <1>3, <1>4, <1>5, <1>6, Sees
<1>8. ASSUME NEW q \in Process \ {p} PROVE doing'[q] \in Calls /\ Sound(q)'
  <2>1. doing'[q] = Seeing([doing EXCEPT ![q] = doing[q]])[q]
      BY <1>1, <1>5 DEF Seeing
  <2>2. doing[q].call = "put" /\ doing[q].step = "cite" => doing[q].id \in ever'
      BY <1>5 DEF IInv, Sound, Citing, Becomes
  <2>3. doing[q] \in Calls
      BY <1>1
  <2> QED BY <1>1, <1>2, <1>3, <1>5, <2>1, <2>2, <2>3, Sees
<1>9. doing' \in [Process -> Calls] /\ \A q \in Process : Sound(q)'
    BY <1>5, <1>7, <1>8 DEF Seeing
<1> QED BY <1>1, <1>2, <1>3, <1>5, <1>9, Changes

\* Whatever others leave under the path, or leave nothing.
LEMMA OutsiderKeeps ==
    ASSUME IInv, NEW id \in Identity,
           Remove(id) \/ \E o \in Foreign \cup {AsPut(id)} : Damage(id, o)
    PROVE  IInv'
<1>1. changes < MaxChanges /\ changes \in Nat /\ MaxChanges \in Nat
  <2>1. changes < MaxChanges
      BY DEF Remove, Damage
  <2> QED BY <2>1, EvidenceAssumption DEF IInv, EpisodesAreSound, TypeOK
<1>2. PICK f \in Stamped \cup {Absent} : Becomes(id, f) /\ (f # Absent => f.stamp = changes + 1)
  <2>1. CASE Remove(id)
      BY <2>1 DEF Remove
  <2>2. ASSUME NEW o \in Foreign \cup {AsPut(id)}, Damage(id, o)
        PROVE  \E f \in Stamped : Becomes(id, f) /\ f.stamp = changes + 1
    <3>1. o \in Object
        BY EvidenceAssumption, PutIsObject
    <3>2. [object |-> o, stamp |-> changes + 1] \in Stamped
        BY <1>1, <3>1 DEF Stamped
    <3> QED BY <2>2, <3>2 DEF Damage
  <2> QED BY <2>1, <2>2
<1>3. doing' = Seeing(doing) /\ UNCHANGED <<checks, episodes>>
    BY DEF Remove, Damage
<1>4. doing \in [Process -> Calls]
    BY DEF IInv, EpisodesAreSound, TypeOK, Calls
<1>5. ASSUME NEW q \in Process PROVE doing'[q] \in Calls /\ Sound(q)'
  <2>1. doing'[q] = Seeing([doing EXCEPT ![q] = doing[q]])[q]
      BY <1>3, <1>4 DEF Seeing
  <2>2. doing[q].call = "put" /\ doing[q].step = "cite" => doing[q].id \in ever'
      BY <1>2 DEF IInv, Sound, Citing, Becomes
  <2>3. doing[q] \in Calls
      BY <1>4
  <2> QED BY <1>1, <1>2, <2>1, <2>2, <2>3, Sees
<1>6. doing' \in [Process -> Calls] /\ \A q \in Process : Sound(q)'
    BY <1>3, <1>5 DEF Seeing
<1> QED BY <1>1, <1>2, <1>3, <1>6, Changes

-----------------------------------------------------------------------------
LEMMA Starts == Init => IInv
<1> SUFFICES ASSUME Init PROVE IInv
    OBVIOUS
<1>1. \A p \in Process : Sound(p)
    BY DEF Init, Sound, Past, RowRead, Verified, Watched, Judged, Citing, At, Idle
<1>2. TypeOK
    BY EvidenceAssumption DEF Init, TypeOK
<1> QED BY <1>1, <1>2 DEF Init, IInv, EpisodesAreSound, EpisodesHaveEvidence, RowsTellTheTruth,
                          RowsArePast, Stored

LEMMA Steps == IInv /\ [Next]_vars => IInv'
<1> SUFFICES ASSUME IInv, [Next]_vars PROVE IInv'
    OBVIOUS
<1>1. CASE UNCHANGED vars
  <2>1. \A p \in Process : Sound(p)'
      BY <1>1, Others DEF vars
  <2> QED BY <1>1, <2>1 DEF vars, IInv, EpisodesAreSound, TypeOK, EpisodesHaveEvidence,
                             RowsTellTheTruth, RowsArePast, Stored
<1>2. ASSUME NEW p \in Process, NEW id \in Identity,
             \/ CheckStart(p, id)
             \/ \E named \in Citation, e \in BOOLEAN : PutStart(p, id, e, named)
      PROVE  IInv'
    BY <1>2, CheckStartKeeps, PutStartKeeps
<1>3. ASSUME NEW p \in Process,
             \/ PutLook(p) \/ PutWrite(p) \/ Cite(p) \/ Die(p)
             \/ CheckLook(p) \/ CheckStat(p) \/ CheckVerify(p) \/ CheckSave(p) \/ CheckDone(p)
      PROVE  IInv'
    BY <1>3, PutLookKeeps, PutWriteKeeps, CiteKeeps, EndKeeps, CheckLookKeeps, CheckStatKeeps,
       CheckVerifyKeeps, CheckSaveKeeps
<1>4. ASSUME NEW id \in Identity,
             Remove(id) \/ \E o \in Foreign \cup {AsPut(id)} : Damage(id, o)
      PROVE  IInv'
    BY <1>4, OutsiderKeeps
<1> QED BY <1>1, <1>2, <1>3, <1>4 DEF Next

\* What every reachable state satisfies, whichever processes check, store and die meanwhile.
THEOREM Inductive == Spec => []IInv
BY Starts, Steps, PTL DEF Spec

\* A stored episode cites its own object, which was stored before it (capture, episodes.py),
\* whatever else its caller named, for any number of processes that put, check and die, and files
\* that come and go.
THEOREM EpisodesTheorem == Spec => []EpisodesAreSound
<1>1. IInv => EpisodesAreSound
    BY DEF IInv
<1> QED BY <1>1, Inductive, PTL

\* A row of evidence_checks (index.py) with the stat of a file tells whether that file verifies.
THEOREM RowsTheorem == Spec => []RowsTellTheTruth
<1>1. IInv => RowsTellTheTruth
    BY DEF IInv
<1> QED BY <1>1, Inductive, PTL

\* evidence_valid (index.py) never answers yes of an object that was not genuine since the call.
THEOREM ProofTheorem == Spec => []ProofIsGenuine
<1>1. IInv => ProofIsGenuine
    BY DEF IInv, Sound, Judged, ProofIsGenuine, At
<1> QED BY <1>1, Inductive, PTL

\* evidence_valid (index.py) never answers no of an object that was as put all through the call.
THEOREM RefusalTheorem == Spec => []RefusedForCause
<1>1. IInv => RefusedForCause
    BY DEF IInv, Sound, Judged, RefusedForCause, At
<1> QED BY <1>1, Inductive, PTL
=============================================================================
