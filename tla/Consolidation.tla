--------------------------- MODULE Consolidation ---------------------------
(***************************************************************************)
(* From episodes to memories: recurrence (episodes.py 71-80) and           *)
(* consolidate_episode (learning.py 473-549), with what remember does to   *)
(* the candidates of one episode after another.                            *)
(*                                                                         *)
(* Episodes are read without a lock, once for every observation; each      *)
(* candidate is remembered in a transaction of its own, which may fail.    *)
(* Others consolidate, capture, retire, edit and delete in between.        *)
(* A memory is the fact it states: its identity is a digest of that.       *)
(***************************************************************************)
EXTENDS Integers, FiniteSets, Sequences, Functions

CONSTANTS Episode,    \* what may be captured: its repository, task and commit, the evidence it
                      \* cites and that of itself (own), what it observed, tried in vain
                      \* (failed) and did (actions), and whether it is a verified success
          Learner,
          Evidence,
          Here,       \* the repository of the learners
          Elsewhere,  \* evidence of other repositories
          Evaluation, \* evidence of an evaluation
          Normal,     \* texts without regard to case and spacing
          Unsafe,     \* facts whose text the content scan objects to
          Threshold,  \* recurrence_threshold
          Fragile,    \* bound: evidence that others may damage
          NoNote

VARIABLES stored,   \* the stored episodes; the code never removes one
          genuine,    \* evidence that verifies
          notes,      \* per fact the note of its identity: whether it is live with the text of
                      \* the fact, or apart (retired or edited), and the evidence it lists
          learning,   \* per learner the call in progress
          proven,     \* ghost: evidence that ever verified
          forced,     \* ghost: facts that were let in with --force
          rejected,   \* ghost: facts whose note was retired or edited and is there
          gathered    \* ghost: pairs of an episode and a fact that was remembered of it

learnVars == <<stored, genuine, notes, learning, proven, forced, rejected, gathered>>

Procedure(e) == [kind |-> "procedure", text |-> <<e.task, e.actions>>]
Observed(e) ==
    [i \in DOMAIN e.observed |-> [kind |-> "fact", text |-> e.observed[i]]]
    \o [i \in DOMAIN e.failed |-> [kind |-> "negative-result", text |-> e.failed[i]]]

Fact == UNION {Range(Observed(e)) \cup {Procedure(e)} : e \in Episode}

ASSUME ConsolidationAssumption ==
    /\ Threshold \in Nat /\ Unsafe \subseteq Fact
    /\ \A e \in Episode : Range(e.cited) \cup {e.own} \subseteq Evidence
    /\ NoNote \notin [live : BOOLEAN, evidence : SUBSET Evidence]
    /\ \A e \in Episode : {e.observed, e.failed} \subseteq Seq(DOMAIN Normal)

Waiting == [step |-> "wait"]
Calls == [step : {"gate", "prove", "remember"}, episode : Episode, force : BOOLEAN,
          todo : Seq(Fact), chosen : Seq(Fact)]

LearnTypeOK ==
    /\ stored \subseteq Episode
    /\ genuine \subseteq proven /\ proven \subseteq Evidence
    /\ notes \in [Fact -> [live : BOOLEAN, evidence : SUBSET Evidence] \cup {NoNote}]
    /\ learning \in [Learner -> Calls \cup {Waiting}]
    /\ forced \cup rejected \subseteq Fact
    /\ gathered \subseteq Episode \X Fact

LearnInit ==
    /\ stored = {} /\ genuine = {} /\ proven = {}
    /\ notes = [f \in Fact |-> NoNote]
    /\ learning = [p \in Learner |-> Waiting]
    /\ forced = {} /\ rejected = {} /\ gathered = {}

-----------------------------------------------------------------------------
\* What is compared with a signature: an episode counts whatever part the text plays in it.
Mentions(e) == {Normal[t] : t \in Range(e.observed) \cup Range(e.failed) \cup Range(e.actions)}

\* A mutant of Run: the evidence of the episode itself is not left out.
RunOfItsOwn(e) == <<e.task, e.commit, Append(e.cited, e.own)>>

\* Episodes of one task and commit that cite the same evidence are one run, tried again.
Run(e) == <<e.task, e.commit, e.cited>>

Recurrence(S, text, repository) ==
    Cardinality({Run(e) : e \in {x \in S : x.repository = repository /\ Normal[text] \in Mentions(x)}})

Proof(e) == Range(e.cited) \cup {e.own}

-----------------------------------------------------------------------------
\* capture, of the repository the caller names; its evidence first (EvidenceStore).
Capture(e) ==
    /\ e \notin stored
    /\ stored' = stored \cup {e}
    /\ genuine' = genuine \cup {e.own} /\ proven' = proven \cup {e.own}
    /\ UNCHANGED <<notes, learning, forced, rejected, gathered>>

Consolidate(p, e, force) ==
    /\ learning[p] = Waiting /\ e \in stored
    /\ learning' = [learning EXCEPT ![p] = [step |-> "gate", episode |-> e, force |-> force,
                                            todo |-> Observed(e), chosen |-> <<>>]]
    /\ UNCHANGED <<stored, genuine, notes, proven, forced, rejected, gathered>>

\* One observation after the other, each time of the episodes there are now.
Gate(p) ==
    /\ learning[p].step = "gate" /\ learning[p].todo # <<>>
    /\ LET c == learning[p]
           f == Head(c.todo)
           recurs == Recurrence(stored, f.text, c.episode.repository) >= Threshold
       IN learning' = [learning EXCEPT
                          ![p].todo = Tail(@),
                          ![p].chosen = IF c.force \/ recurs THEN Append(@, f) ELSE @]
    /\ UNCHANGED <<stored, genuine, notes, proven, forced, rejected, gathered>>

\* An episode of another repository is refused; a verified success with an evaluation that
\* verifies is a procedure, --force or not.
Prove(p) ==
    /\ learning[p].step = "gate" /\ learning[p].todo = <<>>
    /\ LET c == learning[p]
           e == c.episode
           evaluated == e.success /\ e.actions # <<>> /\ Proof(e) \cap genuine \cap Evaluation # {}
           chosen == IF evaluated THEN Append(c.chosen, Procedure(e)) ELSE c.chosen
       IN learning' = [learning EXCEPT ![p] =
             IF e.repository # Here THEN Waiting ELSE [c EXCEPT !.step = "remember", !.chosen = chosen]]
    /\ UNCHANGED <<stored, genuine, notes, proven, forced, rejected, gathered>>

Remembering(p) == learning[p].step = "remember" /\ learning[p].chosen # <<>>

\* One live note states the fact: it lists the new evidence too.  A note of the same identity
\* that is retired or says something else by now is left alone.
Noted(note, e, f) ==
    IF note = NoNote THEN [live |-> f \notin Unsafe, evidence |-> Proof(e)]
    ELSE IF note.live THEN [note EXCEPT !.evidence = @ \cup Proof(e)]
    ELSE note

Remember(p) ==
    /\ Remembering(p)
    /\ LET e == learning[p].episode
           f == Head(learning[p].chosen)
       IN /\ Proof(e) \subseteq genuine \ Elsewhere
          /\ notes' = [notes EXCEPT ![f] = Noted(@, e, f)]
          /\ forced' = IF notes[f] = NoNote /\ learning[p].force THEN forced \cup {f} ELSE forced
          /\ rejected' = IF notes[f] = NoNote /\ f \in Unsafe THEN rejected \cup {f} ELSE rejected
          /\ gathered' = gathered \cup {<<e, f>>}
    /\ learning' = [learning EXCEPT ![p].chosen = Tail(@)]
    /\ UNCHANGED <<stored, genuine, proven>>

\* Evidence that does not verify, or of another repository, ends the call; so does any other
\* error.  What it remembered before stays.
Refuse(p) ==
    /\ learning[p] # Waiting
    /\ learning' = [learning EXCEPT ![p] = Waiting]
    /\ UNCHANGED <<stored, genuine, notes, proven, forced, rejected, gathered>>

Consolidated(p) ==
    /\ learning[p].step = "remember" /\ learning[p].chosen = <<>>
    /\ learning' = [learning EXCEPT ![p] = Waiting]
    /\ UNCHANGED <<stored, genuine, notes, proven, forced, rejected, gathered>>

-----------------------------------------------------------------------------
\* Evidence is stored, damaged and repaired; that of an episode not before its capture.
Store(i) ==
    /\ i \notin genuine \cup {e.own : e \in Episode \ stored}
    /\ genuine' = genuine \cup {i} /\ proven' = proven \cup {i}
    /\ UNCHANGED <<stored, notes, learning, forced, rejected, gathered>>

Spoil(i) ==
    /\ i \in genuine \cap Fragile
    /\ genuine' = genuine \ {i}
    /\ UNCHANGED <<stored, notes, learning, proven, forced, rejected, gathered>>

\* A reviewer or a healer retires the note, or somebody edits it.
SetApart(f) ==
    /\ notes[f] # NoNote /\ notes[f].live
    /\ notes' = [notes EXCEPT ![f].live = FALSE]
    /\ rejected' = rejected \cup {f}
    /\ UNCHANGED <<stored, genuine, learning, proven, forced, gathered>>

\* Somebody deletes the note: nothing of the fact is left.
Delete(f) ==
    /\ notes[f] # NoNote
    /\ notes' = [notes EXCEPT ![f] = NoNote]
    /\ forced' = forced \ {f} /\ rejected' = rejected \ {f}
    /\ gathered' = {x \in gathered : x[2] # f}
    /\ UNCHANGED <<stored, genuine, learning, proven>>

LearnNext ==
    \/ \E e \in Episode : Capture(e) \/ \E p \in Learner, force \in BOOLEAN : Consolidate(p, e, force)
    \/ \E p \in Learner : Gate(p) \/ Prove(p) \/ Remember(p) \/ Refuse(p) \/ Consolidated(p)
    \/ \E i \in Evidence : Store(i) \/ Spoil(i)
    \/ \E f \in Fact : SetApart(f) \/ Delete(f)

LearnSpec == LearnInit /\ [][LearnNext]_learnVars

-----------------------------------------------------------------------------
\* Episodes that differ in task, commit or what they cite bear a text out.
BearOut(S, text) ==
    /\ \A e \in S : e.repository = Here /\ Normal[text] \in Mentions(e)
    /\ \A d, e \in S : d # e => d.task # e.task \/ d.commit # e.commit \/ d.cited # e.cited

\* What was learned without force was found by enough runs that are independent, or is a
\* procedure of a success that an evaluation has confirmed: trying a run again, capturing it
\* twice, or consolidating it twice, at whatever moment, does not make a fact.
Corroborated ==
    \A f \in Fact \ forced : notes[f] # NoNote =>
        IF f.kind = "procedure"
        THEN \E e \in stored : f = Procedure(e) /\ e.success /\ Proof(e) \cap proven \cap Evaluation # {}
        ELSE \E S \in SUBSET stored : Cardinality(S) >= Threshold /\ BearOut(S, f.text)

\* A live note lists the evidence of every episode its fact was remembered of, in whatever
\* order learners come and however often.
EvidenceGathers ==
    \A x \in gathered : notes[x[2]] # NoNote /\ (notes[x[2]].live => Proof(x[1]) \subseteq notes[x[2]].evidence)

\* What was retired, or corrected by hand, is not learned anew while its note is there.
NotLearnedAnew == \A f \in rejected : notes[f] # NoNote /\ ~notes[f].live

\* What the notes hold of the learners' episodes is earned, gathered and not undone.
FactsAreEarned == LearnTypeOK /\ Corroborated /\ EvidenceGathers /\ NotLearnedAnew
=============================================================================
