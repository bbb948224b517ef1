------------------------- MODULE MCOperationLedger -------------------------
(***************************************************************************)
(* Operations, and the episodes and candidates they come from, side by     *)
(* side: a candidate is remembered in one transaction, which OperationLedger *)
(* takes apart, and neither shares state with the other.                   *)
(*   numbers   an agent and the commands of the KB on one memory, with a   *)
(*             clock that steps back                                       *)
(*   truth     the commands alone, on two memories of which one may be     *)
(*             without an id, and with a clock that stands still           *)
(*   learning  a run, the same run tried again, an independent success     *)
(*             with an evaluation, and a run in another repository         *)
(***************************************************************************)
EXTENDS OperationLedger, Consolidation, TLC

CONSTANTS Parts, m1, m2, d1, a1, l1, l2

VARIABLE part

Lower == [t \in {"x", "X"} |-> "x"]
Try == [repository |-> "here", task |-> "t", commit |-> "c", cited |-> <<>>, own |-> 1,
        observed |-> <<"x">>, failed |-> <<>>, actions |-> <<>>, success |-> FALSE]
Success == [Try EXCEPT !.own = 3, !.task = "u", !.cited = <<4>>, !.observed = <<>>,
                       !.actions = <<"X">>, !.success = TRUE]
Episodes == {Try, [Try EXCEPT !.own = 2], Success,
             [Try EXCEPT !.own = 5, !.task = "v", !.repository = "there"]}
Objectionable == {Procedure(Success)}

Interchangeable == Permutations({m1, m2})

\* In numbers one memory is spoken of; in truth no agent appends, and there are three operations.
Spoken(m) == doing'.memory = m \/ RecordsOf(m)' # {} \/ \E a \in Agent : seen'[a].memory = m
About(m) == Spoken(m) \/ written'[m] # NoDigest
InPart ==
    /\ part = "numbers" => /\ \A path \in Pathname : ~Spoken(path)
                           /\ \A m, n \in Memory : About(m) /\ About(n) => m = n
    /\ part = "truth" => /\ UNCHANGED seen
                         /\ \A r \in records' : r.at = 1 /\ r.id < 4 /\ r.sequence < 4

\* Which name an operation has and who appended it decides nothing about its number: no two
\* operations of a memory have one number.  What a note has is asked in truth.
Anonymous(R) == {[r EXCEPT !.id = 0, !.kb = TRUE] : r \in R}
Shown(R) == IF part = "numbers" THEN Anonymous(R) ELSE R
WithoutNames == <<Shown(records), Shown(before.records), written, before.written, mode, doing, seen,
                  gone, torn, IF part = "truth" THEN <<untold, before.untold>> ELSE {}, learnVars, part>>

MCInit == part \in Parts /\ Init /\ LearnInit
MCNext ==
    /\ \/ part # "learning" /\ Next /\ InPart /\ UNCHANGED learnVars
       \/ part = "learning" /\ LearnNext /\ UNCHANGED vars
    /\ UNCHANGED part
MCSpec == MCInit /\ [][MCNext]_<<vars, learnVars, part>>
=============================================================================
