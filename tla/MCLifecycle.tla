---- MODULE MCLifecycle ----
(***************************************************************************)
(* Small instances of Lifecycle for TLC, with memories that contradict     *)
(* each other.                                                             *)
(*   filing  a memory whose rules may lapse and a hypothesis               *)
(*   gate    a memory whose rules may lapse and an unauthorized instruction *)
(*   merge   all three, one command at a time                              *)
(***************************************************************************)
EXTENDS Lifecycle, TLC

CONSTANTS Parts, m1, m2, m3, p1, p2

VARIABLE part

Rivals == {<<m1, m2>>, <<m2, m1>>, <<m1, m3>>, <<m3, m1>>}

Interchangeable == Permutations(Process)

Present ==
    CASE part = "filing" -> {m1, m2} [] part = "gate" -> {m1, m3} [] part = "merge" -> Note

\* In filing what is unsafe is an edit, elsewhere a candidate.
InPart ==
    /\ \A m \in Note \ Present : ~Written(m)'
    /\ \A m \in Note : content'[m] # (IF part = "filing" THEN "injection" ELSE "secret")
    /\ part = "merge" => \A p, q \in Process : job'[p] # Idle /\ job'[q] # Idle => p = q

MCInit == part \in Parts /\ Init
MCNext == Next /\ InPart /\ UNCHANGED part
MCSpec == MCInit /\ [][MCNext]_<<vars, part>>

\* Who let a memory in is asked in the gate only, and nothing else depends on it.
WithoutReview ==
    <<status, place, content, lapsed, retracted, job, marked, overtaken, part,
      IF part = "gate" THEN reviewed ELSE {}>>

====
