------------------------ MODULE MCContextInventory -------------------------
(***************************************************************************)
(* Names of all kinds are interchangeable.                                 *)
(*   inventory  two sessions with two epochs each, two receipts, one edit  *)
(*   check      one receipt, and notes that change and change back         *)
(***************************************************************************)
EXTENDS ContextInventory, TLC

CONSTANTS Parts, m1, m2, p1, p2, s1, s2, e1, e2

VARIABLE part

Interchangeable ==
    Permutations({m1, m2}) \cup Permutations({p1, p2})
        \cup Permutations({s1, s2}) \cup Permutations({e1, e2})

Named == {<<r.session, r.epoch>> : r \in receipts}
            \cup {<<doing[p].session, doing[p].epoch>> : p \in {q \in Process : doing[q] # Idle}}
InPart ==
    /\ part = "inventory" => edits' =< 1
    /\ part = "check" => /\ \A r \in receipts' : r.id = 1
                         /\ Cardinality(Named') =< 1

MCInit == part \in Parts /\ Init
MCNext == Next /\ InPart /\ UNCHANGED part
MCSpec == MCInit /\ [][MCNext]_<<vars, part>>

\* A call that will change nothing more than itself is no different from another that has the
\* same memories left to compare, and of one that may the memories already compared do not
\* matter.  Only ValidWasTrue looks at more, and that is asked in check.
Vain(call) == call.call = "check" \/ call.changed # {} \/ ~Mine(call)
Outlook(call) ==
    IF ~Rechecks(call) \/ part = "check" THEN call
    ELSE IF call.step = "look" THEN [call EXCEPT !.was = Nowhere]
    ELSE IF Vain(call) THEN [call |-> "vain", left |-> call.left]
    ELSE [call EXCEPT !.was = Nowhere, !.visible = @ \cap call.left]
WithOutlook ==
    <<vault, edits, index, receipts, inventory, retained, acked, part,
      [p \in Process |-> Outlook(doing[p])]>>
=============================================================================
