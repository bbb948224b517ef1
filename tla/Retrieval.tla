------------------------------ MODULE Retrieval ------------------------------
(***************************************************************************)
(* Retriever.retrieve: from the rows of the index to what is delivered,    *)
(* the receipt and the recorded decisions, for one request.                *)
(*                                                                         *)
(* Scores, term overlap and marginal utility are not computed: whatever    *)
(* they are, the code may find, order and stop as it does here.  The text  *)
(* of a note at a layer is its cost in tokens, with its preconditions and  *)
(* verification, and the roles of evidence it fills.  To the notes of      *)
(* ReadGate this module adds                                               *)
(*   own        the layers a note has a text of its own for                *)
(*   cost       per layer the cost of what is delivered for it, 0 if empty *)
(*   roles      per layer the roles its text fills                         *)
(*   recorded   the roles it would fill if it were delivered in full       *)
(***************************************************************************)
EXTENDS ReadGate, Sequences, FiniteSetsExt

CONSTANTS Row,       \* rows of the index
          Vault,     \* the vaults [Row -> note] to begin with
          Context,
          Request,   \* budget, uncertain, cross, route, expand, record; depth: the layer asked
                     \* for, or None where the score decides; known: per row the layer its
                     \* host has in this epoch, or None
          Evidence,  \* evidence that verifies
          Links,     \* pairs of rows
          Limit,     \* of a search
          Reserved,  \* of the budget, not for memories
          Low,       \* the allocation stops when less remains
          Wrap,      \* what the allocation adds to a text
          Base, HeadCost, RoleCost, LabelCost, \* what the answer and each of its items, missing
                     \* roles, and the labels of missing roles cost
          Least,     \* the cost of the answer that the budget is insufficient
          Needed     \* per context the roles its intent requires

Layer == 0 .. 2

ASSUME RetrievalAssumption ==
    /\ {Limit, Reserved, Low, Wrap, Base, HeadCost, RoleCost, LabelCost, Least} \subseteq Nat
    /\ \A request \in Request : request.budget \in Nat /\ Reserved =< request.budget
    /\ \A request \in Request : request.depth \in Layer \cup {None}
    /\ \A v \in Vault : DOMAIN v = Row
    /\ \A v \in Vault : \A r \in Row : v[r].own \subseteq Layer /\ v[r].cost \in [Layer -> Nat]
    /\ \A c \in Context : IsFiniteSet(Needed[c])

VARIABLES vault, ctx, asked, \* the rows, the context and the request
          matches,   \* rows that match the text of the task
          pc,
          eligible,  \* what passed the gates
          found,     \* what the searches found, and after scoring what scored enough
          items,     \* the items of the answer: a row and a layer
          remaining, \* tokens the allocation may still spend
          excluded,  \* rows listed as excluded
          decisions, \* what is recorded of a row, and whether it says selected
          label,     \* whether missing roles are labelled
          verdict,   \* state, missing and unrecorded of the answer
          delivered, \* the rows that are in the answer
          used       \* used_tokens

vars == <<vault, ctx, asked, matches, pc, eligible, found, items, remaining, excluded, decisions,
          label, verdict, delivered, used>>
inputs == <<vault, ctx, asked, matches>>

\* The sum of a sequence of numbers.
Sum(costs) ==
    LET sum[n \in 0 .. Len(costs)] == IF n = 0 THEN 0 ELSE sum[n - 1] + costs[n]
    IN sum[Len(costs)]

CostOf(item) == vault[item.row].cost[item.layer]

Nothing == [state |-> None, missing |-> {}, unrecorded |-> {}]

TypeOK ==
    /\ vault \in Vault /\ ctx \in Context /\ asked \in Request /\ matches \subseteq Row
    /\ pc \in {"gate", "search", "score", "allocate", "fit", "deliver", "done", "refused"}
    /\ eligible \subseteq Row /\ found \subseteq eligible
    /\ items \in Seq([row : Row, layer : Layer])
    /\ remaining \in 0 .. asked.budget
    /\ excluded \subseteq Row /\ delivered \subseteq Row
    /\ decisions \subseteq [row : Row, selected : BOOLEAN]
    /\ label \in BOOLEAN /\ used \in Nat

Init ==
    /\ vault \in Vault /\ ctx \in Context /\ asked \in Request /\ matches \in SUBSET Row
    /\ pc = "gate"
    /\ eligible = {} /\ found = {} /\ items = <<>>
    /\ remaining = asked.budget - Reserved
    /\ excluded = {} /\ decisions = {}
    /\ label = TRUE /\ verdict = Nothing
    /\ delivered = {} /\ used = 0

-----------------------------------------------------------------------------
Gate ==
    /\ pc = "gate"
    /\ eligible' = Eligible(vault, ctx, asked.uncertain, asked.cross, Evidence)
    /\ excluded' = Row \ eligible'
    /\ pc' = "search"
    /\ UNCHANGED <<inputs, found, items, remaining, decisions, label, verdict, delivered, used>>

\* What a search may return: as many rows as there are, up to its limit, of those that
\* match and are eligible, in whatever order it ranks them.
Hits(filter) ==
    LET good == matches \cap filter
    IN kSubset(IF Cardinality(good) < Limit THEN Cardinality(good) ELSE Limit, good)

Neighbours(seeds) ==
    {r \in eligible \ seeds : \E s \in seeds : <<r, s>> \in Links \/ <<s, r>> \in Links}

\* Text searches, and the links of the three best rows.
Search ==
    /\ pc = "search"
    /\ IF asked.route = "none" THEN found' = {}
       ELSE \E hits \in Hits(eligible) :
              \E seeds \in kSubset(IF Cardinality(hits) < 3 THEN Cardinality(hits) ELSE 3, hits) :
                 found' = hits \cup (IF asked.route = "lexical" THEN {} ELSE Neighbours(seeds))
    /\ pc' = "score"
    /\ UNCHANGED <<inputs, eligible, items, remaining, excluded, decisions, label, verdict, delivered, used>>

\* score_note: what the gates refuse scores nothing, of the rest any may score enough.
Enough == SUBSET {r \in found : ScoreGate(vault[r], ctx, asked.uncertain, asked.cross)}

\* What does not reach the minimum score is excluded, and recorded as not selected.
Score ==
    /\ pc = "score"
    /\ \E enough \in Enough :
        /\ found' = enough
        /\ excluded' = excluded \cup (found \ enough)
        /\ decisions' = {[row |-> r, selected |-> FALSE] : r \in found \ enough}
    /\ pc' = "allocate"
    /\ UNCHANGED <<inputs, eligible, items, remaining, label, verdict, delivered, used>>

-----------------------------------------------------------------------------
\* compile_task_view: the highest complete layer that fits, or None.
Compile(n, preferred, most) ==
    LET fit == {l \in 0 .. preferred : n.cost[l] > 0 /\ n.cost[l] =< most}
    IN IF fit = {} THEN None ELSE Max(fit)

\* _select_layer, for a layer that the score or the caller asks for.
SelectLayer(n, wish) ==
    LET texts == {l \in n.own : l =< wish} IN IF texts = {} THEN 1 ELSE Max(texts)

\* The layers asked for, where the score decides: any.
Wishes == IF asked.depth = None THEN (IF asked.expand THEN {2} ELSE Layer) ELSE {asked.depth}

Preferred(r, wish) ==
    LET layer == SelectLayer(vault[r], wish) IN IF asked.expand /\ asked.depth = None /\ layer < 2 THEN 2 ELSE layer

Payload(r, wish) == Compile(vault[r], Preferred(r, wish), IF remaining > Wrap THEN remaining - Wrap ELSE 0)

Taken == {items[i].row : i \in DOMAIN items}
Pool == found \ (Taken \cup {d.row : d \in decisions})

Fits(r, wish) == Payload(r, wish) # None /\ vault[r].cost[Payload(r, wish)] + Wrap =< remaining

\* The best payload is taken, whichever it is.
Take(r, wish) ==
    /\ pc = "allocate" /\ remaining >= Low
    /\ r \in Pool /\ Fits(r, wish)
    /\ items' = Append(items, [row |-> r, layer |-> Payload(r, wish)])
    /\ remaining' = remaining - (vault[r].cost[Payload(r, wish)] + Wrap)
    /\ decisions' = decisions \cup {[row |-> r, selected |-> TRUE]}
    /\ UNCHANGED <<inputs, pc, eligible, found, excluded, label, verdict, delivered, used>>

\* ... unless it adds too little to the items there are.
PassOver(r, wish) ==
    /\ pc = "allocate" /\ remaining >= Low /\ items # <<>>
    /\ r \in Pool /\ Fits(r, wish)
    /\ excluded' = excluded \cup {r}
    /\ decisions' = decisions \cup {[row |-> r, selected |-> FALSE]}
    /\ UNCHANGED <<inputs, pc, eligible, found, items, remaining, label, verdict, delivered, used>>

-----------------------------------------------------------------------------
\* assess_sufficiency and unrecorded_roles.
Roles(list) == UNION {vault[list[i].row].roles[list[i].layer] : i \in DOMAIN list}
Recorded(list) == UNION {vault[list[i].row].recorded : i \in DOMAIN list}

Sufficiency(list) ==
    LET missing == Needed[ctx] \ Roles(list) IN
    IF list = <<>>
    THEN [state |-> "insufficient_evidence", missing |-> Needed[ctx], unrecorded |-> {}]
    ELSE [state |-> IF missing = {} THEN "sufficient_context" ELSE "partial_context",
          missing |-> missing, unrecorded |-> missing \ Recorded(list)]

\* An exclusion that names a contradiction: of claims, or of a note marked as conflicted,
\* for which the gate does not look any further.
Contradicted ==
    LET passing == Passing(vault, ctx, asked.uncertain, asked.cross, Evidence) IN
    \/ Conflicting(vault, passing) # {}
    \/ \E r \in Row : /\ vault[r].valid /\ ~vault[r].unsafe /\ vault[r].status = "conflicted"
                      /\ ~Duplicate(vault, r)

FirstVerdict ==
    IF asked.route = "none" THEN [Nothing EXCEPT !.state = "no_retrieval_needed"]
    ELSE IF items = <<>> /\ Contradicted THEN [Sufficiency(items) EXCEPT !.state = "conflicting_evidence"]
    ELSE Sufficiency(items)

AllocateDone ==
    /\ pc = "allocate"
    /\ remaining < Low \/ \E wish \in [Pool -> Wishes] : \A r \in Pool : ~Fits(r, wish[r])
    /\ verdict' = FirstVerdict
    /\ pc' = "fit"
    /\ UNCHANGED <<inputs, eligible, found, items, remaining, excluded, decisions, label, delivered, used>>

-----------------------------------------------------------------------------
Labelled(kept, v, labels) == labels /\ kept # {} /\ v.missing # {}

\* What the larger of the two representations of an answer with some of the items costs.
DeliveredCost(kept, v, labels) ==
    Base + RoleCost * Cardinality(v.missing)
    + (IF Labelled(kept, v, labels) THEN LabelCost ELSE 0)
    + Sum([i \in DOMAIN items |-> IF i \in kept THEN HeadCost + CostOf(items[i]) ELSE 0])

Cost == DeliveredCost(DOMAIN items, verdict, label)

TooLarge == items # <<>> /\ Cost > asked.budget

Fitting == pc = "fit" /\ TooLarge

\* The labels go before any memory.
DropLabels ==
    /\ Fitting
    /\ label /\ verdict.missing # {}
    /\ label' = FALSE
    /\ UNCHANGED <<inputs, pc, eligible, found, items, remaining, excluded, decisions, verdict, delivered, used>>

\* Mutant of Smaller: a layer that costs the same will do.
SmallerOrSame ==
    LET last == items[Len(items)]
        lower == {l \in Layer : l =< last.layer /\ vault[last.row].cost[l] > 0
                                 /\ vault[last.row].cost[l] =< vault[last.row].cost[last.layer]}
    IN IF lower = {} THEN None ELSE Max(lower)

\* The last item at a smaller complete layer, or None.
Smaller ==
    LET last == items[Len(items)]
        lower == {l \in 0 .. 1 : l < last.layer /\ vault[last.row].cost[l] > 0
                                 /\ vault[last.row].cost[l] < vault[last.row].cost[last.layer]}
    IN IF lower = {} THEN None ELSE Max(lower)

\* Mutant of Refit: the state of the answer is the one it had before.
RefitSilently(list) == items' = list /\ verdict' = verdict

Refit(list) == items' = list /\ verdict' = Sufficiency(list)

ShrinkLast ==
    /\ Fitting
    /\ ~(label /\ verdict.missing # {})
    /\ Smaller # None
    /\ Refit([items EXCEPT ![Len(items)].layer = Smaller])
    /\ UNCHANGED <<inputs, pc, eligible, found, remaining, excluded, decisions, label, delivered, used>>

DropLast ==
    /\ Fitting
    /\ ~(label /\ verdict.missing # {})
    /\ Smaller = None
    /\ Refit(SubSeq(items, 1, Len(items) - 1))
    /\ excluded' = excluded \cup {items[Len(items)].row}
    /\ UNCHANGED <<inputs, pc, eligible, found, remaining, decisions, label, delivered, used>>

\* Mutant of Refused: the cost of the answer that says so is not looked at.
RefusedNever == FALSE

\* Not even the answer that the budget is insufficient fits.
Refused == Cost > asked.budget /\ Least > asked.budget

\* The answer fits, or there is nothing left to leave out of it.
FitDone ==
    /\ pc = "fit" /\ ~TooLarge
    /\ pc' = IF Refused THEN "refused" ELSE "deliver"
    /\ UNCHANGED <<inputs, eligible, found, items, remaining, excluded, decisions, label, verdict, delivered, used>>

\* Mutant of Corrected: decisions are recorded as the allocation made them.
CorrectedNever(rows) == decisions

\* What is recorded of the rows: selected are those that are in the answer.
Corrected(rows) == {[row |-> d.row, selected |-> d.row \in rows] : d \in decisions}

\* What the host has retained in this epoch is left out.
News == {i \in DOMAIN items : asked.known[items[i].row] # items[i].layer}

Deliver ==
    /\ pc = "deliver"
    /\ LET last == IF items # <<>> /\ News = {} THEN [Nothing EXCEPT !.state = "unchanged_context"] ELSE verdict
       IN /\ verdict' = last
          /\ used' = IF Cost > asked.budget THEN Least ELSE DeliveredCost(News, last, label)
    /\ delivered' = {items[i].row : i \in News}
    /\ decisions' = IF asked.record THEN Corrected(delivered') ELSE {}
    /\ pc' = "done"
    /\ UNCHANGED <<inputs, eligible, found, items, remaining, excluded, label>>

-----------------------------------------------------------------------------
Allocate == \E r \in Pool, wish \in Wishes : Take(r, wish) \/ PassOver(r, wish)

Fit == DropLabels \/ ShrinkLast \/ DropLast

Next ==
    \/ Gate \/ Search \/ Score
    \/ Allocate \/ AllocateDone
    \/ Fit \/ FitDone
    \/ Deliver

Spec == Init /\ [][Next]_vars

\* A call runs on until it returns or raises.
FairSpec == Spec /\ WF_vars(Next)

-----------------------------------------------------------------------------
\* The answer never costs more than the budget, and the allocation never spends more than it
\* has: no layer, label, missing role or difference to the last epoch raises it silently.
FitsBudget ==
    /\ TypeOK
    /\ pc = "done" => used =< asked.budget
    /\ remaining + Sum([i \in DOMAIN items |-> Wrap + CostOf(items[i])]) =< asked.budget - Reserved

\* The answer says of itself what is true of what its host has then, delivered or retained:
\* it is sufficient only if every role is filled, and misses what nothing fills, also where
\* items were reduced or left out at the end.
StateTellsDelivery ==
    pc = "done" =>
        /\ verdict.state = "sufficient_context" => items # <<>> /\ Needed[ctx] \subseteq Roles(items)
        /\ verdict.state \in {"partial_context", "insufficient_evidence", "conflicting_evidence"} =>
               verdict.missing = Needed[ctx] \ Roles(items)
        /\ verdict.state = "conflicting_evidence" => delivered = {}
        /\ verdict.state = "unchanged_context" =>
               \A i \in DOMAIN items : asked.known[items[i].row] = items[i].layer

\* Each row has at most one decision, and those recorded as selected are the rows of the
\* answer: what was dropped at the end or left out as known does not count as used.
DecisionsTellDelivery ==
    /\ \A d, e \in decisions : d.row = e.row => d = e
    /\ pc = "done" /\ asked.record => delivered = {d.row : d \in {e \in decisions : e.selected}}

\* Whatever the MCP server lists or shows, retrieve would deliver in the same context.
VisibleIsEligible ==
    VisibleNotes(vault, ctx, Evidence) \subseteq Eligible(vault, ctx, FALSE, FALSE, Evidence)

\* The same in both directions, as the documentation has it.
SameEligibility ==
    VisibleNotes(vault, ctx, Evidence) = Eligible(vault, ctx, FALSE, FALSE, Evidence)

\* A call ends: the items it reduces and drops to fit the budget come to an end.
Ends == <>(pc \in {"done", "refused"})
=============================================================================
