-------------------------- MODULE ContextInventory -------------------------
(***************************************************************************)
(* What a host has retained of delivered context: retrievals that leave    *)
(* out what it has acknowledged (retrieval.py 344-370), receipts, their    *)
(* check and acknowledgement (mcp_server.py 429-460), and the inventory of *)
(* a session (context_state.py 25-50), read and replaced without a lock.   *)
(*                                                                         *)
(* Every call is a process of its own.  A host acknowledges a receipt only *)
(* after it retained what that receipt delivered, but its call may be late *)
(* and name the wrong session or epoch.  The index is refreshed at once    *)
(* (KnowledgeIndex shows how); the vault changes between any two steps.    *)
(***************************************************************************)
EXTENDS Naturals, FiniteSets

CONSTANTS Memory, Session, Epoch,
          Source,      \* what a note may contain
          Layer,       \* the representations that may be delivered of it
          Process,
          None,
          MaxReceipts, \* bounds the retrievals
          MaxEdits     \* bounds the changes of the vault

ASSUME ContextAssumption ==
    /\ IsFiniteSet(Process) /\ Source # {}
    /\ MaxReceipts \in Nat /\ MaxEdits \in Nat

VARIABLES vault,     \* per memory its source and whether the read gates let it through
          edits,
          index,     \* the same, as last refreshed
          receipts,  \* stored receipts
          inventory, \* per session the inventory file
          retained,  \* ghost: what a host retained, per session and epoch
          acked,     \* ghost: the memories whose acknowledgement was confirmed
          doing      \* per process the call in progress

vars == <<vault, edits, index, receipts, inventory, retained, acked, doing>>

Note == [source : Source, visible : BOOLEAN]
Revision == Source \X Layer
Revisions == [Memory -> Revision \cup {None}]
Receipt ==
    [id : 1 .. MaxReceipts, session : Session, epoch : Epoch, revisions : Revisions,
     sources : [Memory -> Source \cup {None}], delivered : SUBSET Memory]
Idle == [call |-> "idle"]

\* ghost: what each note has been since a check began
History == [Memory -> SUBSET Note]
Nowhere == [m \in Memory |-> None]

Retrieving ==
    [call : {"retrieve"}, session : Session, epoch : Epoch, step : {"select"}]
    \cup [call : {"retrieve"}, session : Session, epoch : Epoch, step : {"deliver"},
          revisions : Revisions, sources : [Memory -> Source \cup {None}]]
Checking ==
    [call : {"check", "ack"}, session : Session, epoch : Epoch, receipt : Receipt,
     step : {"look"}, was : History]
    \cup [call : {"check", "ack"}, session : Session, epoch : Epoch, receipt : Receipt,
          step : {"compare"}, visible : SUBSET Memory, left : SUBSET Memory,
          changed : SUBSET Memory, was : History]
    \cup [call : {"ack"}, session : Session, epoch : Epoch, receipt : Receipt,
          step : {"read"}]
    \cup [call : {"ack"}, session : Session, epoch : Epoch, receipt : Receipt,
          step : {"write"}, revisions : Revisions]

TypeOK ==
    /\ vault \in [Memory -> Note] /\ index \in [Memory -> Note]
    /\ edits \in 0 .. MaxEdits
    /\ receipts \subseteq Receipt /\ Cardinality(receipts) =< MaxReceipts
    /\ \A r, s \in receipts : r.id = s.id => r = s
    /\ inventory \in [Session -> [epoch : Epoch, revisions : Revisions] \cup {None}]
    /\ retained \subseteq Session \X Epoch \X Memory \X Revision
    /\ acked \subseteq Session \X Epoch \X Memory
    /\ doing \in [Process -> {Idle} \cup Retrieving \cup Checking]

Init ==
    /\ vault = [m \in Memory |-> [source |-> CHOOSE first \in Source : TRUE, visible |-> TRUE]]
    /\ index = vault
    /\ edits = 0
    /\ receipts = {}
    /\ inventory = [s \in Session |-> None]
    /\ retained = {} /\ acked = {}
    /\ doing = [p \in Process |-> Idle]

-----------------------------------------------------------------------------
\* A receipt is being looked up and compared with the index.
Rechecks(call) == call.call \in {"check", "ack"} /\ call.step \in {"look", "compare"}

\* Rechecks in progress are told the ghost way what the notes are meanwhile.
Watch(notes) ==
    [p \in Process |-> IF Rechecks(doing[p])
                       THEN [doing[p] EXCEPT !.was = [m \in Memory |-> @[m] \cup {notes[m]}]]
                       ELSE doing[p]]

\* A note is edited, forgotten, restored, or made invisible by a conflict with another.
Edit(m, note) ==
    /\ edits < MaxEdits /\ vault[m] # note
    /\ vault' = [vault EXCEPT ![m] = note]
    /\ edits' = edits + 1
    /\ doing' = Watch(vault')
    /\ UNCHANGED <<index, receipts, inventory, retained, acked>>

-----------------------------------------------------------------------------
(* retrieve, of a host that named a session and an epoch; the index is     *)
(* refreshed first.                                                        *)

Retrieve(p, s, e) ==
    /\ doing[p] = Idle
    /\ Cardinality(receipts) + Cardinality({q \in Process : doing[q].call = "retrieve"}) < MaxReceipts
    /\ index' = vault
    /\ doing' = [doing EXCEPT ![p] = [call |-> "retrieve", session |-> s, epoch |-> e, step |-> "select"]]
    /\ UNCHANGED <<vault, edits, receipts, inventory, retained, acked>>

\* Some of the visible notes are selected, each at the layer the budget leaves room for.
Select(p) ==
    /\ doing[p].call = "retrieve" /\ doing[p].step = "select"
    /\ \E items \in SUBSET {m \in Memory : index[m].visible}, layer \in [Memory -> Layer] :
        doing' = [doing EXCEPT ![p] =
            [call |-> "retrieve", session |-> @.session, epoch |-> @.epoch, step |-> "deliver",
             revisions |-> [m \in Memory |-> IF m \in items THEN <<index[m].source, layer[m]>> ELSE None],
             sources |-> [m \in Memory |-> IF m \in items THEN index[m].source ELSE None]]]
    /\ UNCHANGED <<vault, edits, index, receipts, inventory, retained, acked>>

\* A mutant of Unchanged: an inventory of any epoch counts.
UnchangedInAnyEpoch(call) ==
    IF inventory[call.session] = None THEN {}
    ELSE {m \in Memory : /\ call.revisions[m] # None
                         /\ inventory[call.session].revisions[m] = call.revisions[m]}

\* The selected memories left out because this epoch acknowledged the same representation.
Unchanged(call) ==
    IF inventory[call.session] = None \/ inventory[call.session].epoch # call.epoch THEN {}
    ELSE {m \in Memory : /\ call.revisions[m] # None
                         /\ inventory[call.session].revisions[m] = call.revisions[m]}

\* The receipt names all that was selected, what was left out of the answer too.
Deliver(p) ==
    /\ doing[p].call = "retrieve" /\ doing[p].step = "deliver"
    /\ LET call == doing[p] IN
       receipts' = receipts \cup
            {[id |-> Cardinality(receipts) + 1, session |-> call.session, epoch |-> call.epoch,
              revisions |-> call.revisions, sources |-> call.sources,
              delivered |-> {m \in Memory : call.revisions[m] # None} \ Unchanged(call)]}
    /\ doing' = [doing EXCEPT ![p] = Idle]
    /\ UNCHANGED <<vault, edits, index, inventory, retained, acked>>

\* A host takes what was delivered into its context.
Retain(r) ==
    /\ retained' = retained \cup {<<r.session, r.epoch, m, r.revisions[m]>> : m \in r.delivered}
    /\ retained' # retained
    /\ UNCHANGED <<vault, edits, index, receipts, inventory, acked, doing>>

-----------------------------------------------------------------------------
(* kb_receipt_check and kb_context_ack; the index is refreshed first.      *)

HasRetained(r) == \A m \in r.delivered : <<r.session, r.epoch, m, r.revisions[m]>> \in retained

\* A check names no session: it is made as if in that of the receipt.
CallReceipt(p, call, r, s, e) ==
    /\ doing[p] = Idle
    /\ call = "check" => s = r.session /\ e = r.epoch
    /\ call = "ack" => HasRetained(r)
    /\ doing' = [doing EXCEPT ![p] = [call |-> call, session |-> s, epoch |-> e, receipt |-> r,
                                      step |-> "look", was |-> [m \in Memory |-> {vault[m]}]]]
    /\ index' = vault
    /\ UNCHANGED <<vault, edits, receipts, inventory, retained, acked>>

Selected(r) == {m \in Memory : r.sources[m] # None}

\* all_notes: what may be read is settled for all memories at once.
LookUp(p) ==
    /\ doing[p].call \in {"check", "ack"} /\ doing[p].step = "look"
    /\ doing' = [doing EXCEPT ![p] =
            [call |-> @.call, session |-> @.session, epoch |-> @.epoch, receipt |-> @.receipt,
             step |-> "compare", visible |-> {m \in Memory : index[m].visible},
             left |-> Selected(@.receipt), changed |-> {}, was |-> @.was]]
    /\ UNCHANGED <<vault, edits, index, receipts, inventory, retained, acked>>

\* A mutant of Changed: the read gates are not asked again.
ChangedSource(call, m) == index[m].source # call.receipt.sources[m]

\* A memory is no longer what was delivered, or was not among the visible.
Changed(call, m) == index[m].source # call.receipt.sources[m] \/ m \notin call.visible

\* get: the memories of the receipt are read one by one, others refreshing the index between.
Compare(p, m) ==
    /\ doing[p].call \in {"check", "ack"} /\ doing[p].step = "compare"
    /\ m \in doing[p].left
    /\ doing' = [doing EXCEPT ![p] = [doing[p] EXCEPT !.left = @ \ {m},
                     !.changed = @ \cup {n \in {m} : Changed(doing[p], n)}]]
    /\ UNCHANGED <<vault, edits, index, receipts, inventory, retained, acked>>

Compared(p, call) == doing[p].call = call /\ doing[p].step = "compare" /\ doing[p].left = {}

Answer(p) ==
    /\ Compared(p, "check")
    /\ doing' = [doing EXCEPT ![p] = Idle]
    /\ UNCHANGED <<vault, edits, index, receipts, inventory, retained, acked>>

Mine(call) == call.receipt.session = call.session /\ call.receipt.epoch = call.epoch

\* A receipt that is stale or another's is refused with an error.
Accept(p) ==
    /\ Compared(p, "ack")
    /\ doing' = [doing EXCEPT ![p] =
            IF @.changed # {} \/ ~Mine(@) THEN Idle
            ELSE [call |-> "ack", session |-> @.session, epoch |-> @.epoch, receipt |-> @.receipt, step |-> "read"]]
    /\ UNCHANGED <<vault, edits, index, receipts, inventory, retained, acked>>

\* A mutant of Prior: what an earlier epoch acknowledged is carried over.
PriorOfAnyEpoch(s, e) == IF inventory[s] = None THEN Nowhere ELSE inventory[s].revisions

Prior(s, e) ==
    IF inventory[s] = None \/ inventory[s].epoch # e THEN Nowhere ELSE inventory[s].revisions

ReadInventory(p) ==
    /\ doing[p].call = "ack" /\ doing[p].step = "read"
    /\ doing' = [doing EXCEPT ![p] =
            [call |-> "ack", session |-> @.session, epoch |-> @.epoch, receipt |-> @.receipt, step |-> "write",
             revisions |-> [m \in Memory |->
                IF doing[p].receipt.revisions[m] # None THEN doing[p].receipt.revisions[m]
                ELSE Prior(doing[p].session, doing[p].epoch)[m]]]]
    /\ UNCHANGED <<vault, edits, index, receipts, inventory, retained, acked>>

\* acknowledge: the file is replaced with what was computed from an earlier reading.
WriteInventory(p) ==
    /\ doing[p].call = "ack" /\ doing[p].step = "write"
    /\ LET call == doing[p] IN
        /\ inventory' = [inventory EXCEPT ![call.session] = [epoch |-> call.epoch, revisions |-> call.revisions]]
        /\ acked' = acked \cup {<<call.session, call.epoch, m>> :
                                   m \in {n \in Memory : call.receipt.revisions[n] # None}}
    /\ doing' = [doing EXCEPT ![p] = Idle]
    /\ UNCHANGED <<vault, edits, index, receipts, retained>>

\* The runtime directory is derived state: it may be deleted at any time.
LoseInventory(s) ==
    /\ inventory[s] # None
    /\ inventory' = [inventory EXCEPT ![s] = None]
    /\ acked' = {a \in acked : a[1] # s}
    /\ UNCHANGED <<vault, edits, index, receipts, retained, doing>>

Next ==
    \/ \E m \in Memory, note \in Note : Edit(m, note)
    \/ \E p \in Process, s \in Session, e \in Epoch :
        \/ Retrieve(p, s, e)
        \/ \E call \in {"check", "ack"}, r \in receipts : CallReceipt(p, call, r, s, e)
    \/ \E p \in Process :
        \/ Select(p) \/ Deliver(p)
        \/ LookUp(p) \/ (\E m \in Memory : Compare(p, m)) \/ Answer(p)
        \/ Accept(p) \/ ReadInventory(p) \/ WriteInventory(p)
    \/ \E r \in receipts : Retain(r)
    \/ \E s \in Session : LoseInventory(s)

Spec == Init /\ [][Next]_vars

-----------------------------------------------------------------------------
\* The inventory of an epoch holds only what the host retained in that epoch, whichever
\* acknowledgements were late, overlapped, or named a wrong session: delivery is never
\* taken for retention.
InventoryIsRetained ==
    \A s \in Session : inventory[s] # None =>
        \A m \in Memory : inventory[s].revisions[m] # None =>
            <<s, inventory[s].epoch, m, inventory[s].revisions[m]>> \in retained

\* What an answer left out, its host has in the same session and epoch, word for word.
LeftOutIsRetained ==
    \A r \in receipts : \A m \in Memory \ r.delivered :
        r.revisions[m] # None => <<r.session, r.epoch, m, r.revisions[m]>> \in retained

FoundValid(p) == Compared(p, "check") /\ doing[p].changed = {}

\* A receipt was found valid only if each of its memories was, at some moment of the check,
\* visible, and at some moment of the check what had been delivered: neither is answered from
\* an older refresh.  The two moments may differ, because visibility is looked up first.
ValidWasTrue ==
    \A p \in Process : FoundValid(p) =>
        \A m \in Selected(doing[p].receipt) :
            /\ \E note \in doing[p].was[m] : note.visible
            /\ \E note \in doing[p].was[m] : note.source = doing[p].receipt.sources[m]

\* What the code does not promise: that each memory was both at one moment of the check.
ValidWasTrueAtOnce ==
    \A p \in Process : FoundValid(p) =>
        \A m \in Selected(doing[p].receipt) :
            [source |-> doing[p].receipt.sources[m], visible |-> TRUE] \in doing[p].was[m]

\* What was acknowledged in an epoch stays in the inventory while the inventory is of that
\* epoch.
AcknowledgedIsKept ==
    \A s \in Session, m \in Memory :
        inventory[s] # None /\ <<s, inventory[s].epoch, m>> \in acked => inventory[s].revisions[m] # None

\* Inventories and receipts are well formed, and nothing is in an inventory that its host did not retain.
InventoryIsSound == TypeOK /\ InventoryIsRetained
=============================================================================
