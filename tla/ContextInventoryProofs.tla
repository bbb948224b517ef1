----------------------- MODULE ContextInventoryProofs -----------------------
(***************************************************************************)
(* What holds of any number of hosts, sessions, epochs and calls: nothing  *)
(* is left out of an answer but what the host has, and no check answers    *)
(* from an older refresh.                                                  *)
(***************************************************************************)
EXTENDS ContextInventory, FiniteSetTheorems, TLAPS

Calls == {Idle} \cup Retrieving \cup Checking

\* A receipt that is being checked: what the notes were since the call is remembered.
Watched(p) ==
    Rechecks(doing[p]) =>
        /\ \A m \in Memory : vault[m] \in doing[p].was[m] /\ index[m] \in doing[p].was[m]
        /\ doing[p].receipt \in receipts
        /\ doing[p].call = "ack" => HasRetained(doing[p].receipt)

\* What was looked up, and what was compared and not found changed, was so during the call.
Answered(p) ==
    doing[p].call \in {"check", "ack"} /\ doing[p].step = "compare" =>
        /\ \A m \in doing[p].visible : \E note \in doing[p].was[m] : note.visible
        /\ \A m \in Selected(doing[p].receipt) \ (doing[p].left \cup doing[p].changed) :
              /\ m \in doing[p].visible
              /\ \E note \in doing[p].was[m] : note.source = doing[p].receipt.sources[m]

\* An acknowledgement that was let through is of a receipt whose host has all of it.
Acknowledging(p) ==
    doing[p].call = "ack" /\ doing[p].step \in {"read", "write"} =>
        /\ doing[p].receipt \in receipts
        /\ HasRetained(doing[p].receipt)
        /\ Mine(doing[p])

Computed(p) ==
    doing[p].call = "ack" /\ doing[p].step = "write" =>
        \A m \in Memory : doing[p].revisions[m] # None =>
            <<doing[p].session, doing[p].epoch, m, doing[p].revisions[m]>> \in retained

Delivering == {p \in Process : doing[p].call = "retrieve"}

\* Receipts are numbered as they come, and there is a number left for each answer.
Numbered ==
    /\ IsFiniteSet(receipts)
    /\ Cardinality(receipts) + Cardinality(Delivering) =< MaxReceipts
    /\ \A r \in receipts : r.id =< Cardinality(receipts)

DeliveredSelected == \A r \in receipts : \A m \in r.delivered : r.revisions[m] # None

IInv ==
    /\ TypeOK
    /\ InventoryIsRetained
    /\ LeftOutIsRetained
    /\ \A p \in Process : Watched(p) /\ Answered(p) /\ Acknowledging(p) /\ Computed(p)
    /\ Numbered
    /\ DeliveredSelected

-----------------------------------------------------------------------------
(* What a call is, by its name and step.                                   *)

LEMMA Kinds ==
    ASSUME NEW c \in Calls
    PROVE  /\ c.call \in {"idle", "retrieve", "check", "ack"}
           /\ c.call = "idle" => c = Idle
           /\ c.call = "retrieve" => c \in Retrieving
           /\ c.call \in {"check", "ack"} => c \in Checking
BY DEF Calls, Idle, Retrieving, Checking

LEMMA RetrievingKinds ==
    ASSUME NEW c \in Retrieving
    PROVE  /\ c.session \in Session /\ c.epoch \in Epoch
           /\ c.call = "retrieve"
           /\ c.step = "deliver" => c.revisions \in Revisions /\ c.sources \in [Memory -> Source \cup {None}]
BY DEF Retrieving

Looks == [call : {"check", "ack"}, session : Session, epoch : Epoch, receipt : Receipt,
          step : {"look"}, was : History]
Compares == [call : {"check", "ack"}, session : Session, epoch : Epoch, receipt : Receipt,
             step : {"compare"}, visible : SUBSET Memory, left : SUBSET Memory,
             changed : SUBSET Memory, was : History]

LEMMA CheckingKinds ==
    ASSUME NEW c \in Checking
    PROVE  /\ c.receipt \in Receipt
           /\ c.call \in {"check", "ack"}
           /\ c.step \in {"look", "compare", "read", "write"}
           /\ c.step = "look" => c \in Looks
           /\ c.step = "compare" => c \in Compares
           /\ c.session \in Session /\ c.epoch \in Epoch
           /\ c.step = "write" => c.revisions \in Revisions
BY DEF Checking, Looks, Compares

LEMMA ReceiptKinds ==
    ASSUME NEW r \in Receipt
    PROVE  /\ r.id \in 1 .. MaxReceipts /\ r.session \in Session /\ r.epoch \in Epoch
           /\ r.revisions \in Revisions /\ r.sources \in [Memory -> Source \cup {None}]
           /\ r.delivered \in SUBSET Memory
BY DEF Receipt

\* A process takes its next step: the other calls are as they were.
LEMMA Others ==
    ASSUME IInv, NEW q \in Process, doing'[q] = doing[q], vault' = vault,
           index' \in {index, vault}, receipts \subseteq receipts', retained \subseteq retained'
    PROVE  Watched(q)' /\ Answered(q)' /\ Acknowledging(q)' /\ Computed(q)'
<1>1. ASSUME NEW r, HasRetained(r) PROVE HasRetained(r)'
    BY <1>1 DEF HasRetained
<1>2. Watched(q)'
    BY <1>1 DEF IInv, Watched
<1>3. Answered(q)' /\ Computed(q)'
    BY DEF IInv, Answered, Computed, Selected
<1>4. Acknowledging(q)'
    BY <1>1 DEF IInv, Acknowledging, Mine
<1> QED BY <1>2, <1>3, <1>4

LEMMA Counting ==
    ASSUME IInv, NEW p \in Process, NEW c \in Calls, doing' = [doing EXCEPT ![p] = c]
    PROVE  /\ doing' \in [Process -> Calls]
           /\ doing'[p] = c /\ \A q \in Process \ {p} : doing'[q] = doing[q]
           /\ Cardinality(Delivering) \in Nat /\ Cardinality(Delivering') \in Nat
           /\ Cardinality(receipts) \in Nat
           /\ (c.call = "retrieve" <=> doing[p].call = "retrieve") =>
                  Cardinality(Delivering') = Cardinality(Delivering)
           /\ c.call = "retrieve" => Cardinality(Delivering') =< Cardinality(Delivering) + 1
           /\ c.call # "retrieve" /\ doing[p].call = "retrieve" =>
                  Cardinality(Delivering') = Cardinality(Delivering) - 1
<1>1. /\ doing' \in [Process -> Calls]
      /\ doing'[p] = c /\ \A q \in Process \ {p} : doing'[q] = doing[q]
    BY DEF IInv, TypeOK, Calls
<1>2. IsFiniteSet(Delivering) /\ IsFiniteSet(Delivering')
    BY FS_Subset, ContextAssumption DEF Delivering
<1>3. /\ Cardinality(Delivering) \in Nat /\ Cardinality(Delivering') \in Nat
      /\ Cardinality(receipts) \in Nat
    BY <1>2, FS_CardinalityType DEF IInv, Numbered
<1>4. ASSUME c.call = "retrieve" <=> doing[p].call = "retrieve"
      PROVE  Delivering' = Delivering
    BY <1>1, <1>4 DEF Delivering
<1>5. ASSUME c.call = "retrieve", doing[p].call # "retrieve"
      PROVE  Cardinality(Delivering') = Cardinality(Delivering) + 1
  <2>1. Delivering' = Delivering \cup {p} /\ p \notin Delivering
    BY <1>1, <1>5 DEF Delivering
  <2> QED BY <2>1, <1>2, FS_AddElement
<1>6. ASSUME c.call # "retrieve", doing[p].call = "retrieve"
      PROVE  Cardinality(Delivering') = Cardinality(Delivering) - 1
  <2>1. Delivering' = Delivering \ {p} /\ p \in Delivering
    BY <1>1, <1>6 DEF Delivering
  <2> QED BY <2>1, <1>2, FS_RemoveElement
<1> QED BY <1>1, <1>3, <1>4, <1>5, <1>6

\* A call that writes no receipt, retains nothing and leaves the inventory alone.
LEMMA Proceeds ==
    ASSUME IInv, NEW p \in Process, NEW c \in Calls, doing' = [doing EXCEPT ![p] = c],
           UNCHANGED <<vault, edits, receipts, inventory, retained, acked>>,
           index' \in {index, vault},
           c.call = "retrieve" =>
               doing[p].call = "retrieve" \/ Cardinality(receipts) + Cardinality(Delivering) < MaxReceipts,
           Watched(p)' /\ Answered(p)' /\ Acknowledging(p)' /\ Computed(p)'
    PROVE  IInv'
<1>1. TypeOK'
    BY Counting DEF IInv, TypeOK, Calls
<1>2. \A q \in Process : Watched(q)' /\ Answered(q)' /\ Acknowledging(q)' /\ Computed(q)'
    BY Counting, Others
<1>3. InventoryIsRetained' /\ LeftOutIsRetained' /\ DeliveredSelected'
    BY DEF IInv, InventoryIsRetained, LeftOutIsRetained, DeliveredSelected
<1>4. Cardinality(receipts') + Cardinality(Delivering') =< MaxReceipts
  <2>1. MaxReceipts \in Nat /\ receipts' = receipts
        /\ Cardinality(receipts) + Cardinality(Delivering) =< MaxReceipts
    BY ContextAssumption DEF IInv, Numbered
  <2> DEFINE d == Cardinality(Delivering)
             e == Cardinality(Delivering')
             r == Cardinality(receipts)
  <2>2. /\ d \in Nat /\ e \in Nat /\ r \in Nat
        /\ e = d \/ e = d - 1 \/ (e =< d + 1 /\ c.call = "retrieve" /\ doing[p].call # "retrieve")
    BY Counting
  <2>3. r + d =< MaxReceipts
    BY <2>1
  <2>4. c.call = "retrieve" /\ doing[p].call # "retrieve" => r + d < MaxReceipts
    OBVIOUS
  <2> HIDE DEF d, e, r
  <2>5. r + e =< MaxReceipts
    BY <2>1, <2>2, <2>3, <2>4
  <2> QED BY <2>1, <2>5 DEF e, r
<1>5. Numbered'
    BY <1>4 DEF IInv, Numbered
<1> QED BY <1>1, <1>2, <1>3, <1>5 DEF IInv

-----------------------------------------------------------------------------
LEMMA IdleInv ==
    ASSUME IInv, NEW p \in Process, doing' = [doing EXCEPT ![p] = Idle],
           UNCHANGED <<vault, edits, index, receipts, inventory, retained, acked>>
    PROVE  IInv'
<1>1. Idle \in Calls /\ Idle.call = "idle"
    BY DEF Calls, Idle
<1>2. doing'[p] = Idle
    BY DEF IInv, TypeOK
<1>3. Watched(p)' /\ Answered(p)' /\ Acknowledging(p)' /\ Computed(p)'
    BY <1>1, <1>2 DEF Watched, Rechecks, Answered, Acknowledging, Computed
<1> QED BY <1>1, <1>3, Proceeds

LEMMA RetrieveInv ==
    ASSUME IInv, NEW p \in Process, NEW s \in Session, NEW e \in Epoch, Retrieve(p, s, e)
    PROVE  IInv'
<1> DEFINE c == [call |-> "retrieve", session |-> s, epoch |-> e, step |-> "select"]
<1>1. c \in Calls /\ c.call = "retrieve" /\ c.step = "select"
    BY DEF Calls, Retrieving
<1>2. doing' = [doing EXCEPT ![p] = c] /\ doing'[p] = c
    BY DEF Retrieve, IInv, TypeOK
<1> HIDE DEF c
<1>3. Watched(p)' /\ Answered(p)' /\ Acknowledging(p)' /\ Computed(p)'
    BY <1>1, <1>2 DEF Watched, Rechecks, Answered, Acknowledging, Computed
<1> QED BY <1>1, <1>2, <1>3, Proceeds DEF Retrieve, Delivering

LEMMA SelectInv == ASSUME IInv, NEW p \in Process, Select(p) PROVE IInv'
<1>1. PICK items \in SUBSET {m \in Memory : index[m].visible}, layer \in [Memory -> Layer] :
        doing' = [doing EXCEPT ![p] =
            [call |-> "retrieve", session |-> doing[p].session, epoch |-> doing[p].epoch, step |-> "deliver",
             revisions |-> [m \in Memory |-> IF m \in items THEN <<index[m].source, layer[m]>> ELSE None],
             sources |-> [m \in Memory |-> IF m \in items THEN index[m].source ELSE None]]]
    BY DEF Select
<1> DEFINE revisions == [m \in Memory |-> IF m \in items THEN <<index[m].source, layer[m]>> ELSE None]
           sources == [m \in Memory |-> IF m \in items THEN index[m].source ELSE None]
           c == [call |-> "retrieve", session |-> doing[p].session, epoch |-> doing[p].epoch,
                 step |-> "deliver", revisions |-> revisions, sources |-> sources]
<1>2. doing[p].session \in Session /\ doing[p].epoch \in Epoch
    BY Kinds, RetrievingKinds DEF Select, IInv, TypeOK, Calls
<1>3. \A m \in Memory : index[m].source \in Source
    BY DEF IInv, TypeOK, Note
<1>4. revisions \in Revisions /\ sources \in [Memory -> Source \cup {None}]
    BY <1>3 DEF Revisions, Revision
<1> HIDE DEF revisions, sources
<1>5. c \in Calls /\ c.call = "retrieve" /\ c.step = "deliver"
    BY <1>2, <1>4 DEF Calls, Retrieving
<1>6. doing' = [doing EXCEPT ![p] = c]
    BY <1>1 DEF revisions, sources
<1>7. doing'[p] = c
    BY <1>6 DEF IInv, TypeOK
<1> HIDE DEF c
<1>8. Watched(p)' /\ Answered(p)' /\ Acknowledging(p)' /\ Computed(p)'
    BY <1>5, <1>7 DEF Watched, Rechecks, Answered, Acknowledging, Computed
<1> QED BY <1>5, <1>6, <1>8, Proceeds DEF Select

LEMMA CallReceiptInv ==
    ASSUME IInv, NEW p \in Process, NEW call \in {"check", "ack"}, NEW r \in receipts,
           NEW s \in Session, NEW e \in Epoch, CallReceipt(p, call, r, s, e)
    PROVE  IInv'
<1> DEFINE was == [m \in Memory |-> {vault[m]}]
           c == [call |-> call, session |-> s, epoch |-> e, receipt |-> r, step |-> "look", was |-> was]
<1>1. was \in History /\ r \in Receipt
    BY DEF History, IInv, TypeOK
<1>2. \A m \in Memory : vault[m] \in was[m]
    OBVIOUS
<1> HIDE DEF was
<1>3. /\ c \in Calls
      /\ c.call = call /\ c.step = "look" /\ c.receipt = r /\ c.was = was
    BY <1>1 DEF Calls, Checking
<1>4. doing' = [doing EXCEPT ![p] = c] /\ doing'[p] = c
    BY DEF CallReceipt, was, IInv, TypeOK
<1> HIDE DEF c
<1>5. /\ UNCHANGED <<vault, edits, receipts, inventory, retained, acked>> /\ index' = vault
      /\ call = "ack" => HasRetained(r)
    BY DEF CallReceipt
<1>6. Watched(p)'
    BY <1>2, <1>3, <1>4, <1>5 DEF Watched, HasRetained
<1>7. Answered(p)' /\ Acknowledging(p)' /\ Computed(p)'
    BY <1>3, <1>4 DEF Answered, Acknowledging, Computed
<1>8. c.call # "retrieve"
    BY <1>3
<1> QED BY <1>3, <1>4, <1>5, <1>6, <1>7, <1>8, Proceeds

\* What a check in progress is of.
LEMMA CheckingTyped ==
    ASSUME IInv, NEW p \in Process, doing[p].call \in {"check", "ack"}
    PROVE  doing[p] \in Checking /\ doing[p].receipt \in Receipt
BY Kinds, CheckingKinds DEF IInv, TypeOK, Calls

LEMMA LookUpInv == ASSUME IInv, NEW p \in Process, LookUp(p) PROVE IInv'
<1> DEFINE d == doing[p]
           visible == {m \in Memory : index[m].visible}
           c == [call |-> d.call, session |-> d.session, epoch |-> d.epoch, receipt |-> d.receipt,
                 step |-> "compare", visible |-> visible, left |-> Selected(d.receipt),
                 changed |-> {}, was |-> d.was]
<1>1. d.call \in {"check", "ack"} /\ d.step = "look"
      /\ UNCHANGED <<vault, edits, index, receipts, inventory, retained, acked>>
    BY DEF LookUp
<1>2. d \in Looks
    BY <1>1, CheckingTyped, CheckingKinds
<1>3. Selected(d.receipt) \in SUBSET Memory /\ visible \in SUBSET Memory
    BY DEF Selected
<1>4. \A m \in visible : m \in Memory /\ index[m].visible
    OBVIOUS
<1>5. doing' = [doing EXCEPT ![p] = c]
    BY DEF LookUp
<1> HIDE DEF visible
<1>6. /\ c \in Calls
      /\ c.call = d.call /\ c.step = "compare" /\ c.receipt = d.receipt /\ c.visible = visible
      /\ c.left = Selected(d.receipt) /\ c.changed = {} /\ c.was = d.was
    BY <1>2, <1>3 DEF Calls, Checking, Looks
<1>7. doing'[p] = c
    BY <1>5 DEF IInv, TypeOK
<1> HIDE DEF c
<1>8. /\ \A m \in Memory : vault[m] \in d.was[m] /\ index[m] \in d.was[m]
      /\ d.receipt \in receipts
      /\ d.call = "ack" => HasRetained(d.receipt)
    BY <1>1 DEF IInv, Watched, Rechecks
<1>9. Watched(p)'
    BY <1>1, <1>6, <1>7, <1>8 DEF Watched, HasRetained
<1>10. Answered(p)'
    BY <1>4, <1>6, <1>7, <1>8 DEF Answered, Selected
<1>11. Acknowledging(p)' /\ Computed(p)'
    BY <1>6, <1>7 DEF Acknowledging, Computed
<1> QED BY <1>1, <1>5, <1>6, <1>9, <1>10, <1>11, Proceeds

LEMMA CompareInv == ASSUME IInv, NEW p \in Process, NEW m \in Memory, Compare(p, m) PROVE IInv'
<1> DEFINE d == doing[p]
           left == d.left \ {m}
           changed == d.changed \cup {n \in {m} : Changed(d, n)}
           c == [d EXCEPT !.left = @ \ {m}, !.changed = @ \cup {n \in {m} : Changed(d, n)}]
<1>1. d.call \in {"check", "ack"} /\ d.step = "compare"
      /\ UNCHANGED <<vault, edits, index, receipts, inventory, retained, acked>>
    BY DEF Compare
<1>2. d \in Compares
    BY <1>1, CheckingTyped, CheckingKinds
<1>3. left \in SUBSET Memory /\ changed \in SUBSET Memory
    BY <1>2 DEF Compares
<1>4. \A n \in Memory : n \notin left \cup changed =>
          n \notin d.left \cup d.changed \/ (n = m /\ ~Changed(d, m))
    OBVIOUS
<1>5. doing' = [doing EXCEPT ![p] = c]
    BY DEF Compare
<1> HIDE DEF left, changed
<1>6. c = [d EXCEPT !.left = left, !.changed = changed]
    BY <1>2 DEF left, changed, Compares
<1>7. /\ c \in Calls
      /\ c.call = d.call /\ c.step = "compare" /\ c.receipt = d.receipt /\ c.visible = d.visible
      /\ c.left = left /\ c.changed = changed /\ c.was = d.was
    BY <1>2, <1>3, <1>6 DEF Calls, Checking, Compares
<1>8. doing'[p] = c
    BY <1>5 DEF IInv, TypeOK
<1> HIDE DEF c
<1>9. /\ \A n \in Memory : vault[n] \in d.was[n] /\ index[n] \in d.was[n]
      /\ d.receipt \in receipts
      /\ d.call = "ack" => HasRetained(d.receipt)
    BY <1>1 DEF IInv, Watched, Rechecks
<1>10. Watched(p)'
    BY <1>1, <1>7, <1>8, <1>9 DEF Watched, HasRetained
<1>11. Answered(p)'
  <2>1. /\ \A n \in d.visible : \E note \in d.was[n] : note.visible
        /\ \A n \in Selected(d.receipt) \ (d.left \cup d.changed) :
              /\ n \in d.visible
              /\ \E note \in d.was[n] : note.source = d.receipt.sources[n]
      BY <1>1 DEF IInv, Answered
  <2>2. ~Changed(d, m) => index[m].source = d.receipt.sources[m] /\ m \in d.visible
      BY DEF Changed
  <2>3. ASSUME NEW n \in Selected(d.receipt) \ (left \cup changed)
        PROVE  n \in d.visible /\ \E note \in d.was[n] : note.source = d.receipt.sources[n]
      BY <1>4, <1>9, <2>1, <2>2 DEF Selected
  <2> QED BY <1>7, <1>8, <2>1, <2>3 DEF Answered
<1>12. Acknowledging(p)' /\ Computed(p)'
    BY <1>7, <1>8 DEF Acknowledging, Computed
<1>13. c.call # "retrieve"
    BY <1>1, <1>7
<1> QED BY <1>1, <1>5, <1>7, <1>10, <1>11, <1>12, <1>13, Proceeds

LEMMA AcceptInv == ASSUME IInv, NEW p \in Process, Accept(p) PROVE IInv'
<1> DEFINE r == doing[p].receipt
           c == [call |-> "ack", session |-> doing[p].session, epoch |-> doing[p].epoch,
                 receipt |-> r, step |-> "read"]
<1>1. doing[p].call = "ack" /\ doing[p].step = "compare"
      /\ UNCHANGED <<vault, edits, index, receipts, inventory, retained, acked>>
    BY DEF Accept, Compared
<1>2. CASE doing[p].changed # {} \/ ~Mine(doing[p])
    BY <1>1, <1>2, IdleInv DEF Accept
<1>3. CASE ~(doing[p].changed # {} \/ ~Mine(doing[p]))
  <2>1. doing' = [doing EXCEPT ![p] = c]
    BY <1>3 DEF Accept
  <2>2. r \in Receipt /\ doing[p].session \in Session /\ doing[p].epoch \in Epoch
    BY <1>1, CheckingTyped, CheckingKinds
  <2>3. /\ c \in Calls
        /\ c.call = "ack" /\ c.step = "read" /\ c.receipt = r
        /\ c.session = doing[p].session /\ c.epoch = doing[p].epoch
    BY <2>2 DEF Calls, Checking
  <2>4. doing'[p] = c
    BY <2>1 DEF IInv, TypeOK
  <2> HIDE DEF c
  <2>5. r \in receipts /\ HasRetained(r)
    BY <1>1 DEF IInv, Watched, Rechecks
  <2>6. \A x : HasRetained(x) => HasRetained(x)'
    BY <1>1 DEF HasRetained
  <2>7. Acknowledging(p)'
    BY <1>1, <1>3, <2>3, <2>4, <2>5, <2>6 DEF Acknowledging, Mine
  <2>8. Watched(p)' /\ Answered(p)' /\ Computed(p)'
    BY <2>3, <2>4 DEF Watched, Rechecks, Answered, Computed
  <2> QED BY <1>1, <2>1, <2>3, <2>7, <2>8, Proceeds
<1> QED BY <1>2, <1>3

LEMMA ReadInventoryInv == ASSUME IInv, NEW p \in Process, ReadInventory(p) PROVE IInv'
<1> DEFINE r == doing[p].receipt
           s == doing[p].session
           e == doing[p].epoch
           revisions == [m \in Memory |-> IF r.revisions[m] # None THEN r.revisions[m]
                                          ELSE Prior(s, e)[m]]
           c == [call |-> "ack", session |-> s, epoch |-> e, receipt |-> r, step |-> "write",
                 revisions |-> revisions]
<1>1. doing[p].call = "ack" /\ doing[p].step = "read"
      /\ UNCHANGED <<vault, edits, index, receipts, inventory, retained, acked>>
    BY DEF ReadInventory
<1>2. r \in Receipt /\ s \in Session /\ e \in Epoch
    BY <1>1, CheckingTyped, CheckingKinds
<1>3. r \in receipts /\ HasRetained(r) /\ r.session = s /\ r.epoch = e
    BY <1>1 DEF IInv, Acknowledging, Mine
<1>4. Prior(s, e) \in Revisions
    BY <1>2 DEF Prior, Nowhere, Revisions, IInv, TypeOK
<1>5. r.revisions \in Revisions
    BY <1>2, ReceiptKinds
<1>6. revisions \in Revisions
    BY <1>4, <1>5 DEF Revisions
<1>7. \A m \in Memory : revisions[m] # None => <<s, e, m, revisions[m]>> \in retained
  <2> SUFFICES ASSUME NEW m \in Memory, revisions[m] # None
               PROVE  <<s, e, m, revisions[m]>> \in retained
    OBVIOUS
  <2>1. CASE r.revisions[m] # None
    <3>1. m \in r.delivered => <<s, e, m, r.revisions[m]>> \in retained
        BY <1>3 DEF HasRetained
    <3>2. m \notin r.delivered => <<s, e, m, r.revisions[m]>> \in retained
        BY <1>3, <2>1 DEF IInv, LeftOutIsRetained
    <3> QED BY <2>1, <3>1, <3>2
  <2>2. CASE r.revisions[m] = None
    <3>1. revisions[m] = Prior(s, e)[m]
        BY <2>2
    <3>2. inventory[s] # None /\ inventory[s].epoch = e /\ Prior(s, e) = inventory[s].revisions
        BY <3>1 DEF Prior, Nowhere
    <3> QED BY <1>2, <3>1, <3>2 DEF IInv, InventoryIsRetained
  <2> QED BY <2>1, <2>2
<1> HIDE DEF revisions
<1>8. /\ c \in Calls
      /\ c.call = "ack" /\ c.step = "write" /\ c.receipt = r
      /\ c.session = s /\ c.epoch = e /\ c.revisions = revisions
    BY <1>2, <1>6 DEF Calls, Checking
<1>9. doing' = [doing EXCEPT ![p] = c]
    BY DEF ReadInventory, revisions
<1>10. doing'[p] = c
    BY <1>9 DEF IInv, TypeOK
<1> HIDE DEF c
<1>11. \A x : HasRetained(x) => HasRetained(x)'
    BY <1>1 DEF HasRetained
<1>12. Acknowledging(p)'
    BY <1>1, <1>3, <1>8, <1>10, <1>11 DEF Acknowledging, Mine
<1>13. Computed(p)'
    BY <1>1, <1>7, <1>8, <1>10 DEF Computed
<1>14. Watched(p)' /\ Answered(p)'
    BY <1>8, <1>10 DEF Watched, Rechecks, Answered
<1> QED BY <1>1, <1>8, <1>9, <1>12, <1>13, <1>14, Proceeds

LEMMA DeliverInv == ASSUME IInv, NEW p \in Process, Deliver(p) PROVE IInv'
<1> DEFINE c == doing[p]
           n == Cardinality(receipts)
           delivered == {m \in Memory : c.revisions[m] # None} \ Unchanged(c)
           r == [id |-> n + 1, session |-> c.session, epoch |-> c.epoch,
                 revisions |-> c.revisions, sources |-> c.sources, delivered |-> delivered]
<1>1. /\ c.call = "retrieve" /\ c.step = "deliver"
      /\ doing' = [doing EXCEPT ![p] = Idle]
      /\ UNCHANGED <<vault, edits, index, inventory, retained, acked>>
      /\ receipts' = receipts \cup {r}
    BY DEF Deliver
<1>2. /\ c.session \in Session /\ c.epoch \in Epoch
      /\ c.revisions \in Revisions /\ c.sources \in [Memory -> Source \cup {None}]
    BY <1>1, Kinds, RetrievingKinds DEF IInv, TypeOK, Calls
<1>3. Idle \in Calls /\ Idle.call = "idle"
    BY DEF Calls, Idle
<1>4. /\ n \in Nat /\ Cardinality(Delivering) \in Nat
      /\ Cardinality(Delivering') = Cardinality(Delivering) - 1
      /\ Cardinality(Delivering') \in Nat
    BY <1>1, <1>3, Counting
<1>5. n + 1 \in 1 .. MaxReceipts
    BY <1>4, ContextAssumption DEF IInv, Numbered
<1>6. delivered \in SUBSET Memory
    OBVIOUS
<1>7. \A m \in Memory \ delivered : c.revisions[m] # None =>
            <<c.session, c.epoch, m, c.revisions[m]>> \in retained
    BY <1>2 DEF Unchanged, IInv, InventoryIsRetained
<1> HIDE DEF n, delivered
<1>8. /\ r \in Receipt
      /\ r.id = n + 1 /\ r.session = c.session /\ r.epoch = c.epoch /\ r.revisions = c.revisions
      /\ r.delivered = delivered
    BY <1>2, <1>5, <1>6 DEF Receipt
<1> HIDE DEF r
<1>9. \A x \in receipts : x.id =< n /\ x.id \in Nat
    BY DEF IInv, Numbered, n, TypeOK, Receipt
<1>10. r \notin receipts
    BY <1>4, <1>8, <1>9
<1>11. IsFiniteSet(receipts') /\ Cardinality(receipts') = n + 1
    BY <1>1, <1>10, FS_AddElement DEF IInv, Numbered, n
<1>12. Numbered'
  <2> DEFINE d == Cardinality(Delivering)
             e == Cardinality(Delivering')
  <2>1. n \in Nat /\ d \in Nat /\ e = d - 1 /\ MaxReceipts \in Nat
    BY <1>4, ContextAssumption
  <2>2. n + d =< MaxReceipts
    BY DEF IInv, Numbered, n
  <2>3. \A x \in receipts' : x.id =< n + 1
    BY <1>1, <1>8, <1>9, <2>1
  <2> HIDE DEF d, e
  <2>4. n + 1 + e =< MaxReceipts
    BY <2>1, <2>2
  <2> QED BY <1>11, <2>3, <2>4 DEF Numbered, e
<1>13. TypeOK'
  <2>1. doing' \in [Process -> Calls]
    BY <1>1, <1>3, Counting
  <2>2. \A x, y \in receipts' : x.id = y.id => x = y
    BY <1>1, <1>4, <1>8, <1>9 DEF IInv, TypeOK
  <2>3. Cardinality(receipts') =< MaxReceipts
    BY <1>4, <1>5, <1>11, ContextAssumption
  <2> QED BY <1>1, <1>8, <2>1, <2>2, <2>3 DEF IInv, TypeOK, Calls
<1>14. InventoryIsRetained' /\ DeliveredSelected'
  <2>1. \A m \in delivered : c.revisions[m] # None
    BY DEF delivered
  <2> QED BY <1>1, <1>8, <2>1 DEF IInv, InventoryIsRetained, DeliveredSelected
<1>15. LeftOutIsRetained'
    BY <1>1, <1>7, <1>8 DEF IInv, LeftOutIsRetained
<1>16. ASSUME NEW q \in Process PROVE Watched(q)' /\ Answered(q)' /\ Acknowledging(q)' /\ Computed(q)'
  <2>1. CASE q = p
    <3>1. doing'[q] = Idle
        BY <1>1, <2>1 DEF IInv, TypeOK
    <3> QED BY <3>1, <1>3 DEF Watched, Rechecks, Answered, Acknowledging, Computed
  <2>2. CASE q # p
    BY <1>1, <1>3, <2>2, Counting, Others
  <2> QED BY <2>1, <2>2
<1> QED BY <1>12, <1>13, <1>14, <1>15, <1>16 DEF IInv

LEMMA WriteInventoryInv == ASSUME IInv, NEW p \in Process, WriteInventory(p) PROVE IInv'
<1> DEFINE c == doing[p]
           file == [epoch |-> c.epoch, revisions |-> c.revisions]
           news == {<<c.session, c.epoch, m>> : m \in {n \in Memory : c.receipt.revisions[n] # None}}
<1>1. /\ c.call = "ack" /\ c.step = "write"
      /\ inventory' = [inventory EXCEPT ![c.session] = file]
      /\ acked' = acked \cup news
      /\ doing' = [doing EXCEPT ![p] = Idle]
      /\ UNCHANGED <<vault, edits, index, receipts, retained>>
    BY DEF WriteInventory
<1>2. c.session \in Session /\ c.epoch \in Epoch /\ c.revisions \in Revisions
    BY <1>1, CheckingTyped, CheckingKinds
<1>3. Idle \in Calls /\ Idle.call = "idle"
    BY DEF Calls, Idle
<1>4. /\ doing' \in [Process -> Calls] /\ doing'[p] = Idle
      /\ \A q \in Process \ {p} : doing'[q] = doing[q]
      /\ Cardinality(Delivering') = Cardinality(Delivering)
    BY <1>1, <1>3, Counting
<1>5. file \in [epoch : Epoch, revisions : Revisions] /\ news \subseteq Session \X Epoch \X Memory
    BY <1>2
<1>6. \A m \in Memory : file.revisions[m] # None =>
            <<c.session, file.epoch, m, file.revisions[m]>> \in retained
    BY <1>1 DEF IInv, Computed
<1> HIDE DEF file, news
<1>7. TypeOK'
    BY <1>1, <1>2, <1>4, <1>5 DEF IInv, TypeOK, Calls
<1>8. InventoryIsRetained'
  <2> SUFFICES ASSUME NEW s \in Session, inventory'[s] # None, NEW m \in Memory,
                      inventory'[s].revisions[m] # None
               PROVE  <<s, inventory'[s].epoch, m, inventory'[s].revisions[m]>> \in retained
    BY <1>1 DEF InventoryIsRetained
  <2>1. inventory'[s] = IF s = c.session THEN file ELSE inventory[s]
    BY <1>1 DEF IInv, TypeOK
  <2>2. CASE s = c.session
    BY <1>6, <2>1, <2>2
  <2>3. CASE s # c.session
    BY <2>1, <2>3 DEF IInv, InventoryIsRetained
  <2> QED BY <2>2, <2>3
<1>9. LeftOutIsRetained' /\ DeliveredSelected' /\ Numbered'
    BY <1>1, <1>4 DEF IInv, LeftOutIsRetained, DeliveredSelected, Numbered
<1>10. ASSUME NEW q \in Process PROVE Watched(q)' /\ Answered(q)' /\ Acknowledging(q)' /\ Computed(q)'
  <2>1. CASE q = p
    BY <1>3, <1>4, <2>1 DEF Watched, Rechecks, Answered, Acknowledging, Computed
  <2>2. CASE q # p
    BY <1>1, <1>4, <2>2, Others
  <2> QED BY <2>1, <2>2
<1> QED BY <1>7, <1>8, <1>9, <1>10 DEF IInv

-----------------------------------------------------------------------------
\* An edit of the vault: the checks in progress remember what holds now.
LEMMA EditInv == ASSUME IInv, NEW m \in Memory, NEW note \in Note, Edit(m, note) PROVE IInv'
<1> DEFINE grown(q) == [n \in Memory |-> doing[q].was[n] \cup {vault'[n]}]
           c(q) == [doing[q] EXCEPT !.was = grown(q)]
<1>1. /\ vault' = [vault EXCEPT ![m] = note] /\ edits' = edits + 1 /\ edits < MaxEdits
      /\ doing' = [q \in Process |-> IF Rechecks(doing[q]) THEN c(q) ELSE doing[q]]
      /\ UNCHANGED <<index, receipts, inventory, retained, acked>>
    BY DEF Edit, Watch
<1>2. vault' \in [Memory -> Note] /\ edits' \in 0 .. MaxEdits
    BY <1>1, ContextAssumption DEF IInv, TypeOK
<1>3. ASSUME NEW q \in Process, Rechecks(doing[q])
      PROVE  /\ c(q) \in Calls
             /\ c(q).call = doing[q].call /\ c(q).step = doing[q].step
             /\ c(q).receipt = doing[q].receipt
             /\ \A n \in Memory : c(q).was[n] = doing[q].was[n] \cup {vault'[n]}
             /\ doing[q].step = "compare" =>
                    /\ c(q).visible = doing[q].visible /\ doing[q].visible \subseteq Memory
                    /\ c(q).left = doing[q].left /\ c(q).changed = doing[q].changed
  <2>1. doing[q] \in Looks \/ doing[q] \in Compares
    BY <1>3, CheckingTyped, CheckingKinds DEF Rechecks
  <2>2. doing[q].was \in History
    BY <2>1 DEF Looks, Compares
  <2>3. grown(q) \in History /\ \A n \in Memory : grown(q)[n] = doing[q].was[n] \cup {vault'[n]}
    BY <1>2, <2>2 DEF History
  <2> HIDE DEF grown
  <2>4. c(q) \in Checking /\ c(q).was = grown(q)
    BY <2>1, <2>3 DEF Looks, Compares, Checking
  <2> QED BY <2>1, <2>3, <2>4 DEF Calls, Looks, Compares
<1> HIDE DEF c
<1>4. \A q \in Process : ~Rechecks(doing[q]) => doing'[q] = doing[q]
    BY <1>1
<1>5. \A q \in Process : Rechecks(doing[q]) => doing'[q] = c(q)
    BY <1>1
<1>6. TypeOK'
  <2>1. doing' \in [Process -> Calls]
    BY <1>1, <1>3 DEF IInv, TypeOK, Calls
  <2> QED BY <1>1, <1>2, <2>1 DEF IInv, TypeOK, Calls
<1>7. Delivering' = Delivering
    BY <1>3, <1>4, <1>5 DEF Delivering
<1>8. InventoryIsRetained' /\ LeftOutIsRetained' /\ DeliveredSelected' /\ Numbered'
    BY <1>1, <1>7 DEF IInv, InventoryIsRetained, LeftOutIsRetained, DeliveredSelected, Numbered
<1>9. \A x : HasRetained(x) => HasRetained(x)'
    BY <1>1 DEF HasRetained
<1>10. ASSUME NEW q \in Process PROVE Watched(q)' /\ Answered(q)' /\ Acknowledging(q)' /\ Computed(q)'
  <2>1. CASE Rechecks(doing[q])
    <3> DEFINE d == c(q)
    <3>1. /\ doing'[q] = d
          /\ d.call = doing[q].call /\ d.step = doing[q].step /\ d.receipt = doing[q].receipt
          /\ \A n \in Memory : d.was[n] = doing[q].was[n] \cup {vault'[n]}
          /\ doing[q].step = "compare" =>
                 /\ d.visible = doing[q].visible /\ doing[q].visible \subseteq Memory
                 /\ d.left = doing[q].left /\ d.changed = doing[q].changed
        BY <1>3, <1>5, <2>1
    <3> HIDE DEF d
    <3>2. /\ \A n \in Memory : index[n] \in doing[q].was[n]
          /\ doing[q].receipt \in receipts
          /\ doing[q].call = "ack" => HasRetained(doing[q].receipt)
        BY <2>1 DEF IInv, Watched
    <3>3. Watched(q)'
        BY <1>1, <1>9, <3>1, <3>2 DEF Watched
    <3>4. Answered(q)'
        BY <3>1 DEF IInv, Answered, Selected
    <3>5. doing'[q].step \in {"look", "compare"}
        BY <2>1, <3>1 DEF Rechecks
    <3> QED BY <3>3, <3>4, <3>5 DEF Acknowledging, Computed
  <2>2. CASE ~Rechecks(doing[q])
    <3>1. doing'[q] = doing[q]
        BY <1>4, <2>2
    <3>2. Watched(q)'
        BY <2>2, <3>1 DEF Watched
    <3>3. Answered(q)' /\ Computed(q)'
        BY <1>1, <3>1 DEF IInv, Answered, Computed, Selected
    <3>4. Acknowledging(q)'
        BY <1>1, <1>9, <3>1 DEF IInv, Acknowledging, Mine
    <3> QED BY <3>2, <3>3, <3>4
  <2> QED BY <2>1, <2>2
<1> QED BY <1>6, <1>8, <1>10 DEF IInv

LEMMA RetainInv == ASSUME IInv, NEW r \in receipts, Retain(r) PROVE IInv'
<1> DEFINE news == {<<r.session, r.epoch, m, r.revisions[m]>> : m \in r.delivered}
<1>1. /\ retained' = retained \cup news
      /\ UNCHANGED <<vault, edits, index, receipts, inventory, acked, doing>>
    BY DEF Retain
<1>2. news \subseteq Session \X Epoch \X Memory \X Revision
  <2>1. r \in Receipt
    BY DEF IInv, TypeOK
  <2>2. r.session \in Session /\ r.epoch \in Epoch /\ r.delivered \subseteq Memory
        /\ r.revisions \in [Memory -> Revision \cup {None}]
    BY <2>1, ReceiptKinds DEF Revisions
  <2>3. \A m \in r.delivered : r.revisions[m] # None
    BY DEF IInv, DeliveredSelected
  <2>4. \A m \in r.delivered : r.revisions[m] \in Revision
    BY <2>2, <2>3
  <2> QED BY <2>2, <2>4
<1> HIDE DEF news
<1>3. TypeOK'
    BY <1>1, <1>2 DEF IInv, TypeOK
<1>4. InventoryIsRetained' /\ LeftOutIsRetained' /\ DeliveredSelected' /\ Numbered'
    BY <1>1 DEF IInv, InventoryIsRetained, LeftOutIsRetained, DeliveredSelected, Numbered, Delivering
<1>5. \A q \in Process : Watched(q)' /\ Answered(q)' /\ Acknowledging(q)' /\ Computed(q)'
    BY <1>1, Others
<1> QED BY <1>3, <1>4, <1>5 DEF IInv

LEMMA LoseInventoryInv == ASSUME IInv, NEW s \in Session, LoseInventory(s) PROVE IInv'
<1>1. TypeOK'
    BY DEF LoseInventory, IInv, TypeOK
<1>2. InventoryIsRetained'
    BY DEF LoseInventory, IInv, TypeOK, InventoryIsRetained
<1>3. LeftOutIsRetained' /\ DeliveredSelected' /\ Numbered'
    BY DEF LoseInventory, IInv, LeftOutIsRetained, DeliveredSelected, Numbered, Delivering
<1>4. \A q \in Process : Watched(q)' /\ Answered(q)' /\ Acknowledging(q)' /\ Computed(q)'
    BY Others DEF LoseInventory
<1> QED BY <1>1, <1>2, <1>3, <1>4 DEF IInv

LEMMA UnchangedInv == ASSUME IInv, UNCHANGED vars PROVE IInv'
<1>1. TypeOK'
    BY DEF vars, IInv, TypeOK
<1>2. InventoryIsRetained' /\ LeftOutIsRetained' /\ DeliveredSelected' /\ Numbered'
    BY DEF vars, IInv, InventoryIsRetained, LeftOutIsRetained, DeliveredSelected, Numbered, Delivering
<1>3. \A q \in Process : Watched(q)' /\ Answered(q)' /\ Acknowledging(q)' /\ Computed(q)'
    BY Others DEF vars
<1> QED BY <1>1, <1>2, <1>3 DEF IInv

\* Every step keeps the invariant.
LEMMA NextInv == ASSUME IInv, [Next]_vars PROVE IInv'
<1>1. ASSUME NEW p \in Process, Answer(p) PROVE IInv'
    BY <1>1, IdleInv DEF Answer
<1>2. ASSUME NEW p \in Process, NEW s \in Session, NEW e \in Epoch,
             \/ Retrieve(p, s, e)
             \/ \E call \in {"check", "ack"}, r \in receipts : CallReceipt(p, call, r, s, e)
      PROVE  IInv'
    BY <1>2, RetrieveInv, CallReceiptInv
<1>3. ASSUME NEW p \in Process,
             \/ Select(p) \/ Deliver(p) \/ LookUp(p) \/ \E m \in Memory : Compare(p, m)
             \/ Accept(p) \/ ReadInventory(p) \/ WriteInventory(p)
      PROVE  IInv'
    BY <1>3, SelectInv, DeliverInv, LookUpInv, CompareInv, AcceptInv, ReadInventoryInv,
       WriteInventoryInv
<1> QED BY <1>1, <1>2, <1>3, EditInv, RetainInv, LoseInventoryInv, UnchangedInv DEF Next

\* An empty store of receipts, where no call is in progress, satisfies the invariant.
LEMMA InitInv == ASSUME Init PROVE IInv
<1>1. Idle \in Calls /\ \A p \in Process : doing[p].call = "idle"
    BY DEF Init, Idle, Calls
<1>2. (CHOOSE first \in Source : TRUE) \in Source
    BY ContextAssumption
<1>3. vault \in [Memory -> Note] /\ index \in [Memory -> Note]
    BY <1>2 DEF Init, Note
<1>4. IsFiniteSet(receipts) /\ Cardinality(receipts) = 0
    BY FS_EmptySet DEF Init
<1>5. Delivering = {}
    BY <1>1 DEF Delivering
<1>6. Numbered
    BY <1>4, <1>5, FS_EmptySet, ContextAssumption DEF Numbered, Init
<1>7. TypeOK
    BY <1>1, <1>3, <1>4, ContextAssumption DEF Init, TypeOK, Calls
<1>8. InventoryIsRetained /\ LeftOutIsRetained /\ DeliveredSelected
    BY DEF Init, InventoryIsRetained, LeftOutIsRetained, DeliveredSelected
<1>9. \A p \in Process : Watched(p) /\ Answered(p) /\ Acknowledging(p) /\ Computed(p)
    BY <1>1 DEF Watched, Rechecks, Answered, Acknowledging, Computed
<1> QED BY <1>6, <1>7, <1>8, <1>9 DEF IInv

\* The invariant holds of every behaviour.
LEMMA Invariance == Spec => []IInv
<1>1. Init => IInv
    BY InitInv
<1>2. IInv /\ [Next]_vars => IInv'
    BY NextInv
<1> QED BY <1>1, <1>2, PTL DEF Spec

-----------------------------------------------------------------------------
(* Nothing is in the inventory of an epoch but what its host retained,      *)
(* however late, overlapping or misdirected the acknowledgements are        *)
(* (mcp_server.py kb_context_ack, context_state.py acknowledge).            *)
THEOREM InventoryTheorem == Spec => []InventoryIsSound
<1>1. IInv => InventoryIsSound
    BY DEF IInv, InventoryIsSound
<1> QED BY <1>1, Invariance, PTL

(* What an answer leaves out as unchanged, its host has in that session and *)
(* epoch, word for word (retrieval.py retrieve).                            *)
THEOREM LeftOutTheorem == Spec => []LeftOutIsRetained
<1>1. IInv => LeftOutIsRetained
    BY DEF IInv
<1> QED BY <1>1, Invariance, PTL

(* A receipt found valid has of each memory that it was visible and that it *)
(* was as delivered during the check, at moments that may differ, although  *)
(* other calls refresh the index while it looks up and compares             *)
(* (mcp_server.py _receipt).                                                *)
THEOREM CheckTheorem == Spec => []ValidWasTrue
<1>1. ASSUME IInv PROVE ValidWasTrue
  <2> SUFFICES ASSUME NEW p \in Process, FoundValid(p), NEW m \in Selected(doing[p].receipt)
               PROVE  /\ \E note \in doing[p].was[m] : note.visible
                      /\ \E note \in doing[p].was[m] : note.source = doing[p].receipt.sources[m]
      BY DEF ValidWasTrue
  <2>1. doing[p].call = "check" /\ doing[p].step = "compare" /\ doing[p].left = {}
        /\ doing[p].changed = {}
      BY DEF FoundValid, Compared
  <2> QED BY <1>1, <2>1 DEF IInv, Answered
<1> QED BY <1>1, Invariance, PTL
=============================================================================
