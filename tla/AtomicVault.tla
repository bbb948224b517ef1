---- MODULE AtomicVault ----
(***************************************************************************)
(* What semantic_transaction promises, without inodes, links or journals.  *)
(*                                                                         *)
(* vault is the content of every path as committed transactions and        *)
(* outsiders have made it; what the body of an open transaction writes is  *)
(* not in it.  A transaction changes the vault in one step, when it        *)
(* commits or when the owner accepts what a crash has left, or not at all. *)
(* A path is Unknown while a transaction cannot be undone for it, because  *)
(* an outsider has replaced or removed it, or its saved copy.              *)
(***************************************************************************)
CONSTANTS Path, Content, NoContent, Unknown

VARIABLES
    vault,   \* path -> content
    mode     \* idle, preparing, open, undoing, interrupted or restoring

vars == <<vault, mode>>

Settled == [Path -> Content \cup {NoContent}]

Moves(before, after) == mode \in before /\ mode' = after

\* The vault holds what it held, and is settled again.
Keeps ==
    /\ vault' \in Settled
    /\ \A p \in Path : vault[p] # Unknown => vault'[p] = vault[p]

----------------------------------------------------------------------------
Init == vault = [p \in Path |-> NoContent] /\ mode = "idle"

\* Also over one that was interrupted before it was prepared.
Begin == Moves({"idle", "preparing"}, "preparing") /\ Keeps
Abandon == Moves({"preparing"}, "idle") /\ Keeps

Prepare ==
    /\ Moves({"preparing"}, "open")
    /\ vault' \in [Path -> Content \cup {NoContent, Unknown}]
    /\ \A p \in Path : vault'[p] \in {vault[p], Unknown}

Commit == Moves({"open"}, "idle") /\ vault' \in Settled

Fail == Moves({"open"}, "undoing") /\ UNCHANGED vault
Interrupt == Moves({"open", "undoing", "restoring"}, "interrupted") /\ UNCHANGED vault

Undo == Moves({"undoing"}, "idle") /\ Keeps

Accept == Moves({"interrupted"}, "idle") /\ vault' \in Settled

Reconcile == Moves({"interrupted"}, "restoring") /\ UNCHANGED vault

\* New files may stay: they may have been written after the crash.
Restore ==
    /\ Moves({"restoring"}, "idle")
    /\ vault' \in Settled
    /\ \A p \in Path : vault[p] \in Content => vault'[p] = vault[p]

\* The one thing the code does beyond the promise: kb reconcile --delete-new
\* of a snapshot that was never finished takes every file for a new one.
Purge(p) ==
    /\ mode = "preparing"
    /\ vault' = [vault EXCEPT ![p] = NoContent]
    /\ UNCHANGED mode

----------------------------------------------------------------------------
(* Outsiders.  One save reaches every name of a hard-linked file.          *)

Edit(P, c) ==
    /\ mode = "idle"
    /\ vault' = [p \in Path |-> IF p \in P THEN c ELSE vault[p]]
    /\ UNCHANGED mode

\* While a transaction is pending, a save of a file it has not replaced counts;
\* reconcile may have replaced some by files with the same bytes (lost).
Save(P, lost, c) ==
    /\ mode # "idle"
    /\ \A p \in P : vault[p] \in Content
    /\ lost # {} => mode = "restoring"
    /\ vault' = [p \in Path |-> IF p \in lost THEN Unknown
                                ELSE IF p \in P THEN c ELSE vault[p]]
    /\ UNCHANGED mode

Dispute(p) ==
    /\ mode # "idle"
    /\ vault' = [vault EXCEPT ![p] = Unknown]
    /\ UNCHANGED mode

Outside ==
    \/ \E P \in SUBSET Path, c \in Content : Edit(P, c)
    \/ \E p \in Path : Edit({p}, NoContent) \/ Dispute(p)
    \/ \E P, lost \in SUBSET Path, c \in Content : Save(P, lost, c)

Next ==
    \/ Begin \/ Abandon \/ Prepare \/ Commit
    \/ Fail \/ Interrupt \/ Undo
    \/ Accept \/ Reconcile \/ Restore \/ \E p \in Path : Purge(p)
    \/ Outside

Spec == Init /\ [][Next]_vars
====
