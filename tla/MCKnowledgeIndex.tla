-------------------------- MODULE MCKnowledgeIndex --------------------------
(* Notes of two identities that link to each other by identity, title, file *)
(* name and path, and one that declares what a duplicate of the first would *)
(* be called.                                                               *)
EXTENDS KnowledgeIndex, TLC

CONSTANTS c1, c2, c3, m1, m2, i, j, h, Paths

I == <<i>>
J == <<j>>
Looks == <<i, h, 0>>
Alias == <<"name">>
Target == <<"dir/name">>

Interchangeable == Permutations({m1, m2})

MCPath == 1 .. Paths
MCDeclaredId == [c \in {c1, c2, c3} |-> IF c = c3 THEN Looks ELSE I]
MCLinksOf == [c \in {c1, c2, c3} |-> IF c = c1 THEN {J, Alias} ELSE IF c = c2 THEN {Target} ELSE {I}]
MCTitle == [c \in {c1, c2, c3} |-> IF c = c3 THEN J ELSE Alias]
MCStem == [p \in MCPath |-> IF p = 1 THEN Alias ELSE <<"other", p>>]
MCPathOf == [t \in {I, J, Looks, Alias, Target} \cup {<<"other", p>> : p \in MCPath}
                |-> IF t = Target THEN 1 ELSE NoPath]
MCQualified == {Target}
MCDigest == [p \in MCPath |-> h]
=============================================================================
