-------------------------- MODULE MCEvidenceStore --------------------------
(* Two objects with the same content and different provenance.             *)
EXTENDS EvidenceStore, TLC

CONSTANTS s1, s2, c1, c2, p1, p2

Identities == {<<s1, c1>>, <<s2, c1>>}

\* A caller names the second object, which may never have been stored: an episode about the
\* first cites both, one about the second no more than its own.
Citations == {{<<s2, c1>>}}

\* For the first identity: the other's provenance, other content, or both done consistently.
Forgeries ==
    {[evidence_id |-> <<s1, c1>>, content |-> c1, content_digest |-> c1, subject |-> s2],
     [evidence_id |-> <<s1, c1>>, content |-> c2, content_digest |-> c1, subject |-> s1],
     [evidence_id |-> <<s1, c1>>, content |-> c2, content_digest |-> c2, subject |-> s1]}
Symmetric == Permutations({p1, p2})
=============================================================================
