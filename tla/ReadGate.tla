------------------------------ MODULE ReadGate ------------------------------
(***************************************************************************)
(* What may be shown to an agent: memory_read_gate (read_policy.py) with   *)
(* the gates it calls (security.py, scoring.py, applicability.py), and the *)
(* two places that apply it to all notes, Retriever.retrieve and the MCP   *)
(* server's _visible_notes.                                                *)
(*                                                                         *)
(* A note n is an index row:                                               *)
(*   declared   the identity it declares, or None                          *)
(*   valid, unsafe   verdicts made when its content last changed           *)
(*   status, authority, taint, confident (at least 0.35), instruction,     *)
(*   authorized                                                            *)
(*   scope, id and name of its repository, project, module, branch, and    *)
(*   target (the task or session it is for), applies (path patterns)       *)
(*   from, to   its valid time, from is 0 and to is Forever if not given   *)
(*   versions   the versions it is for, or None; package                   *)
(*   commit     None, or the commit it was true as of                      *)
(*   sources    pairs of a file of the repository and a digest             *)
(*   evidence   the evidence it cites                                      *)
(*   claim      None, or [key, value]                                      *)
(* A context c says what an agent asks from: repository, names, project,   *)
(* module, branch, task, session, paths, at, versions, head, ancestors,    *)
(* and the digests of the files of its checkout (None for no checkout).    *)
(***************************************************************************)
EXTENDS Naturals, FiniteSets

CONSTANTS None, Forever

Retired == {"quarantined", "archived", "superseded", "retracted"}
TrustedAuthority == {"source-of-truth", "authoritative", "verified", "user-corrected"}
CleanTaint == {"trusted", "derived"}
RepositoryBound == {"repository", "project", "module", "branch"}

InstructionAuthorized(n) ==
    n.instruction => n.authorized /\ n.authority \in TrustedAuthority /\ n.taint \in CleanTaint

TrustGate(n, allowUntrusted) ==
    /\ n.status \notin Retired \cup {"conflicted"}
    /\ InstructionAuthorized(n)
    /\ n.authority = "untrusted" => allowUntrusted
    /\ n.taint # "hostile"
    /\ ~n.confident => allowUntrusted

\* A note of a repository is for that repository; names count where it has no identity.
SameRepository(n, c, allowCross) ==
    \/ allowCross
    \/ /\ n.scope \in RepositoryBound /\ n.id = None /\ n.name = None => c.repository = None
       /\ n.id # None => n.id = c.repository
       /\ n.id = None /\ n.name # None /\ c.names # {} => n.name \in c.names

ScopeMatches(n, c) ==
    \/ n.scope = "repository"
    \/ n.scope = "project" /\ (n.project = c.project \/ None \in {n.project, c.project})
    \/ n.scope = "module" /\ n.module # None /\ n.module = c.module
    \/ n.scope = "module" /\ n.applies \cap c.paths # {}
    \/ n.scope = "branch" /\ n.branch # None /\ n.branch = c.branch
    \/ n.scope = "task" /\ n.target # None /\ n.target = c.task
    \/ n.scope = "session" /\ n.target # None /\ n.target = c.session

ScopeGate(n, c, allowCross) ==
    n.scope \in {"global", "user"} \/ (SameRepository(n, c, allowCross) /\ ScopeMatches(n, c))

SourcesMatch(n, c) == \A s \in n.sources : c.files # None /\ c.files[s[1]] = s[2]

\* A memory of an earlier commit counts only for what its unchanged sources say.
CommitApplies(n, c) ==
    \/ n.commit \in {None, c.head}
    \/ c.files # None /\ n.commit \in c.ancestors /\ n.sources # {}

TemporalGate(n, c) ==
    /\ n.from =< c.at /\ c.at < n.to
    /\ n.versions # None => n.package \in DOMAIN c.versions /\ c.versions[n.package] \in n.versions
    /\ n.commit # None => c.head # None /\ CommitApplies(n, c)
    /\ SourcesMatch(n, c)

\* The gates that score_note applies again to what a search has found.
ScoreGate(n, c, allowUntrusted, allowCross) ==
    TrustGate(n, allowUntrusted) /\ ScopeGate(n, c, allowCross) /\ TemporalGate(n, c)

MemoryReadGate(n, c, allowUntrusted, allowCross) ==
    /\ n.valid /\ n.status # "inbox" /\ ~n.unsafe
    /\ ScoreGate(n, c, allowUntrusted, allowCross)

-----------------------------------------------------------------------------
(* Of all notes: vault is a function from rows to notes, genuine the set   *)
(* of evidence that verifies.                                              *)

Namespace(n) ==
    <<n.claim.key, n.scope, IF n.id # None THEN n.id ELSE n.name, n.project, n.module, n.branch, n.target, n.applies>>

\* conflicting_claim_ids: all who say different things of one claim in one namespace.
Conflicting(vault, rows) ==
    {r \in rows : vault[r].claim # None /\
        \E s \in rows :
            /\ vault[s].claim # None /\ Namespace(vault[r]) = Namespace(vault[s])
            /\ vault[r].claim.value # vault[s].claim.value}

Duplicate(vault, r) ==
    vault[r].declared # None /\ \E s \in DOMAIN vault \ {r} : vault[s].declared = vault[r].declared

\* retrieve: duplicates and notes without their evidence contradict nobody.
Passing(vault, c, allowUntrusted, allowCross, genuine) ==
    {r \in DOMAIN vault :
        /\ MemoryReadGate(vault[r], c, allowUntrusted, allowCross)
        /\ ~Duplicate(vault, r)
        /\ vault[r].evidence \subseteq genuine}

Eligible(vault, c, allowUntrusted, allowCross, genuine) ==
    LET passing == Passing(vault, c, allowUntrusted, allowCross, genuine)
    IN passing \ Conflicting(vault, passing)

\* Mutant of VisibleNotes: evidence is taken at its word.
VisibleUnproved(vault, c, genuine) ==
    LET visible == {r \in DOMAIN vault : MemoryReadGate(vault[r], c, FALSE, FALSE)}
    IN {r \in visible \ Conflicting(vault, visible) : ~Duplicate(vault, r)}

\* _visible_notes: with neither permission, and duplicates are left out last.
VisibleNotes(vault, c, genuine) ==
    LET visible == {r \in DOMAIN vault :
                       MemoryReadGate(vault[r], c, FALSE, FALSE) /\ vault[r].evidence \subseteq genuine}
    IN {r \in visible \ Conflicting(vault, visible) : ~Duplicate(vault, r)}
=============================================================================
