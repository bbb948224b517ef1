----------------------------- MODULE MCRetrieval -----------------------------
(* Three rows, of ten kinds of notes that the gates and the budget tell     *)
(* apart, asked for from two checkouts in five ways.                        *)
EXTENDS Retrieval

Plain ==
    [declared |-> None, valid |-> TRUE, unsafe |-> FALSE, status |-> "active", authority |-> "verified",
     taint |-> "trusted", confident |-> TRUE, instruction |-> FALSE, authorized |-> FALSE,
     scope |-> "repository", id |-> "here", name |-> None, project |-> None, module |-> None,
     branch |-> None, target |-> None, applies |-> {}, from |-> 0, to |-> Forever, versions |-> None,
     package |-> None, commit |-> None, sources |-> {}, evidence |-> {"proof"}, claim |-> None,
     own |-> 0 .. 2, cost |-> [l \in Layer |-> 1 + 2 * l],
     roles |-> [l \in Layer |-> IF l = 2 THEN {"claim", "rationale"} ELSE {"claim"}],
     recorded |-> {"claim", "rationale"}]

Lean == [Plain EXCEPT !.own = {0}, !.cost = [l \in Layer |-> IF l = 0 THEN 2 ELSE 0],
                      !.roles = [l \in Layer |-> {"claim"}], !.recorded = {"claim"}]
Yes == [Plain EXCEPT !.claim = [key |-> "k", value |-> "yes"]]
No == [Lean EXCEPT !.claim = [key |-> "k", value |-> "no"]]
Twice == [Yes EXCEPT !.declared = "twice"]
Doubtful == [Plain EXCEPT !.authority = "untrusted"]
Dated == [Plain EXCEPT !.to = 2]
Sourced == [Plain EXCEPT !.sources = {<<"file", "old">>}, !.commit = "before"]
Unproved == [Plain EXCEPT !.evidence = {"hearsay"}]
Contested == [Plain EXCEPT !.status = "conflicted", !.id = "elsewhere"]

Here ==
    [repository |-> "here", names |-> {"here"}, project |-> None, module |-> None, branch |-> "main",
     task |-> None, session |-> None, paths |-> {}, at |-> 1, versions |-> <<>>, head |-> "now",
     ancestors |-> {"before"}, files |-> [file \in {"file"} |-> "old"]]
Later == [Here EXCEPT !.at = 3, !.files = [file \in {"file"} |-> "new"]]

Asked == [budget |-> 14, uncertain |-> FALSE, cross |-> FALSE, route |-> "hybrid", depth |-> None,
          expand |-> FALSE, record |-> TRUE, known |-> [r \in {1, 2, 3} |-> None]]

MCVault == [{1, 2, 3} -> {Yes, No, Twice, Dated}]
           \cup {[r \in {1, 2, 3} |-> v[r]] : v \in {Plain, Lean} \X {Doubtful, Sourced, Unproved, Contested}
                                                     \X {Contested, No, Lean}}
MCContext == {Here, Later}
MCRequest == {Asked, [Asked EXCEPT !.depth = 2, !.route = "lexical"],
              [Asked EXCEPT !.expand = TRUE, !.uncertain = TRUE, !.budget = 20],
              [Asked EXCEPT !.known = [r \in {1, 2, 3} |-> IF r = 3 THEN None ELSE 2], !.depth = 2, !.record = FALSE],
              [Asked EXCEPT !.known = [r \in {1, 2, 3} |-> 0], !.depth = 0, !.budget = 9],
              [Asked EXCEPT !.route = "none", !.budget = 2]}
MCNeeded == [c \in MCContext |-> IF c = Here THEN {"claim", "rationale"} ELSE {"claim"}]
MCLinks == {<<1, 2>>}
=============================================================================
