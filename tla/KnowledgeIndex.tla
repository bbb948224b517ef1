--------------------------- MODULE KnowledgeIndex ---------------------------
(***************************************************************************)
(* The projection of the vault in SQLite (index.py 56-468): rows, links    *)
(* and the manifest of file states, and the refresh that brings them up to *)
(* date while editors, sync tools and people, who take no lock, go on      *)
(* changing files.  A refresh holds the vault lock and writes in one       *)
(* SQLite savepoint, so one refresh runs at a time and its writes appear   *)
(* at once.                                                                *)
(*                                                                         *)
(* Texts that name notes (identities, titles, file names, link targets)    *)
(* are tuples; <<>> is the empty string.  Path is 1..n in the order in     *)
(* which the code sorts paths.                                             *)
(***************************************************************************)
EXTENDS Naturals, Sequences, FiniteSets, Functions

CONSTANTS Path, Content,
          DeclaredId,  \* the identity a content declares
          LinksOf,     \* the link targets in a content
          Title,       \* its title
          Safe,        \* contents in which scan_content finds nothing
          Stem,        \* the file name of a path, as links write it
          PathOf,      \* the path a text denotes from the root of the vault, or NoPath
          Qualified,   \* texts with a directory in them
          Digest,      \* the eight hexadecimal digits that stand for a path in an identity
          Meta,        \* what (mtime, size, inode) of a file can be
          MaxChanges,  \* bound on ctimes, so on changes of files
          NoPath, None

Empty == <<>>
Text == {DeclaredId[c] : c \in Content} \cup {Title[c] : c \in Content}
        \cup {Stem[p] : p \in Path} \cup UNION {LinksOf[c] : c \in Content}

IsText(t) == Len(t) \in Nat /\ t = [i \in 1 .. Len(t) |-> t[i]]

\* What identities, declared or given, are made of.
Letters == UNION {Range(DeclaredId[c]) : c \in Content}
Digests == {Digest[p] : p \in Path}
Symbol == Letters \cup Digests \cup Nat
Name == Seq(Symbol)

File == [content : Content, meta : Meta, ctime : Nat]
State == [meta : Meta, ctime : Nat]
Note == [id : Name, declared : Name, content : Content, unsafe : BOOLEAN]

ASSUME IndexAssumption ==
    /\ IsFiniteSet(Path) /\ Path = 1 .. Cardinality(Path) /\ NoPath \notin Path
    /\ DOMAIN DeclaredId = Content /\ DOMAIN LinksOf = Content /\ DOMAIN Title = Content
    /\ \A c \in Content : IsText(DeclaredId[c]) /\ DeclaredId[c] # Empty
    /\ \A t \in Text : PathOf[t] \in Path \cup {NoPath}
    /\ Safe \subseteq Content
    /\ MaxChanges \in Nat \ {0}
    /\ None \notin File /\ None \notin State /\ None \notin Note

VARIABLES disk,      \* the notes: content, meta and ctime, or None
          changes,   \* the last ctime given out; user space cannot set a ctime
          rows,      \* table notes: identity, declared identity, content, verdict
          links,     \* table links: source identity, target text, target identity
          manifest,  \* table file_manifest
          parser,    \* meta.parser_format is this program's
          pc, forced, rebuilding,
          scan,      \* what the refresh has found out about a path
          current,   \* ghost: no file has changed since the last complete refresh began
          spoilt     \* ghost: a refresh re-read a note that was edited after its scan

index == <<rows, links, manifest, parser>>
vars == <<disk, changes, index, pc, forced, rebuilding, scan, current, spoilt>>

Stat(p) == [meta |-> disk[p].meta, ctime |-> disk[p].ctime]
NoStat == [meta |-> None, ctime |-> 0]

\* Answers of the scan about a path; "todo" is not visited, "stat" is to be read.
Unscanned == [state |-> "todo", stat |-> NoStat, content |-> None, declared |-> Empty]

TypeOK ==
    /\ \A p \in Path : disk[p] # None =>
          disk[p].content \in Content /\ disk[p].meta \in Meta /\ disk[p].ctime \in 1 .. changes
    /\ changes \in 0 .. MaxChanges
    /\ \A p \in Path : rows[p] # None =>
          /\ rows[p].content \in Content
          /\ manifest[p] # None
    /\ parser \in BOOLEAN /\ forced \in BOOLEAN /\ rebuilding \in BOOLEAN
    /\ pc \in {"idle", "scan", "reread"}
    /\ \A p \in Path : scan[p].state \in
          {"todo", "stat", "absent", "unchanged", "refreshed", "changed", "reread", "parsed", "raced"}

Init ==
    /\ disk \in [Path -> {None} \cup
                   [content : Content, meta : Meta, ctime : {1}]]
    /\ changes = 1
    /\ rows = [p \in Path |-> None]
    /\ links = {}
    /\ manifest = [p \in Path |-> None]
    /\ parser = FALSE
    /\ pc = "idle" /\ forced = FALSE /\ rebuilding = FALSE
    /\ scan = [p \in Path |-> Unscanned]
    /\ current = FALSE /\ spoilt = FALSE

-----------------------------------------------------------------------------
(* Files.  A write may leave mtime, size and inode as they were, or put old *)
(* ones back (an in-place edit, a rollback to the hard link); ctime is new. *)

Changed ==
    /\ changes < MaxChanges
    /\ changes' = changes + 1
    /\ current' = FALSE
    /\ UNCHANGED <<index, pc, forced, rebuilding, scan, spoilt>>

Edit(p) ==
    \E c \in Content, m \in Meta :
        /\ Changed
        /\ disk' = [disk EXCEPT ![p] = [content |-> c, meta |-> m, ctime |-> changes']]

\* The snapshot of a semantic transaction links the note: only its ctime changes.
Touch(p) ==
    /\ disk[p] # None
    /\ Changed
    /\ disk' = [disk EXCEPT ![p].ctime = changes']

Remove(p) ==
    /\ disk[p] # None
    /\ Changed
    /\ disk' = [disk EXCEPT ![p] = None]

-----------------------------------------------------------------------------
(* The refresh.                                                            *)

\* A mutant of OpenAfterUpgrade: the manifest is dropped although the rows are kept.
OpenAfterUpgradeDropping(keep) ==
    /\ pc = "idle" /\ parser
    /\ parser' = FALSE
    /\ manifest' = [p \in Path |-> None]
    /\ current' = FALSE
    /\ UNCHANGED <<disk, changes, rows, links, pc, forced, rebuilding, scan, spoilt>>

\* Another version of the program opens the database: rows it keeps are unsafe until they
\* are read again, manifests without a ctime do not match any file, and the parser format
\* is not this program's.  A schema it cannot keep is dropped.
OpenAfterUpgrade(keep) ==
    /\ pc = "idle" /\ parser
    /\ parser' = FALSE
    /\ rows' = [p \in Path |-> IF keep /\ rows[p] # None
                               THEN [rows[p] EXCEPT !.unsafe = TRUE] ELSE None]
    /\ manifest' = [p \in Path |-> IF keep /\ manifest[p] # None
                                   THEN [manifest[p] EXCEPT !.ctime = 0] ELSE None]
    /\ links' = IF keep THEN links ELSE {}
    /\ current' = FALSE
    /\ UNCHANGED <<disk, changes, pc, forced, rebuilding, scan, spoilt>>

\* index_vault(force) and rebuild, under the vault lock.  Rows deleted by a rebuild are
\* only gone for other readers when the savepoint is released.
Refresh(force, rebuild) ==
    /\ pc = "idle"
    /\ rebuild => force
    /\ forced' = (force \/ ~parser)
    /\ rebuilding' = rebuild
    /\ pc' = "scan"
    /\ scan' = [p \in Path |-> Unscanned]
    /\ current' = TRUE
    /\ UNCHANGED <<disk, changes, index, spoilt>>

\* The rows and manifests the refresh compares with: none, once a rebuild has deleted them.
Existing == IF rebuilding THEN [p \in Path |-> None] ELSE rows
Cached == IF rebuilding THEN [p \in Path |-> None] ELSE manifest

Found(p, state, content, declared) ==
    scan' = [scan EXCEPT ![p] = [state |-> state, stat |-> IF disk[p] = None THEN NoStat ELSE Stat(p),
                                 content |-> content, declared |-> declared]]

Comparable(p) == Existing[p] # None /\ Cached[p] # None /\ ~forced

SameInode(p) == Comparable(p) /\ Cached[p].meta = disk[p].meta

\* A mutant of Same, which leaves the ctime out, as releases before 0.3.1 did.
SameMeta(p) == SameInode(p)

\* _unchanged
Same(p) == SameInode(p) /\ Cached[p].ctime = disk[p].ctime

\* The loops go through the paths one by one, in order.
Pending(states) == {p \in Path : scan[p].state \in states}

Scanning(p) ==
    /\ pc = "scan" /\ scan[p].state = "todo"
    /\ \A q \in Pending({"todo", "stat"}) : p =< q
    /\ UNCHANGED <<disk, changes, index, pc, forced, rebuilding, current, spoilt>>

\* The walk takes the stat of a note first.
Visit(p) ==
    /\ Scanning(p)
    /\ IF disk[p] = None THEN Found(p, "absent", None, Empty)
       ELSE IF Same(p) THEN Found(p, "unchanged", Existing[p].content, Existing[p].declared)
       ELSE Found(p, "stat", None, Empty)

\* Then, unless the stat is that of the manifest, the bytes: by digest only where just
\* the ctime differs, parsed otherwise.  The stat is that of the visit.
Read(p) ==
    LET metaSame == Comparable(p) /\ Cached[p].meta = scan[p].stat.meta
        same == Comparable(p) /\ disk[p].content = Existing[p].content
    IN
    /\ pc = "scan" /\ scan[p].state = "stat" /\ disk[p] # None
    /\ scan' = [scan EXCEPT ![p].state = IF same THEN "refreshed" ELSE "changed",
                            ![p].content = disk[p].content,
                            ![p].declared = IF metaSame /\ same THEN Existing[p].declared
                                            ELSE DeclaredId[disk[p].content]]
    /\ UNCHANGED <<disk, changes, index, pc, forced, rebuilding, current, spoilt>>

\* The refresh is over and its local variables are gone.
Close ==
    /\ pc' = "idle" /\ forced' = FALSE /\ rebuilding' = FALSE
    /\ scan' = [p \in Path |-> Unscanned]

\* A note vanishes between its visit and its reading, SQLite fails, the process dies: the
\* savepoint is rolled back.
Fail ==
    /\ pc # "idle"
    /\ Close
    /\ current' = FALSE
    /\ UNCHANGED <<disk, changes, index, spoilt>>

Present == {p \in Path : scan[p].state # "absent"}

First(S) == CHOOSE p \in S : \A q \in S : p =< q

\* A mutant of Owner: the first path owns an identity, whoever holds it.
FirstOwner(declared) == First({p \in Present : scan[p].declared = declared})

\* _assign_identities: the note that holds a declared identity keeps it, otherwise the
\* first path in order gets it.
Owner(declared) ==
    LET paths == {p \in Present : scan[p].declared = declared}
        holders == {p \in paths : Existing[p] # None /\ Existing[p].id = declared}
    IN First(IF holders # {} THEN holders ELSE paths)

\* A mutant of Identities, which does not look whether an identity is taken.
IdentitiesUnchecked(declared, owner) ==
    [p \in DOMAIN declared |-> IF owner[p] = p THEN declared[p] ELSE declared[p] \o <<Digest[p], 0>>]

\* base with the first suffix that makes a new identity of it.
FirstFree(base, taken) ==
    base \o <<CHOOSE n \in 0 .. Cardinality(taken) :
                  /\ base \o <<n>> \notin taken
                  /\ \A k \in 0 .. n - 1 : base \o <<k>> \in taken>>

\* One path after the other: what does not own its declared identity gets one made of that
\* and the digest of the path, unlike any that is declared or given before.
Identities(declared, owner) ==
    LET desired[p \in DOMAIN declared] ==
            IF owner[p] = p THEN declared[p]
            ELSE FirstFree(declared[p] \o <<Digest[p]>>,
                           Range(declared)
                           \cup {desired[q] : q \in {q \in DOMAIN declared : q < p /\ owner[q] # q}})
    IN desired

Desired == Identities([p \in Present |-> scan[p].declared], [p \in Present |-> Owner(scan[p].declared)])

\* An unchanged note whose row identity must change is read again.
Rereads == {p \in Present : /\ scan[p].state \in {"unchanged", "refreshed"}
                            /\ Existing[p].id # Desired[p]}

Assign ==
    /\ pc = "scan"
    /\ Pending({"todo", "stat"}) = {}
    /\ pc' = "reread"
    /\ scan' = [p \in Path |-> IF p \in Present /\ p \in Rereads
                               THEN [scan[p] EXCEPT !.state = "reread", !.content = None]
                               ELSE scan[p]]
    /\ UNCHANGED <<disk, changes, index, forced, rebuilding, current, spoilt>>

\* The tuple (self._parse(...), absolute.stat()): the text first, the stat afterwards.  What
\* the note declares was taken from its row, or from its first reading.
RereadParse(p) ==
    /\ pc = "reread" /\ scan[p].state = "reread" /\ disk[p] # None
    /\ \A q \in Pending({"reread", "parsed"}) : p =< q
    /\ scan' = [scan EXCEPT ![p].state = "parsed", ![p].content = disk[p].content]
    /\ UNCHANGED <<disk, changes, index, pc, forced, rebuilding, current, spoilt>>

\* "raced" is "changed" to the program, which does not notice the edit.
RereadStat(p) ==
    /\ pc = "reread" /\ scan[p].state = "parsed" /\ disk[p] # None
    /\ scan' = [scan EXCEPT ![p].state = IF Stat(p) = scan[p].stat THEN "changed" ELSE "raced",
                            ![p].stat = Stat(p)]
    /\ UNCHANGED <<disk, changes, index, pc, forced, rebuilding, current, spoilt>>

Rewritten == {p \in Path : scan[p].state \in {"changed", "raced"}}
Removed == {p \in Path : scan[p].state = "absent" /\ Existing[p] # None}

\* _resolve_link_targets: identities first, then paths, then unique titles and file names.
Named(table, t) == {p \in Path : table[p] # None /\ t \in {table[p].id, table[p].declared}}
Aliased(table, t) == {p \in Path : table[p] # None /\ t \in {Title[table[p].content], Stem[p]}}
Only(table, S) == IF Cardinality(S) = 1 THEN table[First(S)].id ELSE Empty

Resolve(table, t) ==
    IF Named(table, t) # {} THEN Only(table, Named(table, t))
    ELSE IF PathOf[t] # NoPath /\ table[PathOf[t]] # None THEN table[PathOf[t]].id
    ELSE IF t \in Qualified THEN Empty
    ELSE Only(table, Aliased(table, t))

\* Each note with each text it links to.
Uses(table) == {x \in Path \X Text : table[x[1]] # None /\ x[2] \in LinksOf[table[x[1]].content]}

Resolved(table) == {<<table[x[1]].id, x[2], Resolve(table, x[2])>> : x \in Uses(table)}

\* A mutant of Relink: nothing is resolved again when notes were only removed.
RelinkChanged(table) ==
    IF Rewritten # {} THEN Resolved(table)
    ELSE {l \in links : \E p \in Path : table[p] # None /\ table[p].id = l[1]}

\* The links after the rows are written; nothing is resolved where nothing changed.
Relink(table) ==
    IF Rewritten \cup Removed # {} THEN Resolved(table)
    ELSE IF rebuilding THEN {} ELSE links

Row(p) == [id |-> Desired[p], declared |-> scan[p].declared, content |-> scan[p].content,
           unsafe |-> scan[p].content \notin Safe]

\* The manifest after the refresh: whatever was not skipped gets the stat of the refresh.
Recorded(p) ==
    IF scan[p].state = "absent" THEN None
    ELSE IF scan[p].state = "unchanged" THEN manifest[p]
    ELSE scan[p].stat

\* Deletes, inserts, manifests and links in one savepoint, and its release.
Apply ==
    LET table == [p \in Path |-> IF scan[p].state = "absent" THEN None
                                 ELSE IF p \in Rewritten THEN Row(p)
                                 ELSE rows[p]]
    IN
    /\ pc = "reread"
    /\ Pending({"reread", "parsed"}) = {}
    /\ rows' = table
    /\ manifest' = [p \in Path |-> Recorded(p)]
    /\ links' = Relink(table)
    /\ parser' = TRUE
    /\ Close
    /\ spoilt' = ((spoilt /\ ~forced) \/ \E p \in Path : scan[p].state = "raced")
    /\ UNCHANGED <<disk, changes, current>>

Refreshing ==
    \/ \E p \in Path : Visit(p) \/ Read(p) \/ RereadParse(p) \/ RereadStat(p)
    \/ Assign \/ Apply

Next ==
    \/ \E p \in Path : Edit(p) \/ Touch(p) \/ Remove(p)
    \/ \E keep \in BOOLEAN : OpenAfterUpgrade(keep)
    \/ \E force, rebuild \in BOOLEAN : Refresh(force, rebuild)
    \/ Refreshing
    \/ Fail

Spec == Init /\ [][Next]_vars
-----------------------------------------------------------------------------
(* What a reader of the vault itself would say of it.                      *)

Declared(p) == DeclaredId[disk[p].content]
OnDisk == {p \in Path : disk[p] # None}

\* The only note a link text can mean, or NoPath: by identity, else by path, else by name.
Meaning(t) ==
    LET byIdentity == {p \in OnDisk : Declared(p) = t}
        byPath == {PathOf[t]} \cap OnDisk
        byName == {p \in OnDisk : t \notin Qualified /\ t \in {Title[disk[p].content], Stem[p]}}
        meant == IF byIdentity # {} THEN byIdentity ELSE IF byPath # {} THEN byPath ELSE byName
    IN IF Cardinality(meant) = 1 THEN CHOOSE p \in meant : TRUE ELSE NoPath

PathWith(id) == IF id = Empty THEN NoPath ELSE CHOOSE p \in Path : rows[p] # None /\ rows[p].id = id

NotesExact ==
    \A p \in Path :
        IF disk[p] = None THEN rows[p] = None
        ELSE /\ rows[p] # None
             /\ rows[p].content = disk[p].content
             /\ rows[p].declared = Declared(p)
             /\ rows[p].unsafe = (disk[p].content \notin Safe)

LinksExact ==
    {<<PathWith(l[1]), l[2], PathWith(l[3])>> : l \in links}
        = {<<x[1], x[2], Meaning(x[2])>> : x \in Uses(disk)}

\* A complete refresh during which no file changed leaves the notes and links a rebuild of
\* the same vault would: whatever was edited, linked, moved, given back an old mtime or
\* interrupted before.  Unless a note was edited while an earlier refresh read it again.
IndexExact ==
    pc = "idle" /\ current /\ ~spoilt => NotesExact /\ LinksExact

\* The same without the exception, as the reliability contract has it.
RefreshPreservesNotes ==
    pc = "idle" /\ current => NotesExact

\* Row identities are unique, or the refresh that inserts them would fail for ever: also
\* when digests collide, or a note declares what looks like the identity of a duplicate.
RowIdsUnique ==
    \A p, q \in Path : rows[p] # None /\ rows[q] # None /\ rows[p].id = rows[q].id => p = q

\* No link starts from or ends at a row that is not there.
LinksPointToRows ==
    \A l \in links : \A id \in {l[1], l[3]} \ {Empty} :
        \E p \in Path : rows[p] # None /\ rows[p].id = id

\* A note that holds an identity keeps it for as long as its row declares it, whichever
\* duplicates come and go: usage and decisions refer to that identity.  A rebuild may
\* choose another holder.
IdentityStays ==
    [][\A p \in Path :
          /\ rows[p] # None /\ rows'[p] # None /\ ~rebuilding
          /\ rows[p].id = rows[p].declared /\ rows'[p].declared = rows[p].declared
          => rows'[p].id = rows[p].id]_vars

\* Rows are well formed, no two have one identity, and links connect rows that are there.
RowsConsistent == TypeOK /\ RowIdsUnique /\ LinksPointToRows
=============================================================================
